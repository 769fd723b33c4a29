--------------------------- MODULE MCURFTranslate ---------------------------
(* A small instance of URFTranslate for TLC: media of two pixels by one at one *)
(* pixel per inch, header sizes of a few bytes.                                *)
EXTENDS URFTranslate, TLC

SpanParent == (request :> NoSpan) @@ (translation :> request)

SmallLimits == [input |-> 20, output |-> 28, pages |-> 3, width |-> 4,
                height |-> 4, row |-> 11, decoded |-> 14]

Ask(mapping, sides, back) ==
  [texts |-> TRUE, mediaWidth |-> 5, mediaHeight |-> 2,
   resX |-> 1, resY |-> 1, sides |-> sides, sheetBack |-> back, quality |-> 4,
   mapping |-> mapping]

SmallRequests ==
  {Ask("W8", "", ""), Ask("SRGB24", "two-sided-long-edge", "flipped"),
   Ask("W8", "two-sided-short-edge", "manual-tumble"),
   Ask("W8", "two-sided-long-edge", "rotated"),
   [Ask("W8", "", "") EXCEPT !.resY = 2]}

\* Both spaces and duplex modes, a page turned by a right angle, one that is
\* too wide, one of the wrong size, one without rows.
SmallPages ==
  {[space |-> sp[1], bits |-> sp[2], duplex |-> d, width |-> wh[1],
    height |-> wh[2], resolution |-> 1] :
     sp \in {<<0, 8>>, <<1, 24>>}, d \in 1..3,
     wh \in {<<2, 1>>, <<1, 2>>, <<5, 1>>, <<2, 2>>, <<2, 0>>}}
=============================================================================
