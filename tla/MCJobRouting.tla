---------------------------- MODULE MCJobRouting ----------------------------
(* A small instance of JobRouting for TLC: a queue for photo and plain paper  *)
(* before a printer that reports different capabilities at different times.  *)
EXTENDS JobRouting

SmallMedia == {"a4", "photo", "custom"}
SmallSizes == "a4" :> <<21, 29>> @@ "photo" :> <<10, 15>> @@ "custom" :> None

Dpi(x, y)  == [x |-> x, y |-> y, unit |-> "dpi"]

Tray(names, size, source, type, margin, ready) ==
  [names |-> names, size |-> size, source |-> source, type |-> type,
   margin |-> margin, ready |-> ready]

\* A printer with PWG raster only, in grey and in colour.
Raster ==
  [formats |-> <<"pdf", "pwg", "octet">>, formatDefault |-> "octet",
   formatPreferred |-> "pdf", urf |-> None,
   rasterTypes |-> {"sgray_8", "srgb_8", "rgb_8"},
   resolutions |-> <<Dpi(3, 3), Dpi(6, 6), Dpi(6, 3)>>, sheetBack |-> "flipped",
   sidesDefault |-> "two-sided-long-edge", qualityDefault |-> 4,
   media |-> SmallMedia, colorModes |-> {"monochrome", "color"},
   types |-> {"stationery"}, sources |-> {"auto", "main"}, sourceDefault |-> "main",
   collections |-> <<Tray({"a4"}, <<21, 29>>, "main", "stationery", 3, FALSE),
                     Tray({}, <<29, 21>>, "main", None, 3, TRUE)>>,
   baseline |-> TRUE, claimsEverywhere |-> FALSE]

\* The same printer with a full native AirPrint family, with one that has no
\* colour, with two trays of one size, and with no raster the proxy can use.
NativeColor == [Raster EXCEPT !.formats = <<"urf", "pdf", "pwg">>, !.formatDefault = "urf",
                  !.urf = {"V", "RS", "W", "DEVW", "SRGB", "DEVRGB"}]
NativeGrey  == [NativeColor EXCEPT !.urf = {"RS", "W", "DEVW"}, !.formatPreferred = "urf",
                  !.rasterTypes = {"sgray_8"}]
TwoTrays    == [Raster EXCEPT !.rasterTypes = {"sgray_8", "rgb_8"}, !.claimsEverywhere = TRUE,
                  !.sources = None, !.collections =
                    <<Tray({"a4"}, <<21, 29>>, "main", None, 0, FALSE),
                      Tray({"a4"}, <<21, 29>>, "side", None, 3, FALSE),
                      Tray({"photo", "custom"}, None, "side", None, None, TRUE),
                      Tray({"custom"}, <<12, 12>>, None, None, 3, FALSE)>>]
NoRaster    == [Raster EXCEPT !.formats = <<"octet", "pwg", "untyped">>,
                  !.rasterTypes = {"junk"}, !.media = {"photo"}, !.colorModes = None]
SmallUpstreams == {Raster, NativeColor, NativeGrey, TwoTrays, NoRaster}

Grey == [media |-> None, mediaSupported |-> <<"a4", "photo">>, mediaDefault |-> "a4",
         mediaType |-> "stationery", mediaSource |-> None, colorMode |-> "monochrome",
         useMediaCol |-> FALSE, fidelityMode |-> "warn", printScaling |-> None,
         airprint |-> "emulate", everywhere |-> "auto"]
SmallPolicies ==
  {Grey,
   [Grey EXCEPT !.colorMode = "color", !.mediaSource = "main",
                !.printScaling = "fit"],
   [Grey EXCEPT !.useMediaCol = TRUE, !.fidelityMode = "reject"],
   [Grey EXCEPT !.mediaSupported = <<"custom", "photo">>, !.mediaDefault = "custom"],
   [Grey EXCEPT !.colorMode = "color", !.airprint = "auto", !.media = "a4",
                !.mediaSupported = <<"a4">>]}

Col(names, size, invalid) == [names |-> names, size |-> size, invalid |-> invalid]
Ask(op, format, attrs, fidelity) ==
  [op |-> op, format |-> format, attrs |-> attrs, fidelity |-> fidelity]

SmallRequests ==
  {Ask("print", "urf", "media" :> "photo" @@ "sides" :> "one-sided"
                       @@ "printer-resolution" :> 6, FALSE),
   Ask("print", "pdf", "media-type" :> "glossy" @@ "print-color-mode" :> "color"
                       @@ "vendor" :> "x", FALSE),
   Ask("print", None, "media" :> "a4", FALSE),
   Ask("print", "urf", "media" :> "custom", FALSE),
   Ask("create", "urf", "media-col" :> Col({"photo"}, <<10, 15>>, FALSE)
                        @@ "print-quality" :> 5, FALSE),
   Ask("create", None, "overrides" :>
         {{<<"pages">>, <<"media">>, <<"pages", "media">>},
          {<<"pages">>, <<"media-col">>, <<"finishings">>, <<"finishings", "media">>,
           <<"finishings", "staple">>, <<"finishings", "staple", "media-type">>}}, FALSE),
   Ask("create", "urf", "media-col" :> Col({}, <<21, 29>>, FALSE)
                        @@ "media" :> "photo", FALSE),
   Ask("validate", "pwg", "media" :> "legal" @@ "finishings" :> "staple", TRUE),
   Ask("validate", "urf", "media" :> "a4", TRUE),
   Ask("validate", "urf", "print-color-mode" :> Malformed, FALSE)}
=============================================================================
