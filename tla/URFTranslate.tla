---------------------------- MODULE URFTranslate ----------------------------
(***************************************************************************)
(* The Apple Raster to PWG Raster translator (internal/urf/translate.go)   *)
(* under its caller translatePayload (internal/proxy/airprint.go).  The    *)
(* source is a stream whose bytes are chosen as they are read, and it may  *)
(* end, fail or be canceled at any of them; so may the staging file that   *)
(* is written.  The file is abstracted to its length, its leading marker   *)
(* and the page headers in it.                                             *)
(***************************************************************************)
EXTENDS SpanResources, Sequences, FiniteSets

CONSTANTS Requests,       \* page settings and mappings a caller may pass
          MaxBytes,       \* the configured payload limit, 0 for none
          DefaultLimits,  \* record of the translator's finite limits
          RawPages,       \* the page headers the source may hold
          RepeatBytes,    \* values of the row repeat byte
          ControlBytes,   \* values of the packet control byte
          FileHeaderSize, PageHeaderSize,   \* sizes in the source
          PWGHeaderSize, CountOffset,       \* page header of the output
          ScratchSize,                      \* bytes copied at a time
          PerInch,        \* units of media sizes: hundredths of a millimetre
          MaxUint32, MaxUint64,
          request, translation              \* the two spans

MarkerSize == 4
OffsetSize == 8         \* bytes of one entry of pageCounts

ASSUME SizesAssumption ==
  /\ FileHeaderSize \in Nat /\ PageHeaderSize \in Nat \ {0}
  /\ CountOffset \in Nat /\ PWGHeaderSize \in Nat
  /\ CountOffset + MarkerSize <= PWGHeaderSize
  /\ ScratchSize \in Nat \ {0} /\ PerInch \in Nat \ {0}
  /\ MaxBytes \in Nat /\ MaxUint32 \in Nat /\ MaxUint64 \in Nat

\* The limits are finite, and the accounting has room for what they allow: the
\* staging file, and the buffers with the offsets of all pages.
ASSUME LimitsAssumption ==
  /\ DefaultLimits \in [input : Nat \ {0}, output : Nat \ {0}, pages : Nat \ {0},
                        width : Nat \ {0}, height : Nat \ {0}, row : Nat \ {0},
                        decoded : Nat \ {0}]
  /\ MaxBytes <= MaxInt64 /\ DefaultLimits.output <= MaxInt64
  /\ ScratchSize + PWGHeaderSize + 2 * OffsetSize * DefaultLimits.pages <= MaxInt64
  /\ {request, translation} \subseteq Spans

VARIABLES pc,           \* where the translation stands
          error,        \* kind of the error it returned, "none" before
          opts,         \* the request being translated
          count,        \* bytes taken from the source
          outputBytes,  \* bytes of the staging file
          dst,          \* marker and page headers in the staging file
          pages, pageCounts, pageLogical,
          page,         \* the page, row and packet being copied
          spans,        \* accounting of the request and the translation
          held          \* capacities of the leases that are held

vars == <<pc, error, opts, count, outputBytes, dst, pages, pageCounts,
          pageLogical, page, spans, held>>

NoPage  == [raw |-> [width |-> 0, height |-> 0], bpp |-> 1, rowBytes |-> 0,
            landscape |-> FALSE, rowsDone |-> 0, repeat |-> 0,
            remaining |-> 0, payload |-> 0]
NoLease == [scratch |-> 0, offsets |-> 0, cap |-> 0]
-----------------------------------------------------------------------------
(* Options *)

Lesser(a, b) == IF a < b THEN a ELSE b

\* translatePayload replaces the byte limits when one is configured; a zero
\* limit selects the default.
limits ==
  LET asked == IF MaxBytes > 0
               THEN [DefaultLimits EXCEPT !.input = MaxBytes, !.output = MaxBytes]
               ELSE DefaultLimits
  IN  [f \in DOMAIN DefaultLimits |->
         IF asked[f] # 0 THEN asked[f] ELSE DefaultLimits[f]]

\* Source colour space and bits per pixel of a mapping, output colour space.
sourceMapping ==
  [W8     |-> [space |-> 0, bits |-> 8,  out |-> 18],
   SRGB24 |-> [space |-> 1, bits |-> 24, out |-> 19],
   DEVRGB |-> [space |-> 5, bits |-> 24, out |-> 1]]

Sides      == {"one-sided", "two-sided-long-edge", "two-sided-short-edge"}
SheetBacks == {"normal", "flipped", "manual-tumble", "rotated"}

\* Values of sides, sheet-back and mapping: the known ones, none, any other.
Names == Sides \cup SheetBacks \cup DOMAIN sourceMapping \cup {"", "other"}

\* What a request and a source may hold.
ASSUME InputsAssumption ==
  /\ Requests \subseteq [texts : BOOLEAN, mediaWidth : Nat, mediaHeight : Nat,
                        resX : Nat, resY : Nat, sides : Names, sheetBack : Names,
                        quality : Nat, mapping : Names]
  /\ RawPages \subseteq [space : 0..255, bits : 0..255, duplex : 0..255,
                        width : Nat, height : Nat, resolution : Nat]
  /\ RepeatBytes \subseteq 0..255 /\ ControlBytes \subseteq 0..255

\* An empty value of sides or sheet-back means its default.
defaulted(r) ==
  [r EXCEPT !.sides = IF @ = "" THEN "one-sided" ELSE @,
            !.sheetBack = IF @ = "" THEN "normal" ELSE @]

\* texts is FALSE when a name holds a NUL or is too long for a PWG header.
validRequest(r) ==
  /\ r.texts
  /\ r.mediaWidth # 0 /\ r.mediaHeight # 0
  /\ r.resX # 0 /\ r.resX = r.resY
  /\ defaulted(r).sides \in Sides
  /\ defaulted(r).sheetBack \in SheetBacks
  /\ r.quality \in {0, 3, 4, 5}
  /\ r.mapping \in DOMAIN sourceMapping
-----------------------------------------------------------------------------
(* Arithmetic on 64-bit sizes *)

MulFits(a, b) == a = 0 \/ b <= MaxUint64 \div a

\* The sum wraps before it is compared with the limit.
AddsWithin_Wraps(sum, add, limit) ==
  limit = 0 \/ (sum + add) % (MaxUint64 + 1) <= limit

\* checkedAddWithin: sum stays as it was when this is FALSE.
AddsWithin(sum, add, limit) ==
  /\ add <= MaxUint64 - sum
  /\ limit > 0 => sum + add <= limit

\* Width and height of the medium in pixels; "fits" is FALSE on overflow.
mediaPixels(width, height, dpi) ==
  LET w == (width * dpi) \div PerInch
      h == (height * dpi) \div PerInch
  IN  [w |-> w, h |-> h,
       fits |-> /\ MulFits(width, dpi) /\ MulFits(height, dpi)
                /\ w \in 1..MaxUint32 /\ h \in 1..MaxUint32]
-----------------------------------------------------------------------------
(* Page headers *)

\* validateDuplex: mode 2 is short-edge, every larger one long-edge.
duplexFits(mode) ==
  CASE opts.sides = "one-sided"            -> mode < 2
    [] opts.sides = "two-sided-long-edge"  -> mode > 2
    [] opts.sides = "two-sided-short-edge" -> mode = 2

bytesPerPixel == sourceMapping[opts.mapping].bits \div 8
rowBytes(raw) == raw.width * bytesPerPixel

Fits(raw)     == LET m == mediaPixels(opts.mediaWidth, opts.mediaHeight, raw.resolution)
                 IN  raw.width = m.w /\ raw.height = m.h
FitsRotated(raw) == LET m == mediaPixels(opts.mediaWidth, opts.mediaHeight, raw.resolution)
                    IN  raw.width = m.h /\ raw.height = m.w

\* The checks of parsePage in the order the code makes them.
pageChecks(raw) ==
  LET want == sourceMapping[opts.mapping]
  IN  << [bad |-> raw.space # want.space \/ raw.bits # want.bits, kind |-> "unsupported"],
         [bad |-> raw.width = 0 \/ raw.height = 0 \/ raw.resolution = 0, kind |-> "malformed"],
         [bad |-> raw.resolution # opts.resX, kind |-> "settings"],
         [bad |-> raw.width > limits.width \/ raw.height > limits.height, kind |-> "resource"],
         [bad |-> \/ ~MulFits(raw.width, bytesPerPixel)
                  \/ rowBytes(raw) = 0
                  \/ rowBytes(raw) > limits.row
                  \/ rowBytes(raw) > MaxUint32
                  \/ ~MulFits(rowBytes(raw), raw.height)
                  \/ ~AddsWithin(pageLogical, rowBytes(raw) * raw.height, limits.decoded),
          kind |-> "resource"],
         [bad |-> ~mediaPixels(opts.mediaWidth, opts.mediaHeight, raw.resolution).fits,
          kind |-> "resource"],
         [bad |-> ~Fits(raw) /\ ~FitsRotated(raw), kind |-> "settings"],
         [bad |-> ~duplexFits(raw.duplex), kind |-> "settings"] >>

\* The first check that fails, if any.
parseError(raw) ==
  LET checks  == pageChecks(raw)
      failing == {i \in DOMAIN checks : checks[i].bad}
  IN  IF failing = {} THEN "none"
      ELSE checks[CHOOSE i \in failing : \A j \in failing : i <= j].kind

parsedPage(raw) ==
  [NoPage EXCEPT !.raw = [width |-> raw.width, height |-> raw.height],
                 !.bpp = bytesPerPixel, !.rowBytes = rowBytes(raw),
                 !.landscape = ~Fits(raw)]

\* The second page of each duplex pair.
isBack == opts.sides # "one-sided" /\ pages % 2 = 1

\* setSheetBack: directions in which the back of a sheet is mirrored.
sheetTransform ==
  LET tumble == opts.sides = "two-sided-short-edge"
  IN  CASE ~isBack                           -> {}
        [] isBack /\ opts.sheetBack = "flipped" ->
             IF tumble THEN {"cross"} ELSE {"feed"}
        [] isBack /\ opts.sheetBack = "manual-tumble" ->
             IF tumble THEN {"cross", "feed"} ELSE {}
        [] isBack /\ opts.sheetBack = "rotated" ->
             IF tumble THEN {} ELSE {"cross", "feed"}
        [] isBack /\ opts.sheetBack = "normal" -> {}

\* The offset is taken after the header has been written.
countOffset_AfterHeader == outputBytes + PWGHeaderSize + CountOffset

\* Where TotalPageCount of the header written next will be patched.
countOffset == outputBytes + CountOffset

pwgHeader ==
  [at |-> outputBytes, total |-> 0, transform |-> sheetTransform,
   duplex |-> opts.sides # "one-sided",
   tumble |-> opts.sides = "two-sided-short-edge",
   space |-> sourceMapping[opts.mapping].out,
   width |-> page.raw.width, height |-> page.raw.height,
   rowBytes |-> page.rowBytes, landscape |-> page.landscape]

\* Capacity of a slice of n - 1 entries after an append (Go runtime).
appendCap(cap, n) == IF n <= cap THEN cap ELSE Larger(1, 2 * cap)
-----------------------------------------------------------------------------
(* Reading and writing *)

\* What reading n bytes may come to: bytes taken and the error.  At the limit
\* the source is probed for one more byte, so it may still end there.
Reads(n) ==
  LET within == Lesser(n, limits.input - count)
  IN  (IF within = n THEN {[got |-> n, err |-> "none"]}
       ELSE {[got |-> within, err |-> "resource"]})
      \cup [got : {k \in {0, within} : k < n}, err : {"malformed", "canceled"}]
      \cup [got : {0, within}, err : {"source"}]

\* What writing n bytes may come to; a write cut short is tried again.
Writes(n) ==
  (IF outputBytes + n > limits.output THEN {[put |-> 0, err |-> "resource"]}
   ELSE {[put |-> n, err |-> "none"]} \cup [put : {0, n}, err : {"destination"}])
  \cup {[put |-> 0, err |-> "canceled"]}

\* Reading n bytes and writing them through.
Copies(n) ==
  {[got |-> r.got, put |-> 0, err |-> r.err] : r \in {r \in Reads(n) : r.err # "none"}}
  \cup {[got |-> n, put |-> w.put, err |-> w.err] :
          w \in IF limits.input - count >= n THEN Writes(n) ELSE {}}

\* The output lease follows a write that extends the file.
Extended(n) ==
  SetSize(Written(spans, translation, n), translation, outputBytes, outputBytes + n)

\* The page offsets stay charged.
Released_KeepsOffsets(sp) ==
  ReleaseBuffer(sp, translation, "scratch", held.scratch)

\* releaseResources; the output lease is the caller's.
Released(sp) ==
  ReleaseBuffer(ReleaseBuffer(sp, translation, "offsets", held.offsets),
                translation, "scratch", held.scratch)

\* An error leaves Translate and translatePayload: the scratch leases go, the
\* staging file of size bytes is removed and the span is finished.
Fails(kind, sp, size) ==
  /\ pc' = "failed" /\ error' = kind
  /\ spans' = Finish(ReleaseTemp(Released(sp), translation, size), translation)
  /\ held' = NoLease
  /\ outputBytes' = 0 /\ dst' = [marker |-> FALSE, headers |-> <<>>]

\* n more bytes of the source and of the file, then the step named next.
Continues(next, got, put) ==
  /\ pc' = next
  /\ count' = count + got
  /\ outputBytes' = outputBytes + put
  /\ spans' = Extended(put)
  /\ UNCHANGED <<error, held>>

\* The failing outcomes of a copy.
CopyFails(n) ==
  \E c \in Copies(n) :
    /\ c.err # "none"
    /\ Fails(c.err, Extended(c.put), outputBytes + c.put)
    /\ count' = count + c.got
    /\ UNCHANGED <<opts, pages, pageCounts, pageLogical, page>>

Copyable(n) == [got |-> n, put |-> n, err |-> "none"] \in Copies(n)
-----------------------------------------------------------------------------
Init ==
  /\ pc = "idle" /\ error = "none"
  /\ opts \in Requests
  /\ count = 0 /\ outputBytes = 0
  /\ dst = [marker |-> FALSE, headers |-> <<>>]
  /\ pages = 0 /\ pageCounts = <<>> /\ pageLogical = 0
  /\ page = NoPage
  /\ spans = [s \in Spans |-> NewSpan]
  /\ held = NoLease

\* translatePayload and Translate up to the leases: staging file and options.
Start ==
  /\ pc = "idle"
  /\ \/ /\ ~validRequest(opts)
        /\ Fails("options", AcquireTemp(spans, translation, 0), 0)
        /\ UNCHANGED opts
     \/ \* no payload, no staging file, or canceled
        /\ \E kind \in {"staging", "canceled"} :
             Fails(kind, IF kind = "staging" THEN spans
                         ELSE AcquireTemp(spans, translation, 0), 0)
        /\ UNCHANGED opts
     \/ /\ validRequest(opts)
        /\ pc' = "marker" /\ opts' = defaulted(opts)
        /\ spans' = AcquireBuffer(AcquireTemp(spans, translation, 0),
                                  translation, "scratch", ScratchSize)
        /\ held' = [NoLease EXCEPT !.scratch = ScratchSize]
        /\ UNCHANGED <<error, outputBytes, dst>>
  /\ UNCHANGED <<count, pages, pageCounts, pageLogical, page>>

\* The file is sought to be empty; four zero bytes keep it invalid while the
\* work is in progress.
ZeroMarker ==
  /\ pc = "marker"
  /\ \E w \in Writes(MarkerSize) :
       \/ /\ w.err = "none"
          /\ Continues("file", 0, MarkerSize) /\ UNCHANGED dst
       \/ /\ w.err # "none"
          /\ Fails(w.err, Extended(w.put), outputBytes + w.put)
          /\ UNCHANGED count
  /\ UNCHANGED <<opts, pages, pageCounts, pageLogical, page>>

\* The signature may be wrong; the rest of the file header is not looked at.
readFileHeader ==
  /\ pc = "file"
  /\ \E r \in Reads(FileHeaderSize), signed \in BOOLEAN :
       \/ /\ r.err = "none" /\ signed
          /\ Continues("header", r.got, 0) /\ UNCHANGED dst
       \/ /\ r.err # "none" \/ ~signed
          /\ Fails(IF r.err # "none" THEN r.err ELSE "malformed", spans, outputBytes)
          /\ count' = count + r.got
  /\ UNCHANGED <<opts, pages, pageCounts, pageLogical, page>>

\* The source ends, maybe inside a header: the bytes of it are ignored.
SourceEnds ==
  /\ pc = "header"
  /\ \E r \in Reads(PageHeaderSize) :
       /\ r.err = "malformed"
       /\ IF pages = 0 THEN Fails("malformed", spans, outputBytes)
          ELSE pc' = "patch" /\ UNCHANGED <<error, spans, held, outputBytes, dst>>
       /\ count' = count + r.got
  /\ UNCHANGED <<opts, pages, pageCounts, pageLogical, page>>

\* One turn of translatePages up to the parsed page.
readHeader ==
  /\ pc = "header"
  /\ \/ /\ \E r \in Reads(PageHeaderSize) :
             /\ r.err \notin {"none", "malformed"}
             /\ Fails(r.err, spans, outputBytes)
             /\ count' = count + r.got
        /\ UNCHANGED <<pageLogical, page>>
     \/ /\ limits.input - count >= PageHeaderSize
        /\ count' = count + PageHeaderSize
        /\ \E raw \in RawPages :
             LET err == IF pages >= limits.pages THEN "resource" ELSE parseError(raw)
             IN  IF err # "none"
                 THEN Fails(err, spans, outputBytes) /\ UNCHANGED <<pageLogical, page>>
                 ELSE /\ pc' = "emit"
                      /\ page' = parsedPage(raw)
                      /\ pageLogical' = pageLogical + rowBytes(raw) * raw.height
                      /\ UNCHANGED <<error, spans, held, outputBytes, dst>>
  /\ UNCHANGED <<opts, pages, pageCounts>>

\* The header buffer is leased until the function returns, whichever way.
emitPageHeader ==
  /\ pc = "emit"
  /\ LET filled == AcquireBuffer(spans, translation, "header", PWGHeaderSize)
         put(n) == SetSize(Written(filled, translation, n), translation,
                           outputBytes, outputBytes + n)
         returned(sp) == ReleaseBuffer(sp, translation, "header", PWGHeaderSize)
         cap == appendCap(held.cap, Len(pageCounts) + 1)
         outcomes == IF Len(pageCounts) + 1 > limits.pages
                     THEN {[put |-> 0, err |-> "resource"]} ELSE Writes(PWGHeaderSize)
     IN  \E w \in outcomes :
         \/ /\ w.err # "none"
            /\ Fails(w.err, returned(put(w.put)), outputBytes + w.put)
            /\ UNCHANGED pageCounts
         \/ /\ w.err = "none"
            /\ pc' = "row"
            /\ outputBytes' = outputBytes + PWGHeaderSize
            /\ dst' = [dst EXCEPT !.headers = Append(@, pwgHeader)]
            /\ pageCounts' = Append(pageCounts, countOffset)
            /\ held' = [held EXCEPT !.cap = cap, !.offsets = cap * OffsetSize]
            /\ spans' = returned(IF cap = held.cap THEN put(PWGHeaderSize)
                                 ELSE AcquireBuffer(
                                        ReleaseBuffer(put(PWGHeaderSize), translation,
                                                      "offsets", held.offsets),
                                        translation, "offsets", cap * OffsetSize))
            /\ UNCHANGED error
  /\ UNCHANGED <<opts, count, pages, pageLogical, page>>

\* The row repeat byte of the next group of rows.
CopyRepeat ==
  /\ pc = "row" /\ page.rowsDone < page.raw.height
  /\ \/ CopyFails(1)
     \/ /\ Copyable(1)
        /\ Continues("packet", 1, 1)
        /\ \E b \in RepeatBytes :
             page' = [page EXCEPT !.repeat = b + 1, !.remaining = page.rowBytes]
        /\ UNCHANGED <<opts, dst, pages, pageCounts, pageLogical>>

\* The packet may claim more pixels than are left.
clipped_Not(want) == want

\* A packet is clipped at the end of the row.
clipped(want) == Lesser(want, page.remaining)

\* What a control byte asks for: payload bytes to copy and row bytes covered.
packet(c) ==
  CASE c = 128 -> [payload |-> 0, covers |-> page.remaining]
    [] c > 128 -> [payload |-> clipped((257 - c) * page.bpp),
                   covers  |-> clipped((257 - c) * page.bpp)]
    [] c < 128 -> [payload |-> page.bpp, covers |-> clipped((c + 1) * page.bpp)]

\* A repeat packet of less than a pixel covers the rest without a payload.
CopyControl ==
  /\ pc = "packet" /\ page.remaining > 0
  /\ \/ CopyFails(1)
     \/ /\ Copyable(1)
        /\ \E c \in ControlBytes :
             LET p     == packet(c)
                 short == c < 128 /\ p.covers < page.bpp
             IN  /\ page' = [page EXCEPT
                       !.payload   = IF short THEN 0 ELSE p.payload,
                       !.remaining = IF short THEN 0 ELSE @ - p.covers]
                 /\ Continues(IF short \/ p.payload = 0 THEN "packet" ELSE "payload", 1, 1)
        /\ UNCHANGED <<opts, dst, pages, pageCounts, pageLogical>>

\* copyBytes: one scratch buffer at a time.
CopyPayload ==
  /\ pc = "payload"
  /\ LET n == Lesser(ScratchSize, page.payload)
     IN  \/ CopyFails(n)
         \/ /\ Copyable(n)
            /\ Continues(IF n = page.payload THEN "packet" ELSE "payload", n, n)
            /\ page' = [page EXCEPT !.payload = @ - n]
            /\ UNCHANGED <<opts, dst, pages, pageCounts, pageLogical>>

\* A group of rows ends; its repeat may reach past the page.
RowDone ==
  /\ pc = "packet" /\ page.remaining = 0
  /\ pc' = "row"
  /\ page' = [page EXCEPT !.rowsDone =
                IF page.repeat > page.raw.height - @ THEN page.raw.height
                ELSE @ + page.repeat]
  /\ UNCHANGED <<error, opts, count, outputBytes, dst, pages, pageCounts,
                 pageLogical, spans, held>>

PageDone ==
  /\ pc = "row" /\ page.rowsDone = page.raw.height
  /\ pc' = "header" /\ pages' = pages + 1 /\ page' = NoPage
  /\ UNCHANGED <<error, opts, count, outputBytes, dst, pageCounts, pageLogical,
                 spans, held>>

\* Four bytes written at an offset: a header whose page count lies there.
Patched(headers, off) ==
  [i \in DOMAIN headers |->
     IF headers[i].at + CountOffset = off THEN [headers[i] EXCEPT !.total = pages]
     ELSE headers[i]]

\* A seekWrite of finalize that fails: the lease is not told of its bytes.
SeekWriteFails ==
  \E kind \in {"canceled", "destination"} : Fails(kind, spans, outputBytes)

\* finalize: the page counts one after the other, then the marker.
PatchCount ==
  /\ pc = "patch" /\ pageCounts # <<>>
  /\ \/ SeekWriteFails /\ UNCHANGED pageCounts
     \/ /\ dst' = [dst EXCEPT !.headers = Patched(@, Head(pageCounts))]
        /\ pageCounts' = Tail(pageCounts)
        /\ spans' = Written(spans, translation, MarkerSize)
        /\ UNCHANGED <<pc, error, outputBytes, held>>
  /\ UNCHANGED <<opts, count, pages, pageLogical, page>>

WriteMarker ==
  /\ pc = "patch" /\ pageCounts = <<>>
  /\ \/ SeekWriteFails
     \/ /\ pc' = "measure"
        /\ dst' = [dst EXCEPT !.marker = TRUE]
        /\ spans' = Written(spans, translation, MarkerSize)
        /\ UNCHANGED <<error, outputBytes, held>>
  /\ UNCHANGED <<opts, count, pages, pageCounts, pageLogical, page>>

\* The size is measured and the file rewound, in finalize and again by the
\* caller, who keeps the file; Translate's leases and the span end.
Complete ==
  /\ pc = "measure"
  /\ \/ \E kind \in {"canceled", "destination"} : Fails(kind, spans, outputBytes)
     \/ /\ outputBytes <= limits.output
        /\ pc' = "staged"
        /\ spans' = Finish(Released(spans), translation)
        /\ held' = NoLease
        /\ UNCHANGED <<error, outputBytes, dst>>
  /\ UNCHANGED <<opts, count, pages, pageCounts, pageLogical, page>>

\* translatedDocument.Close after the dispatch; the request's span ends.
CloseDocument ==
  /\ pc = "staged"
  /\ pc' = "closed"
  /\ spans' = Finish(ReleaseTemp(spans, translation, outputBytes), request)
  /\ outputBytes' = 0 /\ dst' = [marker |-> FALSE, headers |-> <<>>]
  /\ UNCHANGED <<error, opts, count, pages, pageCounts, pageLogical, page, held>>

Next ==
  \/ Start \/ ZeroMarker \/ readFileHeader \/ SourceEnds \/ readHeader
  \/ emitPageHeader \/ CopyRepeat \/ CopyControl \/ CopyPayload
  \/ RowDone \/ PageDone \/ PatchCount \/ WriteMarker \/ Complete
  \/ CloseDocument

Spec == Init /\ [][Next]_vars
-----------------------------------------------------------------------------
PCs == {"idle", "marker", "file", "header", "emit", "row", "packet", "payload",
        "patch", "measure", "staged", "failed", "closed"}
Kinds == {"none", "options", "staging", "malformed", "unsupported", "settings",
          "resource", "canceled", "source", "destination"}

\* Every variable keeps its type (translator, translate.go:262).
TypeOK ==
  /\ pc \in PCs /\ error \in Kinds
  /\ count \in Nat /\ outputBytes \in Nat
  /\ dst.marker \in BOOLEAN
  /\ pages \in Nat /\ pageLogical \in Nat
  /\ \A i \in DOMAIN pageCounts : pageCounts[i] \in Nat
  /\ page.remaining \in Nat /\ page.payload \in Nat
  /\ page.rowsDone \in 0..page.raw.height
  /\ held.scratch \in Nat /\ held.offsets \in Nat

\* No stream makes the translator take, write or represent more than its
\* limits (write, sourceReader.read, checkedAddWithin), and in every page the
\* rows are cut at whole pixels, so that the branch for a packet of less than
\* a pixel is never taken (copyPageData).
WithinLimits ==
  /\ count <= limits.input /\ outputBytes <= limits.output
  /\ pageLogical <= limits.decoded /\ pages <= limits.pages
  /\ page.remaining % page.bpp = 0

\* A file that carries the PWG marker is complete: each header in it has been
\* patched with the number of headers, and only the back of a duplex sheet is
\* mirrored (finalize, setSheetBack).  Only such a file reaches the caller.
MarkerMeansComplete ==
  /\ pc = "staged" => dst.marker
  /\ dst.marker =>
       /\ pages > 0 /\ Len(dst.headers) = pages
       /\ \A i \in DOMAIN dst.headers :
            /\ dst.headers[i].total = pages
            /\ dst.headers[i].transform # {} => dst.headers[i].duplex /\ i % 2 = 0

\* Every span on the chain is charged for exactly what is held, whichever step
\* failed; afterwards nothing is (Resource.Release, releaseResources, Close).
LeasesMatchSpans ==
  \A s \in chain[translation] :
    /\ spans[s].bufferCurrent = held.scratch + held.offsets
    /\ spans[s].tempCurrent = outputBytes
    /\ spans[s].tempPeak >= outputBytes
    /\ pc \in {"failed", "closed"} => spans[translation].finished
=============================================================================
