------------------------- MODULE URFTranslateProofs -------------------------
(***************************************************************************)
(* Proofs about URFTranslate for any source, any request and any limits    *)
(* that the accounting has room for.                                       *)
(***************************************************************************)
EXTENDS URFTranslate, SequenceTheorems, TLAPS

\* One span's accounting.
Span == [bufferCurrent : Nat, bufferPeak : Nat,
         buffers : [Components -> Nat], bufferPeaks : [Components -> Nat],
         tempCurrent : Nat, tempPeak : Nat, tempWritten : Nat,
         finished : BOOLEAN, recorded : [buffer : Nat, temp : Nat, written : Nat]]

\* Every span of the chain is charged for b bytes of buffers and n of the file.
Charged(sp, b, n) ==
  /\ sp \in [Spans -> Span]
  /\ \A s \in chain[translation] :
       sp[s].bufferCurrent = b /\ sp[s].tempCurrent = n /\ sp[s].tempPeak >= n

Request == [texts : BOOLEAN, mediaWidth : Nat, mediaHeight : Nat, resX : Nat, resY : Nat,
            sides : Names, sheetBack : Names, quality : Nat, mapping : Names]

Header == [at : Nat, total : Nat, transform : SUBSET {"cross", "feed"},
           duplex : BOOLEAN, tumble : BOOLEAN, space : {18, 19, 1},
           width : Nat, height : Nat, rowBytes : Nat, landscape : BOOLEAN]

Page == [raw : [width : Nat, height : Nat], bpp : {1, 3}, rowBytes : Nat,
         landscape : BOOLEAN, rowsDone : Nat, repeat : Nat, remaining : Nat, payload : Nat]

\* Phases of the translation.
Before   == {"idle", "marker", "file"}
Copying  == {"row", "packet", "payload"}
Ending   == {"patch", "measure", "staged"}

\* The request is one the translator has accepted.
OptsOK ==
  /\ opts \in Request
  /\ pc \notin {"idle", "failed"} =>
       /\ opts.mapping \in DOMAIN sourceMapping
       /\ opts.sides \in Sides /\ opts.sheetBack \in SheetBacks

\* What was taken, written and represented, and the leases.
SizesOK ==
  /\ count \in 0..limits.input /\ outputBytes \in 0..limits.output
  /\ pageLogical \in 0..limits.decoded /\ pages \in 0..limits.pages
  /\ pc \in {"emit"} \cup Copying => pages < limits.pages
  /\ held \in [scratch : {0, ScratchSize}, offsets : Nat, cap : 0..(2 * limits.pages)]
  /\ held.offsets = held.cap * OffsetSize
  /\ pc \in {"failed", "closed"} => outputBytes = 0
  /\ pc = "idle" => outputBytes = 0 /\ held = NoLease

\* The page that is being copied: its rows are cut at whole pixels.
PageOK ==
  /\ page \in Page
  /\ page.rowsDone <= page.raw.height
  /\ page.rowBytes % page.bpp = 0 /\ page.remaining % page.bpp = 0

\* The page headers in the file and the offsets that are still to be patched.
HeadersOK ==
  /\ dst \in [marker : BOOLEAN, headers : Seq(Header)]
  /\ pageCounts \in Seq(Nat)
  /\ dst.marker <=> pc \in {"measure", "staged"}
  /\ pc \in Before => pages = 0 /\ pageCounts = <<>> /\ dst.headers = <<>>
  /\ pc \in {"header", "emit"} => Len(dst.headers) = pages /\ Len(pageCounts) = pages
  /\ pc \in Copying => Len(dst.headers) = pages + 1 /\ Len(pageCounts) = pages + 1
  /\ pc \in Ending => /\ pages > 0 /\ Len(dst.headers) = pages
                      /\ Len(pageCounts) <= pages
  /\ pc \in {"measure", "staged"} => pageCounts = <<>>
  /\ pc \notin {"failed", "closed"} =>
       \A i \in 1..Len(dst.headers) :
         LET j == i - (Len(dst.headers) - Len(pageCounts))
         IN  IF j <= 0 THEN dst.headers[i].total = pages
             ELSE pageCounts[j] = dst.headers[i].at + CountOffset
  /\ \A i \in 1..Len(dst.headers) :
       dst.headers[i].transform # {} => dst.headers[i].duplex /\ i % 2 = 0

\* The accounting of the spans.
SpansOK ==
  /\ Charged(spans, held.scratch + held.offsets, outputBytes)
  /\ pc \in {"staged", "failed", "closed"} => spans[translation].finished

IInv ==
  /\ pc \in PCs /\ error \in Kinds
  /\ OptsOK /\ SizesOK /\ PageOK /\ HeadersOK /\ SpansOK

-----------------------------------------------------------------------------
(* The limits and the span accounting.                                     *)

\* A configured limit replaces the default; neither is more than the accounting
\* has room for.
LEMMA Limits ==
  /\ limits.input \in Nat /\ limits.output \in Nat /\ limits.pages \in Nat \ {0}
  /\ limits.decoded \in Nat /\ limits.decoded > 0
  /\ limits.output <= MaxInt64
  /\ ScratchSize + PWGHeaderSize + 2 * OffsetSize * limits.pages <= MaxInt64
<1> DEFINE D == DefaultLimits
           asked == IF MaxBytes > 0 THEN [D EXCEPT !.input = MaxBytes, !.output = MaxBytes] ELSE D
<1>1. /\ D.input \in Nat \ {0} /\ D.output \in Nat \ {0} /\ D.pages \in Nat \ {0}
      /\ D.decoded \in Nat \ {0}
      /\ DOMAIN D = {"input", "output", "pages", "width", "height", "row", "decoded"}
  BY LimitsAssumption
<1>2. /\ asked.pages = D.pages /\ asked.decoded = D.decoded
      /\ asked.input = IF MaxBytes > 0 THEN MaxBytes ELSE D.input
      /\ asked.output = IF MaxBytes > 0 THEN MaxBytes ELSE D.output
  BY LimitsAssumption
<1>3. limits = [f \in DOMAIN D |-> IF asked[f] # 0 THEN asked[f] ELSE D[f]]
  BY DEF limits
<1>4. /\ limits.input = IF asked.input # 0 THEN asked.input ELSE D.input
      /\ limits.output = IF asked.output # 0 THEN asked.output ELSE D.output
      /\ limits.pages = IF asked.pages # 0 THEN asked.pages ELSE D.pages
      /\ limits.decoded = IF asked.decoded # 0 THEN asked.decoded ELSE D.decoded
  <2> HIDE DEF asked
  <2> QED BY <1>1, <1>3
<1>5. MaxBytes \in Nat /\ MaxInt64 \in Nat /\ MaxBytes <= MaxInt64 /\ D.output <= MaxInt64
  BY SizesAssumption, SpansAssumption, LimitsAssumption
<1>6. ScratchSize + PWGHeaderSize + 2 * OffsetSize * D.pages <= MaxInt64
  BY LimitsAssumption
<1> HIDE DEF asked, D
<1>7. limits.pages = D.pages /\ limits.decoded = D.decoded
  BY <1>1, <1>2, <1>4
<1> QED BY <1>1, <1>2, <1>4, <1>5, <1>6, <1>7

\* The chain of the translation is made of spans.
LEMMA Chains == translation \in Spans /\ request \in Spans /\ chain[translation] \subseteq Spans
<1>1. translation \in Spans /\ request \in Spans
  BY LimitsAssumption
<1> QED BY <1>1 DEF chain

\* A change of the spans of a chain.
LEMMA OnChains ==
  ASSUME NEW sp \in [Spans -> Span], NEW new \in [Spans -> Span]
  PROVE  /\ OnChain(sp, translation, new) \in [Spans -> Span]
         /\ \A s \in chain[translation] : OnChain(sp, translation, new)[s] = new[s]
         /\ \A s \in Spans : OnChain(sp, translation, new)[s] \in {sp[s], new[s]}
  BY Chains DEF OnChain

\* The lease of a buffer.
LEMMA Acquires ==
  ASSUME NEW sp, NEW b \in Nat, NEW n \in Nat, NEW k \in Nat, NEW c, Charged(sp, b, n),
         b + k <= MaxInt64
  PROVE  Charged(AcquireBuffer(sp, translation, c, k), b + k, n)
<1> DEFINE new == [t \in Spans |-> WithBuffer(sp[t], c, k)]
<1>1. sp \in [Spans -> Span]
  BY DEF Charged
<1>2. ASSUME NEW r \in Span
      PROVE  /\ WithBuffer(r, c, k) \in Span
             /\ WithBuffer(r, c, k).bufferCurrent = addSaturating(r.bufferCurrent, k)
             /\ WithBuffer(r, c, k).tempCurrent = r.tempCurrent
             /\ WithBuffer(r, c, k).tempPeak = r.tempPeak
  <2>1. r.bufferCurrent \in Nat /\ (c \in Components => r.buffers[c] \in Nat)
    BY DEF Span
  <2>2. addSaturating(r.bufferCurrent, k) \in Nat
    BY <2>1, SpansAssumption DEF addSaturating
  <2>3. c \in Components => addSaturating(r.buffers[c], k) \in Nat
    BY <2>1, SpansAssumption DEF addSaturating
  <2> QED BY <2>2, <2>3 DEF WithBuffer, Span, Larger
<1>3. new \in [Spans -> Span]
  BY <1>1, <1>2
<1>4. AcquireBuffer(sp, translation, c, k) = OnChain(sp, translation, new)
  BY DEF AcquireBuffer
<1>5. ASSUME NEW s \in chain[translation]
      PROVE  new[s].bufferCurrent = b + k /\ new[s].tempCurrent = n /\ new[s].tempPeak >= n
  <2>1. s \in Spans /\ sp[s] \in Span /\ new[s] = WithBuffer(sp[s], c, k)
    BY <1>1, Chains
  <2>2. sp[s].bufferCurrent = b /\ sp[s].tempCurrent = n /\ sp[s].tempPeak >= n
    BY DEF Charged
  <2>3. addSaturating(b, k) = b + k
    BY SpansAssumption DEF addSaturating
  <2> QED BY <1>2, <2>1, <2>2, <2>3
<1> HIDE DEF new
<1> QED BY <1>1, <1>3, <1>4, <1>5, OnChains DEF Charged

\* Its release.
LEMMA Releases ==
  ASSUME NEW sp, NEW b \in Nat, NEW n \in Nat, NEW k \in Nat, NEW c, Charged(sp, b, n), k <= b
  PROVE  Charged(ReleaseBuffer(sp, translation, c, k), b - k, n)
<1> DEFINE less(r) == [r EXCEPT !.bufferCurrent = Larger(0, @ - k), !.buffers[c] = Larger(0, @ - k)]
           new == [t \in Spans |-> less(sp[t])]
<1>1. sp \in [Spans -> Span]
  BY DEF Charged
<1>2. ASSUME NEW r \in Span
      PROVE  /\ less(r) \in Span
             /\ less(r).bufferCurrent = Larger(0, r.bufferCurrent - k)
             /\ less(r).tempCurrent = r.tempCurrent
             /\ less(r).tempPeak = r.tempPeak
  <2>1. r.bufferCurrent \in Nat /\ (c \in Components => r.buffers[c] \in Nat)
    BY DEF Span
  <2>2. Larger(0, r.bufferCurrent - k) \in Nat
    BY <2>1 DEF Larger
  <2>3. c \in Components => Larger(0, r.buffers[c] - k) \in Nat
    BY <2>1 DEF Larger
  <2> QED BY <2>2, <2>3 DEF Span
<1>3. new \in [Spans -> Span]
  BY <1>1, <1>2
<1>4. ReleaseBuffer(sp, translation, c, k) = OnChain(sp, translation, new)
  BY DEF ReleaseBuffer
<1>5. ASSUME NEW s \in chain[translation]
      PROVE  new[s].bufferCurrent = b - k /\ new[s].tempCurrent = n /\ new[s].tempPeak >= n
  <2>1. s \in Spans /\ sp[s] \in Span /\ new[s] = less(sp[s])
    BY <1>1, Chains
  <2>2. sp[s].bufferCurrent = b /\ sp[s].tempCurrent = n /\ sp[s].tempPeak >= n
    BY DEF Charged
  <2>3. Larger(0, b - k) = b - k
    BY DEF Larger
  <2> HIDE DEF less
  <2> QED BY <1>2, <2>1, <2>2, <2>3
<1> HIDE DEF new
<1> QED BY <1>1, <1>3, <1>4, <1>5, OnChains DEF Charged

\* Growth of the lease of a file.
LEMMA Grows ==
  ASSUME NEW r \in Span, NEW k \in Nat
  PROVE  /\ WithTemp(r, k) \in Span
         /\ WithTemp(r, k).bufferCurrent = r.bufferCurrent
         /\ r.tempCurrent + k <= MaxInt64 =>
              /\ WithTemp(r, k).tempCurrent = r.tempCurrent + k
              /\ WithTemp(r, k).tempPeak >= r.tempCurrent + k
         /\ WithTemp(r, k).finished = r.finished
<1>1. r.tempCurrent \in Nat /\ r.tempPeak \in Nat
  BY DEF Span
<1>2. PICK m \in Nat : m = addSaturating(r.tempCurrent, k)
  BY <1>1, SpansAssumption DEF addSaturating
<1>3. r.tempCurrent + k <= MaxInt64 => m = r.tempCurrent + k
  BY <1>1, <1>2, SpansAssumption DEF addSaturating
<1>4. WithTemp(r, k) = [r EXCEPT !.tempCurrent = m, !.tempPeak = Larger(r.tempPeak, m)]
  BY <1>2 DEF WithTemp, Span
<1>5. Larger(r.tempPeak, m) \in Nat /\ Larger(r.tempPeak, m) >= m
  BY <1>1 DEF Larger
<1> QED BY <1>1, <1>3, <1>4, <1>5 DEF Span

\* A lease of a file.
LEMMA AcquiresTemp ==
  ASSUME NEW sp, NEW b \in Nat, NEW n \in Nat, Charged(sp, b, n), n <= MaxInt64
  PROVE  Charged(AcquireTemp(sp, translation, 0), b, n)
<1> DEFINE new == [t \in Spans |-> WithTemp(sp[t], Larger(0, 0))]
<1>1. sp \in [Spans -> Span] /\ Larger(0, 0) = 0
  BY DEF Charged, Larger
<1>2. new \in [Spans -> Span]
  BY <1>1, Grows
<1>3. AcquireTemp(sp, translation, 0) = OnChain(sp, translation, new)
  BY DEF AcquireTemp
<1>4. ASSUME NEW s \in chain[translation]
      PROVE  new[s].bufferCurrent = b /\ new[s].tempCurrent = n /\ new[s].tempPeak >= n
  <2>1. s \in Spans /\ sp[s] \in Span /\ new[s] = WithTemp(sp[s], 0)
    BY <1>1, Chains
  <2>2. sp[s].bufferCurrent = b /\ sp[s].tempCurrent = n /\ n + 0 <= MaxInt64 /\ n + 0 = n
    BY DEF Charged
  <2>3. WithTemp(sp[s], 0).bufferCurrent = b
    BY <2>1, <2>2, Grows
  <2>4. WithTemp(sp[s], 0).tempCurrent = n /\ WithTemp(sp[s], 0).tempPeak >= n
    BY <2>1, <2>2, Grows
  <2> QED BY <2>1, <2>3, <2>4
<1> HIDE DEF new
<1> QED BY <1>1, <1>2, <1>3, <1>4, OnChains DEF Charged

\* The file has grown from n to m bytes.
LEMMA SetsSize ==
  ASSUME NEW sp, NEW b \in Nat, NEW n \in Nat, NEW m \in Nat, Charged(sp, b, n),
         n <= m, m <= MaxInt64
  PROVE  Charged(SetSize(sp, translation, n, m), b, m)
<1> DEFINE same(r) == [r EXCEPT !.tempCurrent = Larger(0, @ - (n - m))]
           new == [t \in Spans |-> IF m > n THEN WithTemp(sp[t], m - n) ELSE same(sp[t])]
<1>1. sp \in [Spans -> Span]
  BY DEF Charged
<1>2. SetSize(sp, translation, n, m) = OnChain(sp, translation, new)
  BY DEF SetSize
<1>3. CASE m > n
  <2>1. m - n \in Nat /\ n + (m - n) = m
    BY <1>3
  <2>2. new = [t \in Spans |-> WithTemp(sp[t], m - n)]
    BY <1>3
  <2> HIDE DEF new
  <2>3. new \in [Spans -> Span]
    BY <1>1, <2>1, <2>2, Grows
  <2>4. ASSUME NEW s \in chain[translation]
        PROVE  new[s].bufferCurrent = b /\ new[s].tempCurrent = m /\ new[s].tempPeak >= m
    <3>1. s \in Spans /\ sp[s] \in Span /\ new[s] = WithTemp(sp[s], m - n)
      BY <1>1, <2>2, Chains
    <3>2. sp[s].bufferCurrent = b /\ sp[s].tempCurrent = n
      BY DEF Charged
    <3>3. WithTemp(sp[s], m - n).bufferCurrent = b
      BY <2>1, <3>1, <3>2, Grows
    <3>4. WithTemp(sp[s], m - n).tempCurrent = m /\ WithTemp(sp[s], m - n).tempPeak >= m
      BY <2>1, <3>1, <3>2, Grows
    <3> QED BY <3>1, <3>3, <3>4
  <2> QED BY <1>1, <1>2, <2>3, <2>4, OnChains DEF Charged
<1>4. CASE m = n
  <2>1. new = [t \in Spans |-> same(sp[t])]
    BY <1>4
  <2>2. ASSUME NEW r \in Span PROVE same(r) = r
    <3>1. r.tempCurrent \in Nat
      BY DEF Span
    <3>2. Larger(0, r.tempCurrent - (n - m)) = r.tempCurrent
      BY <1>4, <3>1 DEF Larger
    <3> QED BY <3>2 DEF Span
  <2> HIDE DEF new, same
  <2>3. new \in [Spans -> Span] /\ \A t \in Spans : new[t] = sp[t]
    BY <1>1, <2>1, <2>2
  <2> QED BY <1>1, <1>2, <1>4, <2>3, OnChains, Chains DEF Charged
<1> QED BY <1>3, <1>4

\* Bytes written are counted beside the lease.
LEMMA Writing ==
  ASSUME NEW sp, NEW b \in Nat, NEW n \in Nat, NEW k \in Nat, Charged(sp, b, n)
  PROVE  Charged(Written(sp, translation, k), b, n)
<1> DEFINE more(r) == [r EXCEPT !.tempWritten = addSaturating(@, k)]
           new == [t \in Spans |-> more(sp[t])]
<1>1. sp \in [Spans -> Span]
  BY DEF Charged
<1>2. ASSUME NEW r \in Span
      PROVE  /\ more(r) \in Span /\ more(r).bufferCurrent = r.bufferCurrent
             /\ more(r).tempCurrent = r.tempCurrent /\ more(r).tempPeak = r.tempPeak
  <2>1. r.tempWritten \in Nat
    BY DEF Span
  <2>2. addSaturating(r.tempWritten, k) \in Nat
    BY <2>1, SpansAssumption DEF addSaturating
  <2> QED BY <2>2 DEF Span
<1>3. Written(sp, translation, k) = OnChain(sp, translation, new)
  BY DEF Written
<1> HIDE DEF more
<1>4. new \in [Spans -> Span] /\ \A t \in Spans : new[t] = more(sp[t])
  BY <1>1, <1>2
<1> HIDE DEF new
<1> QED BY <1>1, <1>2, <1>3, <1>4, OnChains, Chains DEF Charged

\* The release of the lease of the file.
LEMMA ReleasesTemp ==
  ASSUME NEW sp, NEW b \in Nat, NEW n \in Nat, Charged(sp, b, n)
  PROVE  /\ Charged(ReleaseTemp(sp, translation, n), b, 0)
         /\ \A s \in Spans : ReleaseTemp(sp, translation, n)[s].finished = sp[s].finished
<1> DEFINE less(r) == [r EXCEPT !.tempCurrent = Larger(0, @ - n)]
           new == [t \in Spans |-> less(sp[t])]
<1>1. sp \in [Spans -> Span]
  BY DEF Charged
<1>2. ASSUME NEW r \in Span
      PROVE  /\ less(r) \in Span /\ less(r).bufferCurrent = r.bufferCurrent
             /\ r.tempCurrent = n => less(r).tempCurrent = 0
             /\ less(r).tempPeak = r.tempPeak /\ less(r).tempPeak >= 0 /\ less(r).finished = r.finished
  <2>1. r.tempCurrent \in Nat /\ r.tempPeak \in Nat
    BY DEF Span
  <2>2. Larger(0, r.tempCurrent - n) \in Nat /\ (r.tempCurrent = n => Larger(0, r.tempCurrent - n) = 0)
    BY <2>1 DEF Larger
  <2> QED BY <2>1, <2>2 DEF Span
<1>3. ReleaseTemp(sp, translation, n) = OnChain(sp, translation, new)
  BY DEF ReleaseTemp
<1> HIDE DEF less
<1>4. new \in [Spans -> Span] /\ \A t \in Spans : new[t] = less(sp[t])
  BY <1>1, <1>2
<1> HIDE DEF new
<1>5. Charged(OnChain(sp, translation, new), b, 0)
  BY <1>1, <1>2, <1>4, OnChains, Chains DEF Charged
<1>6. \A s \in Spans : OnChain(sp, translation, new)[s].finished = sp[s].finished
  <2> TAKE s \in Spans
  <2>1. sp[s] \in Span /\ new[s].finished = sp[s].finished
    BY <1>1, <1>2, <1>4
  <2> QED BY <1>1, <1>4, <2>1, OnChains
<1> QED BY <1>3, <1>5, <1>6

\* The end of a span changes nothing of what is charged.
LEMMA Finishes ==
  ASSUME NEW sp, NEW b \in Nat, NEW n \in Nat, NEW s \in Spans, Charged(sp, b, n)
  PROVE  /\ Charged(Finish(sp, s), b, n)
         /\ Finish(sp, s)[s].finished
         /\ \A t \in Spans : sp[t].finished => Finish(sp, s)[t].finished
<1>1. sp \in [Spans -> Span] /\ sp[s] \in Span
  BY DEF Charged
<1>2. CASE sp[s].finished
  BY <1>2 DEF Finish
<1>3. CASE ~sp[s].finished
  <2> DEFINE r == [sp[s] EXCEPT !.finished = TRUE,
                     !.recorded = [buffer |-> sp[s].bufferPeak, temp |-> sp[s].tempPeak,
                                   written |-> sp[s].tempWritten]]
  <2>1. /\ r \in Span /\ r.finished /\ r.bufferCurrent = sp[s].bufferCurrent
        /\ r.tempCurrent = sp[s].tempCurrent /\ r.tempPeak = sp[s].tempPeak
    BY <1>1 DEF Span
  <2>2. Finish(sp, s) = [sp EXCEPT ![s] = r]
    BY <1>1, <1>3 DEF Finish
  <2> HIDE DEF r
  <2>3. /\ Finish(sp, s) \in [Spans -> Span] /\ Finish(sp, s)[s] = r
        /\ \A t \in Spans \ {s} : Finish(sp, s)[t] = sp[t]
    BY <1>1, <2>1, <2>2
  <2> QED BY <2>1, <2>3, Chains DEF Charged
<1> QED BY <1>2, <1>3

-----------------------------------------------------------------------------
(* Reading, writing and failing.                                           *)

\* The numbers that the steps calculate with.
LEMMA Numbers ==
  ASSUME IInv
  PROVE  /\ count \in Nat /\ count <= limits.input
         /\ outputBytes \in Nat /\ outputBytes <= limits.output
         /\ pages \in Nat /\ pages <= limits.pages
         /\ held.scratch \in Nat /\ held.offsets \in Nat /\ held.scratch + held.offsets \in Nat
         /\ Charged(spans, held.scratch + held.offsets, outputBytes)
<1>1. ScratchSize \in Nat
  BY SizesAssumption
<1>2. held.scratch \in Nat /\ held.offsets \in Nat
  BY <1>1 DEF IInv, SizesOK
<1> QED BY <1>2, Limits DEF IInv, SizesOK, SpansOK

\* No read takes more than the limit.
LEMMA ReadsWithin ==
  ASSUME IInv, NEW n \in Nat, NEW r \in Reads(n)
  PROVE  /\ r.got \in Nat /\ count + r.got \in 0..limits.input
         /\ r.err \in Kinds
         /\ r.err = "none" => r.got = n
<1>1. count \in Nat /\ count <= limits.input /\ limits.input \in Nat
  BY Numbers, Limits
<1>2. PICK m : m = limits.input - count
  OBVIOUS
<1>3. m \in Nat
  BY <1>1, <1>2
<1>4. PICK within \in Nat : within = Lesser(n, m) /\ within <= m
  BY <1>3 DEF Lesser
<1>5. \/ r = [got |-> n, err |-> "none"] /\ within = n
      \/ r = [got |-> within, err |-> "resource"]
      \/ r \in [got : {k \in {0, within} : k < n}, err : {"malformed", "canceled"}]
      \/ r \in [got : {0, within}, err : {"source"}]
  BY <1>2, <1>4 DEF Reads
<1>6. r.got \in {0, within} /\ r.err \in Kinds /\ (r.err = "none" => r.got = n)
  BY <1>5 DEF Kinds
<1>7. r.got \in Nat /\ r.got <= m
  BY <1>3, <1>4, <1>6
<1> QED BY <1>1, <1>2, <1>6, <1>7

\* No write puts more than the limit into the file.
LEMMA WritesWithin ==
  ASSUME IInv, NEW n \in Nat, NEW w \in Writes(n)
  PROVE  /\ w.put \in Nat /\ outputBytes + w.put \in 0..limits.output
         /\ w.err \in Kinds
         /\ w.err = "none" => w.put = n
<1>1. outputBytes \in Nat /\ outputBytes <= limits.output /\ limits.output \in Nat
  BY Numbers, Limits
<1>2. \/ w = [put |-> 0, err |-> "resource"]
      \/ w = [put |-> n, err |-> "none"] /\ outputBytes + n <= limits.output
      \/ w \in [put : {0, n}, err : {"destination"}] /\ outputBytes + n <= limits.output
      \/ w = [put |-> 0, err |-> "canceled"]
  BY <1>1 DEF Writes
<1>3. w.put \in {0, n} /\ w.err \in Kinds /\ (w.err = "none" => w.put = n)
  BY <1>2 DEF Kinds
<1>4. w.put = 0 \/ (w.put = n /\ outputBytes + n <= limits.output)
  BY <1>2
<1> QED BY <1>1, <1>3, <1>4

\* Nor does a copy.
LEMMA CopiesWithin ==
  ASSUME IInv, NEW n \in Nat, NEW c \in Copies(n)
  PROVE  /\ c.got \in Nat /\ count + c.got \in 0..limits.input
         /\ c.put \in Nat /\ outputBytes + c.put \in 0..limits.output
         /\ c.err \in Kinds
<1>1. /\ count \in Nat /\ count <= limits.input /\ limits.input \in Nat
      /\ outputBytes \in Nat /\ outputBytes <= limits.output /\ limits.output \in Nat
  BY Numbers, Limits
<1>2. CASE \E r \in Reads(n) : c = [got |-> r.got, put |-> 0, err |-> r.err]
  <2>1. PICK r \in Reads(n) : c = [got |-> r.got, put |-> 0, err |-> r.err]
    BY <1>2
  <2>2. c.got = r.got /\ c.put = 0 /\ c.err = r.err
    BY <2>1
  <2>3. r.got \in Nat /\ count + r.got \in 0..limits.input /\ r.err \in Kinds
    BY ReadsWithin
  <2> QED BY <1>1, <2>2, <2>3
<1>3. CASE limits.input - count >= n /\ \E w \in Writes(n) : c = [got |-> n, put |-> w.put, err |-> w.err]
  <2>1. PICK w \in Writes(n) : c = [got |-> n, put |-> w.put, err |-> w.err]
    BY <1>3
  <2>2. c.got = n /\ c.put = w.put /\ c.err = w.err
    BY <2>1
  <2>3. w.put \in Nat /\ outputBytes + w.put \in 0..limits.output /\ w.err \in Kinds
    BY WritesWithin
  <2>4. count + n \in 0..limits.input
    BY <1>1, <1>3
  <2> QED BY <2>2, <2>3, <2>4
<1> QED BY <1>2, <1>3 DEF Copies

\* A copy that succeeds stays within both limits.
LEMMA CopiesAll ==
  ASSUME IInv, NEW n \in Nat, Copyable(n)
  PROVE  count + n \in 0..limits.input /\ outputBytes + n \in 0..limits.output
<1> DEFINE c == [got |-> n, put |-> n, err |-> "none"]
<1>1. c \in Copies(n) /\ c.got = n /\ c.put = n
  BY DEF Copyable
<1> HIDE DEF c
<1> QED BY <1>1, CopiesWithin

\* The lease of the file follows a write.
LEMMA Extends ==
  ASSUME IInv, NEW n \in Nat, outputBytes + n \in 0..limits.output
  PROVE  Charged(Extended(n), held.scratch + held.offsets, outputBytes + n)
<1>1. PICK b \in Nat : b = held.scratch + held.offsets
  BY Numbers
<1>2. PICK m \in Nat : m = outputBytes + n
  BY Numbers
<1>3. outputBytes \in Nat /\ outputBytes <= m /\ m <= MaxInt64 /\ Charged(spans, b, outputBytes)
  BY <1>1, <1>2, Numbers, Limits, SpansAssumption
<1>4. PICK sp : sp = Written(spans, translation, n)
  OBVIOUS
<1>5. Charged(sp, b, outputBytes)
  BY <1>3, <1>4, Writing
<1>6. Charged(SetSize(sp, translation, outputBytes, m), b, m)
  BY <1>3, <1>5, SetsSize
<1> QED BY <1>1, <1>2, <1>4, <1>6 DEF Extended

\* Nothing is charged for the buffers once they are released.
LEMMA Releasing ==
  ASSUME IInv, NEW sp, NEW n \in Nat, Charged(sp, held.scratch + held.offsets, n)
  PROVE  Charged(Released(sp), 0, n)
<1>1. PICK s \in Nat, o \in Nat : s = held.scratch /\ o = held.offsets
  BY Numbers
<1>2. PICK b \in Nat : b = s + o
  OBVIOUS
<1>3. Charged(sp, b, n) /\ o <= b /\ b - o = s /\ s <= s /\ s - s = 0
  BY <1>1, <1>2
<1>4. PICK sp1 : sp1 = ReleaseBuffer(sp, translation, "offsets", o)
  OBVIOUS
<1>5. Charged(sp1, s, n)
  BY <1>3, <1>4, Releases
<1>6. Charged(ReleaseBuffer(sp1, translation, "scratch", s), 0, n)
  BY <1>3, <1>5, Releases
<1> QED BY <1>1, <1>4, <1>6 DEF Released

\* An error ends the translation with nothing charged and no file.
LEMMA FailStep ==
  ASSUME IInv, NEW kind \in Kinds, NEW sp, NEW size \in Nat,
         Charged(sp, held.scratch + held.offsets, size),
         Fails(kind, sp, size), count' \in 0..limits.input,
         UNCHANGED <<opts, pages, pageCounts, pageLogical, page>>
  PROVE  IInv'
<1>1. PICK sp1 : sp1 = ReleaseTemp(Released(sp), translation, size)
  OBVIOUS
<1>2. Charged(sp1, 0, 0)
  BY <1>1, Releasing, ReleasesTemp
<1>3. translation \in Spans
  BY Chains
<1>4. Charged(Finish(sp1, translation), 0, 0) /\ Finish(sp1, translation)[translation].finished
  BY <1>2, <1>3, Finishes
<1>5. /\ pc' = "failed" /\ error' = kind /\ outputBytes' = 0
      /\ dst' = [marker |-> FALSE, headers |-> <<>>]
      /\ held' = NoLease /\ spans' = Finish(sp1, translation)
  BY <1>1 DEF Fails
<1>6. OptsOK'
  BY <1>5 DEF IInv, OptsOK
<1>7. limits' = limits
  BY DEF limits
<1>8. SizesOK'
  <2>1. /\ NoLease \in [scratch : {0, ScratchSize}, offsets : Nat, cap : 0..(2 * limits.pages)]
        /\ NoLease.offsets = NoLease.cap * OffsetSize
    BY Limits DEF NoLease, OffsetSize
  <2>2. 0 \in 0..limits.output
    BY Limits
  <2>3. pc' \notin {"emit"} \cup Copying /\ pc' # "idle"
    BY <1>5 DEF Copying
  <2> QED BY <1>5, <1>7, <2>1, <2>2, <2>3 DEF IInv, SizesOK
<1>9. PageOK'
  BY DEF IInv, PageOK
<1>10. HeadersOK'
  <2>1. dst' \in [marker : BOOLEAN, headers : Seq(Header)] /\ ~dst'.marker /\ Len(dst'.headers) = 0
    BY <1>5
  <2>2. pc' = "failed" /\ pageCounts' = pageCounts
    BY <1>5
  <2> QED BY <2>1, <2>2 DEF IInv, HeadersOK, Before, Copying, Ending
<1>11. SpansOK'
  <2>1. held'.scratch + held'.offsets = 0
    BY <1>5 DEF NoLease
  <2> QED BY <1>4, <1>5, <2>1 DEF SpansOK, Charged
<1> QED BY <1>5, <1>6, <1>8, <1>9, <1>10, <1>11 DEF IInv, PCs

\* A failing copy is an error like any other.
LEMMA CopyFailStep ==
  ASSUME IInv, NEW n \in Nat, CopyFails(n)
  PROVE  IInv'
<1>1. PICK c \in Copies(n) : /\ Fails(c.err, Extended(c.put), outputBytes + c.put)
                             /\ count' = count + c.got
                             /\ UNCHANGED <<opts, pages, pageCounts, pageLogical, page>>
  BY DEF CopyFails
<1>2. /\ c.got \in Nat /\ count + c.got \in 0..limits.input
      /\ c.put \in Nat /\ outputBytes + c.put \in 0..limits.output
      /\ c.err \in Kinds
  BY CopiesWithin
<1>3. PICK size \in Nat : size = outputBytes + c.put
  BY <1>2, Numbers
<1>4. Charged(Extended(c.put), held.scratch + held.offsets, size)
  BY <1>2, <1>3, Extends
<1> QED BY <1>1, <1>2, <1>3, <1>4, FailStep

\* Bytes are taken and put while the headers stay as they are.
LEMMA AdvanceStep ==
  ASSUME IInv, NEW next, NEW g \in Nat, NEW n \in Nat, Continues(next, g, n),
         count + g \in 0..limits.input, outputBytes + n \in 0..limits.output,
         UNCHANGED <<opts, dst, pages, pageCounts, pageLogical>>, PageOK',
         \/ pc \in Copying /\ next \in Copying
         \/ pc = "marker" /\ next = "file"
         \/ pc = "file" /\ next = "header"
  PROVE  IInv'
<1>1. /\ pc' = next /\ count' = count + g /\ outputBytes' = outputBytes + n
      /\ spans' = Extended(n) /\ error' = error /\ held' = held /\ limits' = limits
  BY DEF Continues, limits
<1>2. OptsOK'
  BY <1>1 DEF IInv, OptsOK, Copying
<1>3. SizesOK'
  BY <1>1 DEF IInv, SizesOK, Copying
<1>4. HeadersOK'
  <2>1. CASE pc \in Copying /\ next \in Copying
    BY <1>1, <2>1 DEF IInv, HeadersOK, Before, Copying, Ending
  <2>2. CASE pc = "marker" /\ next = "file"
    BY <1>1, <2>2 DEF IInv, HeadersOK, Before, Copying, Ending
  <2>3. CASE pc = "file" /\ next = "header"
    <3>1. Len(dst.headers) = 0 /\ Len(pageCounts) = 0 /\ pages = 0
      BY <2>3 DEF IInv, HeadersOK, Before
    <3> QED BY <1>1, <2>3, <3>1 DEF IInv, HeadersOK, Before, Copying, Ending
  <2> QED BY <2>1, <2>2, <2>3
<1>5. SpansOK'
  BY <1>1, Extends DEF SpansOK, Copying, Charged
<1>6. pc' \in PCs /\ error' \in Kinds
  BY <1>1 DEF IInv, PCs, Copying
<1> QED BY <1>2, <1>3, <1>4, <1>5, <1>6 DEF IInv

-----------------------------------------------------------------------------
(* One lemma for each step.                                                *)

\* The options are checked, the file and the scratch buffer leased.
LEMMA StartStep ==
  ASSUME IInv, Start
  PROVE  IInv'
<1>1. /\ pc = "idle" /\ outputBytes = 0 /\ held = NoLease
      /\ UNCHANGED <<count, pages, pageCounts, pageLogical, page>>
  BY DEF Start, IInv, SizesOK
<1>2. NoLease.scratch + NoLease.offsets = 0 /\ Charged(spans, 0, 0)
  BY <1>1, Numbers DEF NoLease
<1>3. PICK sp : sp = AcquireTemp(spans, translation, 0)
  OBVIOUS
<1>4. Charged(sp, 0, 0)
  BY <1>2, <1>3, AcquiresTemp, SpansAssumption
<1>5. count' \in 0..limits.input
  BY <1>1 DEF IInv, SizesOK
<1>6. CASE Fails("options", AcquireTemp(spans, translation, 0), 0) /\ UNCHANGED opts
  BY <1>1, <1>2, <1>3, <1>4, <1>5, <1>6, FailStep DEF Kinds
<1>7. CASE /\ UNCHANGED opts
           /\ \E kind \in {"staging", "canceled"} :
                Fails(kind, IF kind = "staging" THEN spans
                            ELSE AcquireTemp(spans, translation, 0), 0)
  <2>1. PICK kind \in {"staging", "canceled"} : Fails(kind, IF kind = "staging" THEN spans ELSE sp, 0)
    BY <1>3, <1>7
  <2>2. PICK sp1 : sp1 = IF kind = "staging" THEN spans ELSE sp
    OBVIOUS
  <2>3. Charged(sp1, 0, 0) /\ kind \in Kinds
    BY <1>2, <1>4, <2>2 DEF Kinds
  <2> QED BY <1>1, <1>2, <1>5, <1>7, <2>1, <2>2, <2>3, FailStep
<1>8. CASE /\ validRequest(opts)
           /\ pc' = "marker" /\ opts' = defaulted(opts)
           /\ spans' = AcquireBuffer(AcquireTemp(spans, translation, 0),
                                     translation, "scratch", ScratchSize)
           /\ held' = [NoLease EXCEPT !.scratch = ScratchSize]
           /\ UNCHANGED <<error, outputBytes, dst>>
  <2>1. OptsOK'
    <3>1. opts \in Request
      BY DEF IInv, OptsOK
    <3>2. defaulted(opts) \in Request /\ defaulted(opts).mapping = opts.mapping
      <4> DEFINE sides == IF opts.sides = "" THEN "one-sided" ELSE opts.sides
                 back == IF opts.sheetBack = "" THEN "normal" ELSE opts.sheetBack
      <4>1. sides \in Names /\ back \in Names
        <5>1. opts.sides \in Names /\ opts.sheetBack \in Names
          BY <3>1 DEF Request
        <5>2. "one-sided" \in Names /\ "normal" \in Names
          BY DEF Names, Sides, SheetBacks
        <5> QED BY <5>1, <5>2
      <4>2. defaulted(opts) = [opts EXCEPT !.sides = sides, !.sheetBack = back]
        BY <3>1 DEF defaulted, Request
      <4> HIDE DEF sides, back
      <4> QED BY <3>1, <4>1, <4>2 DEF Request
    <3> QED BY <1>8, <3>2 DEF OptsOK, validRequest
  <2>2. ScratchSize \in Nat /\ 0 + ScratchSize = ScratchSize /\ ScratchSize <= MaxInt64
    <3>1. /\ ScratchSize \in Nat /\ PWGHeaderSize \in Nat /\ MaxInt64 \in Nat
          /\ DefaultLimits.pages \in Nat
      BY SizesAssumption, LimitsAssumption, SpansAssumption
    <3>2. ScratchSize + PWGHeaderSize + 2 * OffsetSize * DefaultLimits.pages <= MaxInt64
      BY LimitsAssumption
    <3> QED BY <3>1, <3>2 DEF OffsetSize
  <2>3. /\ held' \in [scratch : {0, ScratchSize}, offsets : Nat, cap : 0..(2 * limits.pages)]
        /\ held'.offsets = held'.cap * OffsetSize /\ held'.scratch = ScratchSize
        /\ held'.scratch + held'.offsets = ScratchSize
    BY <1>8, <2>2, Limits DEF NoLease, OffsetSize
  <2>4. SizesOK'
    <3>1. limits' = limits /\ pc' = "marker"
      BY <1>8 DEF limits
    <3> QED BY <1>1, <1>8, <2>3, <3>1 DEF IInv, SizesOK, Copying
  <2>5. PageOK'
    BY <1>1 DEF IInv, PageOK
  <2>6. HeadersOK'
    <3>1. pages = 0 /\ pageCounts = <<>> /\ dst.headers = <<>> /\ dst' = dst /\ pc' = "marker" /\ ~dst.marker
      BY <1>1, <1>8 DEF IInv, HeadersOK, Before
    <3>2. Len(dst.headers) = 0
      BY <3>1
    <3> QED BY <1>1, <3>1, <3>2 DEF IInv, HeadersOK, Before, Copying, Ending
  <2>7. Charged(AcquireBuffer(sp, translation, "scratch", ScratchSize), ScratchSize, 0)
    BY <1>4, <2>2, Acquires
  <2>8. SpansOK'
    BY <1>1, <1>3, <1>8, <2>3, <2>7 DEF SpansOK, Charged
  <2> QED BY <1>8, <2>1, <2>4, <2>5, <2>6, <2>8 DEF IInv, PCs
<1> QED BY <1>6, <1>7, <1>8 DEF Start

\* The zero marker.
LEMMA ZeroStep ==
  ASSUME IInv, ZeroMarker
  PROVE  IInv'
<1>1. pc = "marker" /\ UNCHANGED <<opts, pages, pageCounts, pageLogical, page>>
  BY DEF ZeroMarker
<1>2. MarkerSize \in Nat
  BY DEF MarkerSize
<1>3. PICK w \in Writes(MarkerSize) :
        \/ w.err = "none" /\ Continues("file", 0, MarkerSize) /\ UNCHANGED dst
        \/ /\ w.err # "none"
           /\ Fails(w.err, Extended(w.put), outputBytes + w.put) /\ UNCHANGED count
  BY DEF ZeroMarker
<1>4. /\ w.put \in Nat /\ outputBytes + w.put \in 0..limits.output /\ w.err \in Kinds
      /\ w.err = "none" => w.put = MarkerSize
  BY <1>2, WritesWithin
<1>5. count \in 0..limits.input /\ count + 0 = count
  BY DEF IInv, SizesOK
<1>6. CASE w.err = "none" /\ Continues("file", 0, MarkerSize) /\ UNCHANGED dst
  <2>1. PageOK'
    BY <1>1 DEF IInv, PageOK
  <2> QED BY <1>1, <1>2, <1>4, <1>5, <1>6, <2>1, AdvanceStep
<1>7. CASE Fails(w.err, Extended(w.put), outputBytes + w.put) /\ UNCHANGED count
  <2>1. PICK size \in Nat : size = outputBytes + w.put
    BY <1>4, Numbers
  <2>2. Charged(Extended(w.put), held.scratch + held.offsets, size)
    BY <1>4, <2>1, Extends
  <2> QED BY <1>1, <1>4, <1>5, <1>7, <2>1, <2>2, FailStep
<1> QED BY <1>3, <1>6, <1>7

\* The file header of the source.
LEMMA FileHeaderStep ==
  ASSUME IInv, readFileHeader
  PROVE  IInv'
<1>1. pc = "file" /\ UNCHANGED <<opts, pages, pageCounts, pageLogical, page>>
  BY DEF readFileHeader
<1>2. FileHeaderSize \in Nat
  BY SizesAssumption
<1>3. PICK r \in Reads(FileHeaderSize), signed \in BOOLEAN :
        \/ r.err = "none" /\ signed /\ Continues("header", r.got, 0) /\ UNCHANGED dst
        \/ /\ Fails(IF r.err # "none" THEN r.err ELSE "malformed", spans, outputBytes)
           /\ count' = count + r.got
  BY DEF readFileHeader
<1>4. r.got \in Nat /\ count + r.got \in 0..limits.input /\ r.err \in Kinds
  BY <1>2, ReadsWithin
<1>5. outputBytes \in Nat /\ outputBytes + 0 \in 0..limits.output
  BY Numbers, Limits
<1>6. CASE r.err = "none" /\ signed /\ Continues("header", r.got, 0) /\ UNCHANGED dst
  <2>1. PageOK'
    BY <1>1 DEF IInv, PageOK
  <2> QED BY <1>1, <1>4, <1>5, <1>6, <2>1, AdvanceStep
<1>7. CASE /\ Fails(IF r.err # "none" THEN r.err ELSE "malformed", spans, outputBytes)
           /\ count' = count + r.got
  <2>1. PICK kind \in Kinds : kind = IF r.err # "none" THEN r.err ELSE "malformed"
    BY <1>4 DEF Kinds
  <2> QED BY <1>1, <1>4, <1>5, <1>7, <2>1, FailStep, Numbers
<1> QED BY <1>3, <1>6, <1>7

\* The source ends: without a page that is an error, otherwise the counts follow.
LEMMA EndStep ==
  ASSUME IInv, SourceEnds
  PROVE  IInv'
<1>1. pc = "header" /\ UNCHANGED <<opts, pages, pageCounts, pageLogical, page>>
  BY DEF SourceEnds
<1>2. PICK r \in Reads(PageHeaderSize) :
        /\ IF pages = 0 THEN Fails("malformed", spans, outputBytes)
           ELSE pc' = "patch" /\ UNCHANGED <<error, spans, held, outputBytes, dst>>
        /\ count' = count + r.got
  BY DEF SourceEnds
<1>3. count' \in 0..limits.input
  BY <1>2, ReadsWithin, SizesAssumption
<1>4. CASE pages = 0
  BY <1>1, <1>2, <1>3, <1>4, FailStep, Numbers DEF Kinds
<1>5. CASE pages # 0
  <2>1. pc' = "patch" /\ UNCHANGED <<error, spans, held, outputBytes, dst>> /\ limits' = limits
    BY <1>2, <1>5 DEF limits
  <2>2. OptsOK'
    BY <1>1, <2>1 DEF IInv, OptsOK
  <2>3. SizesOK'
    BY <1>1, <1>3, <2>1 DEF IInv, SizesOK, Copying
  <2>4. PageOK'
    BY <1>1 DEF IInv, PageOK
  <2>5. HeadersOK'
    <3>1. pages \in Nat /\ pages > 0 /\ Len(dst.headers) = pages /\ Len(pageCounts) = pages
      BY <1>1, <1>5, Numbers DEF IInv, HeadersOK
    <3>2. /\ dst' = dst /\ pageCounts' = pageCounts /\ pages' = pages /\ ~dst.marker
          /\ pc' \notin Before /\ pc' \notin Copying /\ pc' \notin {"header", "emit", "measure", "staged"}
      BY <1>1, <2>1 DEF IInv, HeadersOK, Before, Copying
    <3> QED BY <1>1, <3>1, <3>2 DEF IInv, HeadersOK
  <2>6. SpansOK'
    BY <2>1 DEF IInv, SpansOK, Charged
  <2> QED BY <2>1, <2>2, <2>3, <2>4, <2>5, <2>6 DEF IInv, PCs
<1> QED BY <1>4, <1>5

\* Bytes of a pixel of an accepted mapping.
LEMMA Pixels ==
  ASSUME opts.mapping \in DOMAIN sourceMapping
  PROVE  bytesPerPixel \in {1, 3} /\ sourceMapping[opts.mapping].out \in {18, 19, 1}
<1>1. DOMAIN sourceMapping = {"W8", "SRGB24", "DEVRGB"}
  BY DEF sourceMapping
<1>2. 8 \div 8 = 1 /\ 24 \div 8 = 3
  OBVIOUS
<1>3. /\ sourceMapping["W8"].bits = 8 /\ sourceMapping["SRGB24"].bits = 24
      /\ sourceMapping["DEVRGB"].bits = 24
      /\ sourceMapping["W8"].out = 18 /\ sourceMapping["SRGB24"].out = 19
      /\ sourceMapping["DEVRGB"].out = 1
  BY DEF sourceMapping
<1>4. PICK m \in DOMAIN sourceMapping : m = opts.mapping
  OBVIOUS
<1>5. (sourceMapping[m].bits = 8 \/ sourceMapping[m].bits = 24) /\ sourceMapping[m].out \in {18, 19, 1}
  BY <1>1, <1>3
<1> QED BY <1>2, <1>4, <1>5 DEF bytesPerPixel

\* A page that passes the checks fits the limit of decoded bytes, and none of the
\* errors they report is unknown.
LEMMA Parsed ==
  ASSUME NEW raw
  PROVE  /\ parseError(raw) \in Kinds
         /\ parseError(raw) = "none" =>
              AddsWithin(pageLogical, rowBytes(raw) * raw.height, limits.decoded)
<1> DEFINE checks == pageChecks(raw)
           failing == {i \in DOMAIN checks : checks[i].bad}
           first == CHOOSE i \in failing : \A j \in failing : i <= j
           Errors == {"unsupported", "malformed", "settings", "resource"}
<1>1. /\ DOMAIN checks = 1..8
      /\ \A i \in 1..8 : checks[i].kind \in Errors
  BY DEF pageChecks
<1>2. checks[5].bad =
        (\/ ~MulFits(raw.width, bytesPerPixel)
         \/ rowBytes(raw) = 0
         \/ rowBytes(raw) > limits.row
         \/ rowBytes(raw) > MaxUint32
         \/ ~MulFits(rowBytes(raw), raw.height)
         \/ ~AddsWithin(pageLogical, rowBytes(raw) * raw.height, limits.decoded))
  BY DEF pageChecks
<1>3. parseError(raw) = IF failing = {} THEN "none" ELSE checks[first].kind
  BY DEF parseError
<1>4. failing \subseteq 1..8
  BY <1>1
<1>5. failing # {} => first \in failing
  <2> HIDE DEF failing
  <2>1. ASSUME NEW S \in SUBSET (1..8), S # {}
        PROVE  \E i \in S : \A j \in S : i <= j
    <3>1. \A j \in S : j \in Nat /\ (j = 1 \/ j = 2 \/ j = 3 \/ j = 4 \/ j = 5 \/ j = 6 \/ j = 7 \/ j = 8)
      BY <2>1
    <3>2. CASE 1 \in S
      <4>1. \A j \in S : 1 <= j
        BY <3>1, <3>2
      <4> QED BY <3>2, <4>1
    <3>3. CASE S \cap {1} = {} /\ 2 \in S
      <4>1. \A j \in S : 2 <= j
        BY <3>1, <3>3
      <4> QED BY <3>3, <4>1
    <3>4. CASE S \cap {1, 2} = {} /\ 3 \in S
      <4>1. \A j \in S : 3 <= j
        BY <3>1, <3>4
      <4> QED BY <3>4, <4>1
    <3>5. CASE S \cap {1, 2, 3} = {} /\ 4 \in S
      <4>1. \A j \in S : 4 <= j
        BY <3>1, <3>5
      <4> QED BY <3>5, <4>1
    <3>6. CASE S \cap {1, 2, 3, 4} = {} /\ 5 \in S
      <4>1. \A j \in S : 5 <= j
        BY <3>1, <3>6
      <4> QED BY <3>6, <4>1
    <3>7. CASE S \cap {1, 2, 3, 4, 5} = {} /\ 6 \in S
      <4>1. \A j \in S : 6 <= j
        BY <3>1, <3>7
      <4> QED BY <3>7, <4>1
    <3>8. CASE S \cap {1, 2, 3, 4, 5, 6} = {} /\ 7 \in S
      <4>1. \A j \in S : 7 <= j
        BY <3>1, <3>8
      <4> QED BY <3>8, <4>1
    <3>9. CASE S \cap {1, 2, 3, 4, 5, 6, 7} = {} /\ 8 \in S
      <4>1. \A j \in S : 8 <= j
        BY <3>1, <3>9
      <4> QED BY <3>9, <4>1
    <3> QED BY <2>1, <3>1, <3>2, <3>3, <3>4, <3>5, <3>6, <3>7, <3>8, <3>9
  <2>2. failing # {} => \E i \in failing : \A j \in failing : i <= j
    BY <1>4, <2>1
  <2> QED BY <2>2
<1>6. failing = {} => ~checks[5].bad
  BY <1>1
<1> HIDE DEF checks, failing, first
<1>7. failing # {} => checks[first].kind \in Errors
  BY <1>1, <1>4, <1>5
<1>8. Errors \subseteq Kinds /\ "none" \notin Errors /\ "none" \in Kinds
  BY DEF Kinds
<1> HIDE DEF Errors
<1> QED BY <1>2, <1>3, <1>6, <1>7, <1>8

\* Whole pixels stay whole.
LEMMA Multiples ==
  \A b \in {1, 3} : /\ \A k \in Nat : (k * b) \in Nat /\ (k * b) % b = 0
                    /\ 0 % b = 0
                    /\ \A x, y \in Nat : x % b = 0 /\ y % b = 0 /\ y <= x =>
                         x - y \in Nat /\ (x - y) % b = 0
<1>1. ASSUME NEW k \in Nat PROVE (k * 1) % 1 = 0 /\ (k * 3) % 3 = 0 /\ k * 1 \in Nat /\ k * 3 \in Nat
  OBVIOUS
<1>2. ASSUME NEW x \in Nat, NEW y \in Nat, y <= x
      PROVE  /\ x - y \in Nat
             /\ (x - y) % 1 = 0
             /\ x % 3 = 0 /\ y % 3 = 0 => (x - y) % 3 = 0
  BY <1>2
<1> QED BY <1>1, <1>2

\* A page of the source, up to its parsed header.
LEMMA HeaderStep ==
  ASSUME IInv, readHeader
  PROVE  IInv'
<1>1. pc = "header" /\ UNCHANGED <<opts, pages, pageCounts>>
  BY DEF readHeader
<1>2. PageHeaderSize \in Nat /\ count \in Nat /\ limits.input \in Nat
  BY SizesAssumption, Numbers, Limits
<1>3. CASE /\ UNCHANGED <<pageLogical, page>>
           /\ \E r \in Reads(PageHeaderSize) :
                Fails(r.err, spans, outputBytes) /\ count' = count + r.got
  <2>1. PICK r \in Reads(PageHeaderSize) :
          Fails(r.err, spans, outputBytes) /\ count' = count + r.got
    BY <1>3
  <2>2. count' \in 0..limits.input /\ r.err \in Kinds
    BY <1>2, <2>1, ReadsWithin
  <2> QED BY <1>1, <1>3, <2>1, <2>2, FailStep, Numbers
<1>4. ASSUME limits.input - count >= PageHeaderSize, count' = count + PageHeaderSize,
             NEW raw \in RawPages,
             NEW err, err = (IF pages >= limits.pages THEN "resource" ELSE parseError(raw)),
             IF err # "none"
             THEN Fails(err, spans, outputBytes) /\ UNCHANGED <<pageLogical, page>>
             ELSE /\ pc' = "emit"
                  /\ page' = parsedPage(raw)
                  /\ pageLogical' = pageLogical + rowBytes(raw) * raw.height
                  /\ UNCHANGED <<error, spans, held, outputBytes, dst>>
      PROVE  IInv'
  <2>1. count' \in 0..limits.input
    BY <1>2, <1>4
  <2>2. err \in Kinds
    BY <1>4, Parsed DEF Kinds
  <2>3. CASE err # "none"
    BY <1>1, <1>4, <2>1, <2>2, <2>3, FailStep, Numbers
  <2>4. CASE err = "none"
    <3>1. /\ pc' = "emit" /\ page' = parsedPage(raw) /\ limits' = limits
          /\ pageLogical' = pageLogical + rowBytes(raw) * raw.height
          /\ UNCHANGED <<error, spans, held, outputBytes, dst>>
      BY <1>4, <2>4 DEF limits
    <3>2. ~(pages >= limits.pages) /\ parseError(raw) = "none"
      BY <1>4, <2>4
    <3>3. opts.mapping \in DOMAIN sourceMapping
      BY <1>1 DEF IInv, OptsOK
    <3>4. PICK b \in {1, 3} : b = bytesPerPixel
      BY <3>3, Pixels
    <3>5. PICK w \in Nat, h \in Nat : raw.width = w /\ raw.height = h
      BY InputsAssumption
    <3>6. PICK rb \in Nat : rb = rowBytes(raw) /\ rb % b = 0
      BY <3>4, <3>5, Multiples DEF rowBytes
    <3>7. PICK total \in Nat : total = rowBytes(raw) * raw.height
      BY <3>5, <3>6
    <3>8. pageLogical' \in 0..limits.decoded
      <4>1. pageLogical \in Nat /\ limits.decoded \in Nat /\ limits.decoded > 0
        BY Limits DEF IInv, SizesOK
      <4>2. pageLogical + total <= limits.decoded
        BY <3>2, <3>7, <4>1, Parsed DEF AddsWithin
      <4> QED BY <3>1, <3>7, <4>1, <4>2
    <3>9. PageOK'
      <4>1. PICK land \in BOOLEAN : land = ~Fits(raw)
        OBVIOUS
      <4>2. page' = [NoPage EXCEPT !.raw = [width |-> w, height |-> h], !.bpp = b,
                                   !.rowBytes = rb, !.landscape = land]
        BY <3>1, <3>4, <3>5, <3>6, <4>1 DEF parsedPage
      <4>3. /\ page' \in Page /\ page'.rowsDone = 0 /\ page'.raw.height = h
            /\ page'.rowBytes = rb /\ page'.bpp = b /\ page'.remaining = 0
        BY <4>2 DEF NoPage, Page
      <4>4. 0 % b = 0
        BY Multiples
      <4> QED BY <3>6, <4>3, <4>4 DEF PageOK
    <3>10. OptsOK'
      BY <1>1, <3>1 DEF IInv, OptsOK
    <3>11. SizesOK'
      <4>1. pages < limits.pages
        BY <3>2, Numbers, Limits
      <4> QED BY <1>1, <2>1, <3>1, <3>8, <4>1 DEF IInv, SizesOK
    <3>12. HeadersOK'
      <4>1. /\ dst' = dst /\ pageCounts' = pageCounts /\ pages' = pages /\ ~dst.marker
            /\ pc' = "emit"
            /\ pc' \notin Before /\ pc' \notin Copying /\ pc' \notin Ending
        BY <1>1, <3>1 DEF IInv, HeadersOK, Before, Copying, Ending
      <4> QED BY <1>1, <4>1 DEF IInv, HeadersOK
    <3>13. SpansOK'
      BY <3>1 DEF IInv, SpansOK, Charged
    <3> QED BY <3>1, <3>9, <3>10, <3>11, <3>12, <3>13 DEF IInv, PCs
  <2> QED BY <2>3, <2>4
<1> QED BY <1>3, <1>4 DEF readHeader

\* The page header is written from a buffer that is leased meanwhile.
LEMMA Emits ==
  ASSUME IInv, NEW n \in Nat, outputBytes + n \in 0..limits.output
  PROVE  Charged(SetSize(Written(AcquireBuffer(spans, translation, "header", PWGHeaderSize),
                                 translation, n), translation, outputBytes, outputBytes + n),
                 held.scratch + held.offsets + PWGHeaderSize, outputBytes + n)
<1>1. PICK b \in Nat : b = held.scratch + held.offsets
  BY Numbers
<1>2. PICK m \in Nat : m = outputBytes + n
  BY Numbers
<1>3. PICK h \in Nat : h = PWGHeaderSize
  BY SizesAssumption
<1>4. outputBytes \in Nat /\ outputBytes <= m /\ m <= MaxInt64 /\ Charged(spans, b, outputBytes)
  BY <1>1, <1>2, Numbers, Limits, SpansAssumption
<1>5. b + h <= MaxInt64 /\ b + h \in Nat /\ h <= b + h /\ (b + h) - h = b
  <2>1. PICK c \in Nat, o \in Nat, q \in Nat, sc \in Nat, hs \in Nat :
          /\ c = held.cap /\ o = held.offsets /\ q = limits.pages /\ sc = ScratchSize /\ hs = held.scratch
    BY Limits, Numbers, SizesAssumption DEF IInv, SizesOK
  <2>2. c <= 2 * q /\ o = c * 8 /\ hs <= sc
    BY <2>1, Limits DEF IInv, SizesOK, OffsetSize
  <2>3. sc + h + 2 * 8 * q <= MaxInt64 /\ MaxInt64 \in Nat
    BY <1>3, <2>1, Limits, SpansAssumption DEF OffsetSize
  <2>4. b = hs + o
    BY <1>1, <2>1
  <2> QED BY <2>2, <2>3, <2>4
<1>6. PICK sp1 : sp1 = AcquireBuffer(spans, translation, "header", h)
  OBVIOUS
<1>7. PICK d \in Nat : d = b + h
  OBVIOUS
<1>8. Charged(sp1, d, outputBytes)
  BY <1>4, <1>5, <1>6, <1>7, Acquires
<1>9. PICK sp2 : sp2 = Written(sp1, translation, n)
  OBVIOUS
<1>10. Charged(sp2, d, outputBytes)
  BY <1>4, <1>8, <1>9, Writing
<1>11. PICK sp3 : sp3 = SetSize(sp2, translation, outputBytes, m)
  OBVIOUS
<1>12. Charged(sp3, d, m)
  BY <1>4, <1>10, <1>11, SetsSize
<1> QED BY <1>1, <1>2, <1>3, <1>6, <1>7, <1>9, <1>11, <1>12

\* The header of the next page: only the back of a duplex sheet is mirrored.
LEMMA NextHeader ==
  ASSUME IInv, pc = "emit"
  PROVE  /\ pwgHeader \in Header /\ pwgHeader.at = outputBytes
         /\ pwgHeader.transform # {} => pwgHeader.duplex /\ (pages + 1) % 2 = 0
<1>1. opts.sides \in Sides /\ opts.sheetBack \in SheetBacks /\ opts.mapping \in DOMAIN sourceMapping
  BY DEF IInv, OptsOK
<1>2. PICK tr : tr = sheetTransform
  OBVIOUS
<1>3. tr \in SUBSET {"cross", "feed"} /\ (tr # {} => isBack)
  <2>1. CASE ~isBack
    BY <1>2, <2>1 DEF sheetTransform
  <2>2. CASE isBack
    BY <1>1, <1>2, <2>2 DEF sheetTransform, SheetBacks
  <2> QED BY <2>1, <2>2
<1>4. isBack => opts.sides # "one-sided" /\ (pages + 1) % 2 = 0
  <2>1. pages \in Nat
    BY Numbers
  <2>2. pages % 2 = 1 => (pages + 1) % 2 = 0
    BY <2>1
  <2> QED BY <2>2 DEF isBack
<1>5. /\ outputBytes \in Nat /\ sourceMapping[opts.mapping].out \in {18, 19, 1}
      /\ page.raw.width \in Nat /\ page.raw.height \in Nat
      /\ page.rowBytes \in Nat /\ page.landscape \in BOOLEAN
  BY <1>1, Numbers, Pixels DEF IInv, PageOK, Page
<1>6. PICK dup \in BOOLEAN, tum \in BOOLEAN :
        dup = (opts.sides # "one-sided") /\ tum = (opts.sides = "two-sided-short-edge")
  OBVIOUS
<1>7. pwgHeader = [at |-> outputBytes, total |-> 0, transform |-> tr, duplex |-> dup, tumble |-> tum,
                   space |-> sourceMapping[opts.mapping].out,
                   width |-> page.raw.width, height |-> page.raw.height,
                   rowBytes |-> page.rowBytes, landscape |-> page.landscape]
  BY <1>2, <1>6 DEF pwgHeader
<1>8. pwgHeader \in Header
  BY <1>3, <1>5, <1>7 DEF Header
<1>9. pwgHeader.at = outputBytes /\ pwgHeader.transform = tr /\ pwgHeader.duplex = dup
  BY <1>7
<1> QED BY <1>3, <1>4, <1>6, <1>8, <1>9

\* The capacity of the offsets is at most twice the number of pages.
LEMMA Capacity ==
  ASSUME NEW c \in Nat, NEW n \in Nat, NEW q \in Nat, n <= q, 0 < n, c <= 2 * q
  PROVE  appendCap(c, n) \in 0..(2 * q)
  BY DEF appendCap, Larger

\* A page header is written and its offset noted.
LEMMA EmitStep ==
  ASSUME IInv, emitPageHeader
  PROVE  IInv'
<1> DEFINE H == PWGHeaderSize
           put(n) == SetSize(Written(AcquireBuffer(spans, translation, "header", H),
                                     translation, n), translation, outputBytes, outputBytes + n)
           returned(sp) == ReleaseBuffer(sp, translation, "header", H)
           newcap == appendCap(held.cap, Len(pageCounts) + 1)
           outcomes == IF Len(pageCounts) + 1 > limits.pages
                       THEN {[put |-> 0, err |-> "resource"]} ELSE Writes(H)
<1>1. pc = "emit" /\ UNCHANGED <<opts, count, pages, pageLogical, page>> /\ H \in Nat
  BY SizesAssumption DEF emitPageHeader
<1>2. PICK w \in outcomes :
         \/ /\ w.err # "none"
            /\ Fails(w.err, returned(put(w.put)), outputBytes + w.put)
            /\ UNCHANGED pageCounts
         \/ /\ w.err = "none"
            /\ pc' = "row"
            /\ outputBytes' = outputBytes + H
            /\ dst' = [dst EXCEPT !.headers = Append(@, pwgHeader)]
            /\ pageCounts' = Append(pageCounts, countOffset)
            /\ held' = [held EXCEPT !.cap = newcap, !.offsets = newcap * OffsetSize]
            /\ spans' = returned(IF newcap = held.cap THEN put(H)
                                 ELSE AcquireBuffer(
                                        ReleaseBuffer(put(H), translation, "offsets", held.offsets),
                                        translation, "offsets", newcap * OffsetSize))
            /\ UNCHANGED error
  BY DEF emitPageHeader
<1>3. /\ w.put \in Nat /\ outputBytes + w.put \in 0..limits.output /\ w.err \in Kinds
      /\ w.err = "none" => w.put = H /\ ~(Len(pageCounts) + 1 > limits.pages)
  <2>1. CASE Len(pageCounts) + 1 > limits.pages
    <3>1. w.put = 0 /\ w.err = "resource"
      BY <2>1
    <3> QED BY <3>1, Numbers, Limits DEF Kinds
  <2>2. CASE ~(Len(pageCounts) + 1 > limits.pages)
    <3>1. w \in Writes(H)
      BY <2>2
    <3> QED BY <1>1, <2>2, <3>1, WritesWithin
  <2> QED BY <2>1, <2>2
<1>4. PICK b \in Nat : b = held.scratch + held.offsets
  BY Numbers
<1>5. PICK size \in Nat : size = outputBytes + w.put
  BY <1>3, Numbers
<1>6. PICK h \in Nat : h = H
  BY <1>1
<1>9. Charged(put(w.put), b + h, size)
  BY <1>3, <1>4, <1>5, <1>6, Emits
<1> HIDE DEF put, newcap, outcomes
<1>10. ASSUME NEW sp, NEW k \in Nat, Charged(sp, k + h, size)
       PROVE  Charged(returned(sp), k, size)
  <2>1. k + h \in Nat /\ h <= k + h /\ (k + h) - h = k
    OBVIOUS
  <2>2. Charged(ReleaseBuffer(sp, translation, "header", h), (k + h) - h, size)
    BY <1>10, <2>1, Releases
  <2> QED BY <1>6, <2>1, <2>2
<1>11. Charged(returned(put(w.put)), b, size)
  BY <1>4, <1>9, <1>10
<1> HIDE DEF returned
<1>7. CASE /\ Fails(w.err, returned(put(w.put)), outputBytes + w.put)
           /\ UNCHANGED pageCounts
  <2>1. count' \in 0..limits.input
    BY <1>1 DEF IInv, SizesOK
  <2> QED BY <1>1, <1>3, <1>4, <1>5, <1>7, <1>11, <2>1, FailStep
<1>8. CASE /\ w.err = "none"
           /\ pc' = "row"
           /\ outputBytes' = outputBytes + H
           /\ dst' = [dst EXCEPT !.headers = Append(@, pwgHeader)]
           /\ pageCounts' = Append(pageCounts, countOffset)
           /\ held' = [held EXCEPT !.cap = newcap, !.offsets = newcap * OffsetSize]
           /\ spans' = returned(IF newcap = held.cap THEN put(H)
                                ELSE AcquireBuffer(
                                       ReleaseBuffer(put(H), translation, "offsets", held.offsets),
                                       translation, "offsets", newcap * OffsetSize))
           /\ UNCHANGED error
  <2>1. /\ w.put = H /\ outputBytes' = size /\ size \in 0..limits.output /\ limits' = limits
    BY <1>3, <1>5, <1>8 DEF limits
  <2>2. /\ Len(dst.headers) = pages /\ Len(pageCounts) = pages /\ pages \in Nat
        /\ pages + 1 <= limits.pages /\ limits.pages \in Nat /\ held.cap \in Nat /\ held.cap <= 2 * limits.pages
    <3>1. Len(dst.headers) = pages /\ Len(pageCounts) = pages
      BY <1>1 DEF IInv, HeadersOK
    <3>2. pages \in Nat /\ limits.pages \in Nat /\ ~(pages + 1 > limits.pages)
      BY <1>3, <1>8, <3>1, Numbers, Limits
    <3>3. held.cap \in 0..(2 * limits.pages)
      BY DEF IInv, SizesOK
    <3> QED BY <3>1, <3>2, <3>3
  <2>3. PICK nc \in Nat : nc = newcap /\ nc \in 0..(2 * limits.pages)
    <3>1. PICK c \in Nat, n \in Nat, q \in Nat :
            /\ c = held.cap /\ n = Len(pageCounts) + 1 /\ q = limits.pages
            /\ n <= q /\ 0 < n /\ c <= 2 * q
      BY <2>2
    <3>2. appendCap(c, n) \in 0..(2 * q)
      BY <3>1, Capacity
    <3>3. newcap = appendCap(c, n)
      BY <3>1 DEF newcap
    <3> QED BY <3>1, <3>2, <3>3
  <2>4. PICK no \in Nat : no = nc * OffsetSize
    BY <2>3 DEF OffsetSize
  <2>5. held' = [held EXCEPT !.cap = nc, !.offsets = no]
    BY <1>8, <2>3, <2>4
  <2>6. /\ held' \in [scratch : {0, ScratchSize}, offsets : Nat, cap : 0..(2 * limits.pages)]
        /\ held'.offsets = no /\ held'.cap = nc /\ held'.scratch = held.scratch
    BY <2>3, <2>5 DEF IInv, SizesOK
  <2>7. OptsOK'
    BY <1>1, <1>8 DEF IInv, OptsOK
  <2>8. SizesOK'
    <3>1. pages < limits.pages /\ count \in 0..limits.input /\ pageLogical \in 0..limits.decoded
          /\ pages \in 0..limits.pages
      BY <2>2 DEF IInv, SizesOK
    <3> QED BY <1>1, <1>8, <2>1, <2>4, <2>6, <3>1 DEF SizesOK
  <2>9. PageOK'
    BY <1>1 DEF IInv, PageOK
  <2>10. HeadersOK'
    <3>1. PICK hd \in Header : hd = pwgHeader /\ hd.at = outputBytes
                               /\ (hd.transform # {} => hd.duplex /\ (pages + 1) % 2 = 0)
      BY <1>1, NextHeader
    <3>2. PICK hs \in Seq(Header) : hs = dst.headers
      BY DEF IInv, HeadersOK
    <3>3. PICK off \in Nat : off = outputBytes + CountOffset /\ off = countOffset
      BY Numbers, SizesAssumption DEF countOffset
    <3>4. dst' = [marker |-> FALSE, headers |-> Append(hs, hd)]
      <4>1. dst \in [marker : BOOLEAN, headers : Seq(Header)] /\ dst.marker = FALSE
        BY <1>1 DEF IInv, HeadersOK
      <4> QED BY <1>8, <3>1, <3>2, <4>1
    <3>5. pageCounts \in Seq(Nat) /\ pageCounts' = Append(pageCounts, off)
      BY <1>8, <3>3 DEF IInv, HeadersOK
    <3>6. /\ dst'.marker = FALSE /\ dst'.headers \in Seq(Header) /\ Len(dst'.headers) = pages + 1
          /\ dst'.headers[pages + 1] = hd
          /\ \A i \in 1..pages : dst'.headers[i] = hs[i]
      BY <2>2, <3>2, <3>4
    <3>7. /\ pageCounts' \in Seq(Nat) /\ Len(pageCounts') = pages + 1
          /\ pageCounts'[pages + 1] = off
          /\ \A i \in 1..pages : pageCounts'[i] = pageCounts[i]
      BY <2>2, <3>5
    <3>8. \A i \in 1..pages : pageCounts[i] = hs[i].at + CountOffset
      <4> TAKE i \in 1..pages
      <4>1. i - (pages - pages) = i /\ ~(i <= 0) /\ i \in 1..Len(dst.headers)
        BY <2>2
      <4> QED BY <1>1, <2>2, <3>2, <4>1 DEF IInv, HeadersOK
    <3>9. \A i \in 1..(pages + 1) : pageCounts'[i] = dst'.headers[i].at + CountOffset
      <4> TAKE i \in 1..(pages + 1)
      <4>1. i \in 1..pages \/ i = pages + 1
        BY <2>2
      <4> QED BY <3>1, <3>3, <3>6, <3>7, <3>8, <4>1
    <3>10. \A i \in 1..(pages + 1) : dst'.headers[i].transform # {} => dst'.headers[i].duplex /\ i % 2 = 0
      <4> TAKE i \in 1..(pages + 1)
      <4>1. i \in 1..pages \/ i = pages + 1
        BY <2>2
      <4>2. \A j \in 1..pages : hs[j].transform # {} => hs[j].duplex /\ j % 2 = 0
        BY <2>2, <3>2 DEF IInv, HeadersOK
      <4> QED BY <3>1, <3>6, <4>1, <4>2
    <3>11. \A i \in 1..Len(dst'.headers) :
             /\ i - (Len(dst'.headers) - Len(pageCounts')) = i /\ ~(i <= 0)
      BY <2>2, <3>6, <3>7
    <3>12. /\ pc' = "row" /\ pages' = pages
           /\ pc' \notin Before /\ pc' \in Copying /\ pc' \notin Ending /\ pc' \notin {"header", "emit"}
           /\ pc' \notin {"measure", "staged"}
      BY <1>1, <1>8 DEF Before, Copying, Ending
    <3>13. dst' \in [marker : BOOLEAN, headers : Seq(Header)]
      BY <3>4, <3>6
    <3> QED BY <3>6, <3>7, <3>9, <3>10, <3>11, <3>12, <3>13 DEF HeadersOK
  <2>11. Charged(spans', held'.scratch + held'.offsets, outputBytes')
    <3>1. PICK sp : sp = put(H)
      OBVIOUS
    <3>2. Charged(sp, b + h, size)
      BY <1>9, <2>1, <3>1
    <3>3. PICK sc \in Nat, o \in Nat : sc = held.scratch /\ o = held.offsets /\ b = sc + o
      BY <1>4, Numbers
    <3>4. CASE nc = held.cap
      <4>1. no = o /\ spans' = returned(sp)
        BY <1>8, <2>3, <2>4, <3>1, <3>3, <3>4 DEF IInv, SizesOK
      <4>2. Charged(returned(sp), b, size)
        BY <1>10, <3>2
      <4> QED BY <2>1, <2>6, <3>3, <4>1, <4>2
    <3>5. CASE nc # held.cap
      <4>1. PICK sp1 : sp1 = ReleaseBuffer(sp, translation, "offsets", o)
        OBVIOUS
      <4>2. Charged(sp1, sc + h, size)
        <5>1. o <= b + h /\ (b + h) - o = sc + h /\ b + h \in Nat
          BY <3>3
        <5> QED BY <3>2, <4>1, <5>1, Releases
      <4>3. (sc + h) + no <= MaxInt64
        <5>1. PICK q \in Nat, ss \in Nat : q = limits.pages /\ ss = ScratchSize
          BY Limits, SizesAssumption
        <5>2. nc <= 2 * q /\ no = nc * 8 /\ sc <= ss
          BY <2>3, <2>4, <3>3, <5>1 DEF IInv, SizesOK, OffsetSize
        <5>3. ss + h + 2 * 8 * q <= MaxInt64 /\ MaxInt64 \in Nat
          BY <1>6, <5>1, Limits, SpansAssumption DEF OffsetSize
        <5> QED BY <5>2, <5>3
      <4>4. PICK sp2 : sp2 = AcquireBuffer(sp1, translation, "offsets", no)
        OBVIOUS
      <4>5. Charged(sp2, (sc + no) + h, size)
        <5>1. sc + h \in Nat /\ (sc + h) + no = (sc + no) + h
          OBVIOUS
        <5>2. Charged(sp2, (sc + h) + no, size)
          BY <4>2, <4>3, <4>4, <5>1, Acquires
        <5> QED BY <5>1, <5>2
      <4>6. spans' = returned(sp2)
        BY <1>8, <2>3, <2>4, <3>1, <3>3, <3>5, <4>1, <4>4
      <4>7. sc + no \in Nat /\ Charged(returned(sp2), sc + no, size)
        BY <1>10, <4>5
      <4> QED BY <2>1, <2>6, <3>3, <4>6, <4>7
    <3> QED BY <3>4, <3>5
  <2>12. SpansOK'
    BY <1>8, <2>11 DEF SpansOK, Charged
  <2> QED BY <1>8, <2>7, <2>8, <2>9, <2>10, <2>12 DEF IInv, PCs
<1> QED BY <1>2, <1>7, <1>8

\* A row group begins.
LEMMA RepeatStep ==
  ASSUME IInv, CopyRepeat
  PROVE  IInv'
<1>1. pc = "row"
  BY DEF CopyRepeat
<1>2. CASE CopyFails(1)
  BY <1>2, CopyFailStep
<1>3. CASE /\ Copyable(1) /\ Continues("packet", 1, 1)
           /\ \E b \in RepeatBytes : page' = [page EXCEPT !.repeat = b + 1, !.remaining = page.rowBytes]
           /\ UNCHANGED <<opts, dst, pages, pageCounts, pageLogical>>
  <2>1. count + 1 \in 0..limits.input /\ outputBytes + 1 \in 0..limits.output
    BY <1>3, CopiesAll
  <2>2. PICK b \in RepeatBytes : page' = [page EXCEPT !.repeat = b + 1, !.remaining = page.rowBytes]
    BY <1>3
  <2>3. b + 1 \in Nat
    BY InputsAssumption
  <2>4. PageOK'
    BY <2>2, <2>3 DEF IInv, PageOK, Page
  <2> QED BY <1>1, <1>3, <2>1, <2>4, AdvanceStep DEF Copying
<1> QED BY <1>2, <1>3 DEF CopyRepeat

\* A packet covers whole pixels and no more than the row has left.
LEMMA Packets ==
  ASSUME IInv, NEW c \in ControlBytes
  PROVE  /\ packet(c).payload \in Nat /\ packet(c).covers \in Nat
         /\ page.remaining - packet(c).covers \in Nat
         /\ (page.remaining - packet(c).covers) % page.bpp = 0
<1>1. PICK k \in Nat : k = c /\ k <= 255
  BY InputsAssumption
<1>2. PICK b \in {1, 3}, rem \in Nat : b = page.bpp /\ rem = page.remaining /\ rem % b = 0
  BY DEF IInv, PageOK, Page
<1>3. ASSUME NEW j \in Nat
      PROVE  /\ clipped(j * b) \in Nat /\ rem - clipped(j * b) \in Nat
             /\ (rem - clipped(j * b)) % b = 0
  <2>1. PICK x \in Nat : x = j * b /\ x % b = 0
    BY Multiples
  <2>2. clipped(x) = (IF x < rem THEN x ELSE rem)
    BY <1>2 DEF clipped, Lesser
  <2>3. CASE x < rem
    BY <1>2, <2>1, <2>2, <2>3, Multiples
  <2>4. CASE ~(x < rem)
    BY <1>2, <2>1, <2>2, <2>4, Multiples
  <2> QED BY <2>3, <2>4
<1>4. CASE k = 128
  <2>1. packet(c).payload = 0 /\ packet(c).covers = rem
    BY <1>1, <1>2, <1>4 DEF packet
  <2>2. rem - rem = 0 /\ 0 % b = 0
    BY Multiples
  <2> QED BY <1>2, <2>1, <2>2
<1>5. CASE k > 128
  <2>1. PICK j \in Nat : j = 257 - k
    BY <1>1
  <2>2. packet(c).payload = clipped(j * b) /\ packet(c).covers = clipped(j * b)
    BY <1>1, <1>2, <1>5, <2>1 DEF packet
  <2>3. PICK v \in Nat : v = clipped(j * b) /\ rem - v \in Nat /\ (rem - v) % b = 0
    BY <1>3
  <2> QED BY <1>2, <2>2, <2>3
<1>6. CASE k < 128
  <2>1. PICK j \in Nat : j = k + 1
    OBVIOUS
  <2>2. packet(c).payload = b /\ packet(c).covers = clipped(j * b)
    BY <1>1, <1>2, <1>6, <2>1 DEF packet
  <2>3. PICK v \in Nat : v = clipped(j * b) /\ rem - v \in Nat /\ (rem - v) % b = 0
    BY <1>3
  <2> QED BY <1>2, <2>2, <2>3
<1> QED BY <1>4, <1>5, <1>6

\* A control byte.
LEMMA ControlStep ==
  ASSUME IInv, CopyControl
  PROVE  IInv'
<1>1. pc = "packet"
  BY DEF CopyControl
<1>2. CASE CopyFails(1)
  BY <1>2, CopyFailStep
<1>3. ASSUME Copyable(1), NEW c \in ControlBytes, NEW short \in BOOLEAN, NEW next \in {"packet", "payload"},
             page' = [page EXCEPT !.payload   = IF short THEN 0 ELSE packet(c).payload,
                                  !.remaining = IF short THEN 0 ELSE @ - packet(c).covers],
             Continues(next, 1, 1),
             UNCHANGED <<opts, dst, pages, pageCounts, pageLogical>>
      PROVE  IInv'
  <2>1. count + 1 \in 0..limits.input /\ outputBytes + 1 \in 0..limits.output
    BY <1>3, CopiesAll
  <2>2. PICK b \in {1, 3} : b = page.bpp
    BY DEF IInv, PageOK, Page
  <2>3. PICK pay \in Nat, rem \in Nat :
          /\ pay = IF short THEN 0 ELSE packet(c).payload
          /\ rem = IF short THEN 0 ELSE page.remaining - packet(c).covers
          /\ rem % b = 0
    BY <2>2, Packets, Multiples
  <2>4. page' = [page EXCEPT !.payload = pay, !.remaining = rem]
    BY <1>3, <2>3 DEF IInv, PageOK, Page
  <2>5. PageOK'
    BY <2>2, <2>3, <2>4 DEF IInv, PageOK, Page
  <2> QED BY <1>1, <1>3, <2>1, <2>5, AdvanceStep DEF Copying
<1>4. CASE /\ Copyable(1)
           /\ \E c \in ControlBytes :
                LET p     == packet(c)
                    short == c < 128 /\ p.covers < page.bpp
                IN  /\ page' = [page EXCEPT
                          !.payload   = IF short THEN 0 ELSE p.payload,
                          !.remaining = IF short THEN 0 ELSE @ - p.covers]
                    /\ Continues(IF short \/ p.payload = 0 THEN "packet" ELSE "payload", 1, 1)
           /\ UNCHANGED <<opts, dst, pages, pageCounts, pageLogical>>
  <2>1. PICK c \in ControlBytes :
          /\ page' = [page EXCEPT
                !.payload   = IF c < 128 /\ packet(c).covers < page.bpp THEN 0 ELSE packet(c).payload,
                !.remaining = IF c < 128 /\ packet(c).covers < page.bpp THEN 0 ELSE @ - packet(c).covers]
          /\ Continues(IF (c < 128 /\ packet(c).covers < page.bpp) \/ packet(c).payload = 0
                       THEN "packet" ELSE "payload", 1, 1)
    BY <1>4
  <2>2. PICK short \in BOOLEAN : short = (c < 128 /\ packet(c).covers < page.bpp)
    OBVIOUS
  <2>3. PICK next \in {"packet", "payload"} :
          next = IF short \/ packet(c).payload = 0 THEN "packet" ELSE "payload"
    OBVIOUS
  <2>4. /\ page' = [page EXCEPT !.payload   = IF short THEN 0 ELSE packet(c).payload,
                                !.remaining = IF short THEN 0 ELSE @ - packet(c).covers]
        /\ Continues(next, 1, 1)
    BY <2>1, <2>2, <2>3
  <2> QED BY <1>3, <1>4, <2>4
<1> QED BY <1>2, <1>4 DEF CopyControl

\* A packet's bytes, one scratch buffer at a time.
LEMMA PayloadStep ==
  ASSUME IInv, CopyPayload
  PROVE  IInv'
<1>1. pc = "payload"
  BY DEF CopyPayload
<1>2. PICK pay \in Nat, sc \in Nat : pay = page.payload /\ sc = ScratchSize
  BY SizesAssumption DEF IInv, PageOK, Page
<1>3. PICK n \in Nat : n = Lesser(ScratchSize, page.payload) /\ pay - n \in Nat
  BY <1>2 DEF Lesser
<1>4. CASE CopyFails(n)
  BY <1>4, CopyFailStep
<1>5. CASE /\ Copyable(n)
           /\ Continues(IF n = page.payload THEN "packet" ELSE "payload", n, n)
           /\ page' = [page EXCEPT !.payload = @ - n]
           /\ UNCHANGED <<opts, dst, pages, pageCounts, pageLogical>>
  <2>1. count + n \in 0..limits.input /\ outputBytes + n \in 0..limits.output
    BY <1>5, CopiesAll
  <2>2. PICK left \in Nat : left = pay - n
    BY <1>3
  <2>3. page' = [page EXCEPT !.payload = left]
    BY <1>2, <1>5, <2>2
  <2>4. PageOK'
    BY <2>3 DEF IInv, PageOK, Page
  <2>5. PICK next \in {"packet", "payload"} : next = IF n = page.payload THEN "packet" ELSE "payload"
    OBVIOUS
  <2> QED BY <1>1, <1>5, <2>1, <2>4, <2>5, AdvanceStep DEF Copying
<1> QED BY <1>3, <1>4, <1>5 DEF CopyPayload

\* A row group ends.
LEMMA RowStep ==
  ASSUME IInv, RowDone
  PROVE  IInv'
<1>1. /\ pc = "packet" /\ pc' = "row"
      /\ UNCHANGED <<error, opts, count, outputBytes, dst, pages, pageCounts, pageLogical, spans, held>>
  BY DEF RowDone
<1>2. PICK h \in Nat, d \in Nat, rp \in Nat :
        h = page.raw.height /\ d = page.rowsDone /\ rp = page.repeat /\ d <= h
  BY DEF IInv, PageOK, Page
<1>3. PICK e \in Nat : e = (IF rp > h - d THEN h ELSE d + rp) /\ e <= h
  BY <1>2
<1>4. page' = [page EXCEPT !.rowsDone = e]
  BY <1>2, <1>3 DEF RowDone
<1>5. PageOK'
  BY <1>2, <1>3, <1>4 DEF IInv, PageOK, Page
<1>6. limits' = limits
  BY DEF limits
<1>7. OptsOK' /\ SizesOK'
  BY <1>1, <1>6 DEF IInv, OptsOK, SizesOK, Copying
<1>8. HeadersOK'
  BY <1>1 DEF IInv, HeadersOK, Before, Copying, Ending
<1>9. SpansOK'
  BY <1>1 DEF IInv, SpansOK, Charged
<1> QED BY <1>1, <1>5, <1>7, <1>8, <1>9 DEF IInv, PCs

\* A page ends.
LEMMA PageStep ==
  ASSUME IInv, PageDone
  PROVE  IInv'
<1>1. /\ pc = "row" /\ pc' = "header" /\ pages' = pages + 1 /\ page' = NoPage
      /\ UNCHANGED <<error, opts, count, outputBytes, dst, pageCounts, pageLogical, spans, held>>
  BY DEF PageDone
<1>2. PageOK'
  BY <1>1 DEF PageOK, Page, NoPage
<1>3. limits' = limits
  BY DEF limits
<1>4. pages \in Nat /\ pages + 1 \in 0..limits.pages
  BY <1>1, Numbers, Limits DEF IInv, SizesOK, Copying
<1>5. OptsOK'
  BY <1>1 DEF IInv, OptsOK
<1>6. SizesOK'
  BY <1>1, <1>3, <1>4 DEF IInv, SizesOK, Copying
<1>7. HeadersOK'
  <2>1. Len(dst.headers) = pages + 1 /\ Len(pageCounts) = pages + 1
    BY <1>1 DEF IInv, HeadersOK, Copying
  <2>2. \A i \in 1..Len(dst.headers) : ~(i - (Len(dst.headers) - Len(pageCounts)) <= 0)
    BY <1>4, <2>1
  <2>3. /\ pc' \notin Before /\ pc' \notin Copying /\ pc' \notin Ending /\ ~dst.marker
        /\ pc \notin {"failed", "closed"}
    BY <1>1 DEF IInv, HeadersOK, Before, Copying, Ending
  <2> QED BY <1>1, <2>1, <2>2, <2>3 DEF IInv, HeadersOK
<1>8. SpansOK'
  BY <1>1 DEF IInv, SpansOK, Charged
<1> QED BY <1>1, <1>2, <1>5, <1>6, <1>7, <1>8 DEF IInv, PCs

\* The last writes, and the measuring of the file, may fail.
LEMMA LateFailStep ==
  ASSUME IInv, SeekWriteFails, UNCHANGED <<opts, count, pages, pageCounts, pageLogical, page>>
  PROVE  IInv'
<1>1. PICK kind \in {"canceled", "destination"} : Fails(kind, spans, outputBytes)
  BY DEF SeekWriteFails
<1>2. kind \in Kinds /\ count' \in 0..limits.input
  BY DEF Kinds, IInv, SizesOK
<1> QED BY <1>1, <1>2, FailStep, Numbers

\* A page count is written into the header its offset was noted for.
LEMMA PatchStep ==
  ASSUME IInv, PatchCount
  PROVE  IInv'
<1>1. pc = "patch" /\ pageCounts # <<>> /\ UNCHANGED <<opts, count, pages, pageLogical, page>>
  BY DEF PatchCount
<1>2. CASE SeekWriteFails /\ UNCHANGED pageCounts
  BY <1>1, <1>2, LateFailStep
<1>3. CASE /\ dst' = [dst EXCEPT !.headers = Patched(@, Head(pageCounts))]
           /\ pageCounts' = Tail(pageCounts)
           /\ spans' = Written(spans, translation, MarkerSize)
           /\ UNCHANGED <<pc, error, outputBytes, held>>
  <2>1. limits' = limits
    BY DEF limits
  <2>2. OptsOK' /\ SizesOK' /\ PageOK'
    BY <1>1, <1>3, <2>1 DEF IInv, OptsOK, SizesOK, PageOK
  <2>3. SpansOK'
    <3>1. Charged(spans', held.scratch + held.offsets, outputBytes)
      BY <1>3, Writing, Numbers DEF MarkerSize
    <3> QED BY <1>1, <1>3, <3>1 DEF SpansOK, Charged
  <2>4. HeadersOK'
    <3>1. /\ dst \in [marker : BOOLEAN, headers : Seq(Header)] /\ ~dst.marker
          /\ pageCounts \in Seq(Nat) /\ pages \in Nat /\ pages > 0
          /\ Len(dst.headers) = pages /\ Len(pageCounts) <= pages
      BY <1>1, Numbers DEF IInv, HeadersOK, Ending
    <3>2. PICK hs \in Seq(Header), off \in Nat, n \in Nat :
            hs = dst.headers /\ off = Head(pageCounts) /\ off = pageCounts[1]
            /\ n = Len(pageCounts) /\ n > 0
      BY <1>1, <3>1
    <3>3. PICK new : new = Patched(hs, off)
      OBVIOUS
    <3>4. DOMAIN hs = 1..pages /\ \A i \in 1..pages : hs[i] \in Header
      BY <3>1, <3>2
    <3>5. ASSUME NEW h \in Header
          PROVE  LET t == [h EXCEPT !.total = pages]
                 IN  /\ t \in Header /\ t.total = pages /\ t.at = h.at
                     /\ t.transform = h.transform /\ t.duplex = h.duplex
      BY <3>1 DEF Header
    <3>6. /\ DOMAIN new = 1..pages
          /\ \A i \in 1..pages : new[i] = IF hs[i].at + CountOffset = off THEN [hs[i] EXCEPT !.total = pages]
                                          ELSE hs[i]
          /\ new = [i \in 1..pages |-> new[i]]
      BY <3>3, <3>4 DEF Patched
    <3>7. \A i \in 1..pages :
            /\ new[i] \in Header /\ new[i].at = hs[i].at
            /\ new[i].transform = hs[i].transform /\ new[i].duplex = hs[i].duplex
            /\ hs[i].at + CountOffset = off => new[i].total = pages
            /\ hs[i].total = pages => new[i].total = pages
      <4> TAKE i \in 1..pages
      <4>1. PICK h \in Header : h = hs[i]
        BY <3>4
      <4>2. PICK t \in Header : /\ t = [h EXCEPT !.total = pages] /\ t.total = pages /\ t.at = h.at
                                /\ t.transform = h.transform /\ t.duplex = h.duplex
        BY <3>5
      <4>3. IF h.at + CountOffset = off THEN new[i] = t ELSE new[i] = h
        BY <3>6, <4>1, <4>2
      <4> QED BY <4>1, <4>2, <4>3
    <3>8. new \in Seq(Header) /\ Len(new) = pages
      <4>1. new \in [1..pages -> Header]
        BY <3>6, <3>7
      <4> QED BY <3>1, <4>1
    <3>9. dst' = [marker |-> FALSE, headers |-> new]
      BY <1>3, <3>1, <3>2, <3>3
    <3>10. /\ pageCounts' \in Seq(Nat) /\ Len(pageCounts') = n - 1
           /\ \A j \in 1..(n - 1) : pageCounts'[j] = pageCounts[j + 1]
      BY <1>1, <1>3, <3>1, <3>2
    <3>11. ASSUME NEW i \in 1..pages
           PROVE  IF i - (pages - (n - 1)) <= 0 THEN new[i].total = pages
                  ELSE pageCounts'[i - (pages - (n - 1))] = new[i].at + CountOffset
      <4>1. IF i - (pages - n) <= 0 THEN hs[i].total = pages
            ELSE pageCounts[i - (pages - n)] = hs[i].at + CountOffset
        BY <1>1, <3>1, <3>2 DEF IInv, HeadersOK
      <4>2. CASE i - (pages - n) <= 0
        <5>1. i - (pages - (n - 1)) <= 0
          BY <3>1, <4>2
        <5> QED BY <3>7, <4>1, <4>2, <5>1
      <4>3. CASE i - (pages - n) = 1
        <5>1. i - (pages - (n - 1)) <= 0 /\ ~(i - (pages - n) <= 0)
          BY <3>1, <4>3
        <5>2. hs[i].at + CountOffset = off
          BY <3>2, <4>1, <4>3, <5>1
        <5> QED BY <3>7, <5>1, <5>2
      <4>4. CASE i - (pages - n) > 1
        <5>1. PICK j \in Int : j = i - (pages - (n - 1))
          BY <3>1
        <5>2. j + 1 = i - (pages - n) /\ j >= 1 /\ j <= n - 1 /\ j \in 1..(n - 1) /\ ~(j + 1 <= 0) /\ ~(j <= 0)
          BY <3>1, <3>2, <4>4, <5>1
        <5>3. pageCounts[j + 1] = hs[i].at + CountOffset
          BY <4>1, <5>2
        <5>4. pageCounts'[j] = pageCounts[j + 1] /\ new[i].at = hs[i].at
          BY <3>7, <3>10, <5>2
        <5> QED BY <5>1, <5>2, <5>3, <5>4
      <4> QED BY <3>1, <4>2, <4>3, <4>4
    <3>12. \A i \in 1..pages : new[i].transform # {} => new[i].duplex /\ i % 2 = 0
      BY <3>1, <3>2, <3>7 DEF IInv, HeadersOK
    <3>13. /\ dst'.headers = new /\ dst'.marker = FALSE
           /\ dst' \in [marker : BOOLEAN, headers : Seq(Header)]
      BY <3>8, <3>9
    <3>14. /\ pc' = "patch" /\ pages' = pages /\ n - 1 <= pages
           /\ pc' \notin Before /\ pc' \notin Copying /\ pc' \notin {"header", "emit", "measure", "staged"}
      BY <1>1, <1>3, <3>1, <3>2 DEF Before, Copying
    <3> QED BY <3>1, <3>8, <3>10, <3>11, <3>12, <3>13, <3>14 DEF HeadersOK
  <2> QED BY <1>3, <2>2, <2>3, <2>4 DEF IInv
<1> QED BY <1>2, <1>3 DEF PatchCount

\* The marker is written once every count is.
LEMMA MarkerStep ==
  ASSUME IInv, WriteMarker
  PROVE  IInv'
<1>1. pc = "patch" /\ pageCounts = <<>> /\ UNCHANGED <<opts, count, pages, pageCounts, pageLogical, page>>
  BY DEF WriteMarker
<1>2. CASE SeekWriteFails
  BY <1>1, <1>2, LateFailStep
<1>3. CASE /\ pc' = "measure"
           /\ dst' = [dst EXCEPT !.marker = TRUE]
           /\ spans' = Written(spans, translation, MarkerSize)
           /\ UNCHANGED <<error, outputBytes, held>>
  <2>1. limits' = limits
    BY DEF limits
  <2>2. OptsOK' /\ SizesOK' /\ PageOK'
    BY <1>1, <1>3, <2>1 DEF IInv, OptsOK, SizesOK, PageOK, Copying
  <2>3. SpansOK'
    <3>1. Charged(spans', held.scratch + held.offsets, outputBytes)
      BY <1>3, Writing, Numbers DEF MarkerSize
    <3> QED BY <1>1, <1>3, <3>1 DEF SpansOK, Charged
  <2>4. HeadersOK'
    <3>1. /\ dst' \in [marker : BOOLEAN, headers : Seq(Header)] /\ dst'.marker
          /\ dst'.headers = dst.headers
      BY <1>3 DEF IInv, HeadersOK
    <3>2. /\ pc' \notin Before /\ pc' \notin Copying /\ pc' \notin {"header", "emit"}
          /\ pages' = pages /\ pageCounts' = pageCounts /\ pc \in Ending
      BY <1>1, <1>3 DEF Before, Copying, Ending
    <3> QED BY <1>1, <1>3, <3>1, <3>2 DEF IInv, HeadersOK
  <2> QED BY <1>3, <2>2, <2>3, <2>4 DEF IInv, PCs
<1> QED BY <1>2, <1>3 DEF WriteMarker

\* The file is handed over; the buffers are released.
LEMMA CompleteStep ==
  ASSUME IInv, Complete
  PROVE  IInv'
<1>1. pc = "measure" /\ UNCHANGED <<opts, count, pages, pageCounts, pageLogical, page>>
  BY DEF Complete
<1>2. CASE \E kind \in {"canceled", "destination"} : Fails(kind, spans, outputBytes)
  BY <1>1, <1>2, LateFailStep DEF SeekWriteFails
<1>3. CASE /\ pc' = "staged"
           /\ spans' = Finish(Released(spans), translation)
           /\ held' = NoLease
           /\ UNCHANGED <<error, outputBytes, dst>>
  <2>1. limits' = limits
    BY DEF limits
  <2>2. OptsOK' /\ PageOK'
    BY <1>1, <1>3 DEF IInv, OptsOK, PageOK
  <2>3. SizesOK'
    <3>1. /\ NoLease \in [scratch : {0, ScratchSize}, offsets : Nat, cap : 0..(2 * limits.pages)]
          /\ NoLease.offsets = NoLease.cap * OffsetSize
      BY Limits DEF NoLease, OffsetSize
    <3> QED BY <1>1, <1>3, <2>1, <3>1 DEF IInv, SizesOK, Copying
  <2>4. HeadersOK'
    <3>1. /\ pc' \notin Before /\ pc' \notin Copying /\ pc' \notin {"header", "emit"}
          /\ pages' = pages /\ pageCounts' = pageCounts /\ dst' = dst /\ pc \in Ending
      BY <1>1, <1>3 DEF Before, Copying, Ending
    <3> QED BY <1>1, <1>3, <3>1 DEF IInv, HeadersOK
  <2>5. SpansOK'
    <3>1. Charged(Released(spans), 0, outputBytes)
      BY Releasing, Numbers
    <3>2. Charged(spans', 0, outputBytes) /\ spans'[translation].finished
      BY <1>3, <3>1, Finishes, Chains, Numbers
    <3>3. held'.scratch + held'.offsets = 0 /\ outputBytes' = outputBytes
      BY <1>3 DEF NoLease
    <3> QED BY <3>2, <3>3 DEF SpansOK, Charged
  <2> QED BY <1>3, <2>2, <2>3, <2>4, <2>5 DEF IInv, PCs
<1> QED BY <1>2, <1>3 DEF Complete

\* The caller is done with the file.
LEMMA DocumentStep ==
  ASSUME IInv, CloseDocument
  PROVE  IInv'
<1>1. /\ pc = "staged" /\ pc' = "closed"
      /\ spans' = Finish(ReleaseTemp(spans, translation, outputBytes), request)
      /\ outputBytes' = 0 /\ dst' = [marker |-> FALSE, headers |-> <<>>]
      /\ UNCHANGED <<error, opts, count, pages, pageCounts, pageLogical, page, held>>
      /\ limits' = limits
  BY DEF CloseDocument, limits
<1>2. OptsOK' /\ PageOK'
  BY <1>1 DEF IInv, OptsOK, PageOK
<1>3. SizesOK'
  <2>1. 0 \in 0..limits.output
    BY Limits
  <2> QED BY <1>1, <2>1 DEF IInv, SizesOK, Copying
<1>4. HeadersOK'
  <2>1. dst' \in [marker : BOOLEAN, headers : Seq(Header)] /\ ~dst'.marker /\ Len(dst'.headers) = 0
    BY <1>1
  <2> QED BY <1>1, <2>1 DEF IInv, HeadersOK, Before, Copying, Ending
<1>5. SpansOK'
  <2>1. PICK sp : sp = ReleaseTemp(spans, translation, outputBytes)
    OBVIOUS
  <2>2. PICK b \in Nat : b = held.scratch + held.offsets
    BY Numbers
  <2>3. Charged(sp, b, 0) /\ sp[translation].finished
    <3>1. spans[translation].finished
      BY <1>1 DEF IInv, SpansOK
    <3> QED BY <2>1, <2>2, <3>1, ReleasesTemp, Chains, Numbers
  <2>4. Charged(Finish(sp, request), b, 0) /\ Finish(sp, request)[translation].finished
    BY <2>3, Finishes, Chains
  <2> QED BY <1>1, <2>1, <2>2, <2>4 DEF SpansOK, Charged
<1> QED BY <1>1, <1>2, <1>3, <1>4, <1>5 DEF IInv, PCs

-----------------------------------------------------------------------------
\* Before the start nothing is held and nothing is written.
LEMMA Initially == Init => IInv
<1> SUFFICES ASSUME Init PROVE IInv
  OBVIOUS
<1>1. pc = "idle" /\ error = "none" /\ opts \in Requests
  BY DEF Init
<1>2. OptsOK
  <2>1. Requests \subseteq Request
    BY InputsAssumption DEF Request
  <2> QED BY <1>1, <2>1 DEF OptsOK
<1>3. SizesOK
  <2>1. /\ NoLease \in [scratch : {0, ScratchSize}, offsets : Nat, cap : 0..(2 * limits.pages)]
        /\ NoLease.offsets = NoLease.cap * OffsetSize
    BY Limits DEF NoLease, OffsetSize
  <2>2. 0 \in 0..limits.input /\ 0 \in 0..limits.output /\ 0 \in 0..limits.decoded /\ 0 \in 0..limits.pages
    BY Limits
  <2>3. count = 0 /\ outputBytes = 0 /\ pageLogical = 0 /\ pages = 0 /\ held = NoLease
    BY DEF Init
  <2> QED BY <1>1, <2>1, <2>2, <2>3 DEF SizesOK, Copying
<1>4. PageOK
  BY DEF Init, PageOK, Page, NoPage
<1>5. HeadersOK
  <2>1. /\ dst = [marker |-> FALSE, headers |-> <<>>] /\ pages = 0 /\ pageCounts = <<>>
    BY DEF Init
  <2>2. dst \in [marker : BOOLEAN, headers : Seq(Header)] /\ ~dst.marker /\ dst.headers = <<>> /\ Len(dst.headers) = 0
    BY <2>1
  <2> QED BY <1>1, <2>1, <2>2 DEF HeadersOK, Before, Copying, Ending
<1>6. SpansOK
  <2>1. NewSpan \in Span /\ NewSpan.bufferCurrent = 0 /\ NewSpan.tempCurrent = 0 /\ NewSpan.tempPeak = 0
    BY DEF NewSpan, Span
  <2>2. spans \in [Spans -> Span] /\ \A s \in Spans : spans[s] = NewSpan
    BY <2>1 DEF Init
  <2>3. held.scratch + held.offsets = 0 /\ outputBytes = 0
    BY DEF Init, NoLease
  <2>4. Charged(spans, 0, 0)
    BY <2>1, <2>2, Chains DEF Charged
  <2> QED BY <1>1, <2>3, <2>4 DEF SpansOK
<1> QED BY <1>1, <1>2, <1>3, <1>4, <1>5, <1>6 DEF IInv, PCs, Kinds

\* Every step keeps the invariant.
LEMMA Inductive == IInv /\ [Next]_vars => IInv'
<1> SUFFICES ASSUME IInv, [Next]_vars PROVE IInv'
  OBVIOUS
<1>1. CASE UNCHANGED vars
  <2>1. limits' = limits
    BY DEF limits
  <2>2. OptsOK' /\ SizesOK' /\ PageOK'
    BY <1>1, <2>1 DEF vars, IInv, OptsOK, SizesOK, PageOK
  <2>3. HeadersOK'
    BY <1>1 DEF vars, IInv, HeadersOK
  <2>4. SpansOK'
    BY <1>1 DEF vars, IInv, SpansOK, Charged
  <2> QED BY <1>1, <2>2, <2>3, <2>4 DEF vars, IInv
<1>2. CASE Next
  BY <1>2, StartStep, ZeroStep, FileHeaderStep, EndStep, HeaderStep, EmitStep, RepeatStep,
     ControlStep, PayloadStep, RowStep, PageStep, PatchStep, MarkerStep, CompleteStep, DocumentStep
     DEF Next
<1> QED BY <1>1, <1>2

\* The invariant holds whatever the source holds and wherever it fails
\* (translate.go, translatePayload).
THEOREM Invariance == Spec => []IInv
  BY Initially, Inductive, PTL DEF Spec

\* The translator's state is always of its type: no packet and no repeat count,
\* however wrong, makes a size negative or a row end beyond its page (copyPageData).
THEOREM TypeCorrect == Spec => []TypeOK
<1>1. IInv => TypeOK
  <2> SUFFICES ASSUME IInv PROVE TypeOK
    OBVIOUS
  <2>1. /\ page.remaining \in Nat /\ page.payload \in Nat /\ page.rowsDone \in 0..page.raw.height
    BY DEF IInv, PageOK, Page
  <2>2. pageLogical \in Nat
    BY Limits DEF IInv, SizesOK
  <2>3. dst.marker \in BOOLEAN /\ \A i \in DOMAIN pageCounts : pageCounts[i] \in Nat
    BY DEF IInv, HeadersOK
  <2> QED BY <2>1, <2>2, <2>3, Numbers DEF IInv, TypeOK
<1> QED BY <1>1, Invariance, PTL

\* No source and no sequence of errors makes the translator take, write or
\* represent more than its limits, and rows are cut at whole pixels
\* (sourceReader.read, write, checkedAddWithin, copyPageData).
THEOREM LimitsHold == Spec => []WithinLimits
<1>1. IInv => WithinLimits
  <2> SUFFICES ASSUME IInv PROVE WithinLimits
    OBVIOUS
  <2>1. pageLogical <= limits.decoded
    BY Limits DEF IInv, SizesOK
  <2> QED BY <2>1, Numbers DEF IInv, PageOK, WithinLimits
<1> QED BY <1>1, Invariance, PTL

\* A file that carries the marker is complete, and only such a file reaches the
\* caller (finalize, setSheetBack).
THEOREM MarkedIsComplete == Spec => []MarkerMeansComplete
<1>1. IInv => MarkerMeansComplete
  <2> SUFFICES ASSUME IInv PROVE MarkerMeansComplete
    OBVIOUS
  <2>1. dst.marker <=> pc \in {"measure", "staged"}
    BY DEF IInv, HeadersOK
  <2>2. ASSUME dst.marker
        PROVE  /\ pages > 0 /\ Len(dst.headers) = pages
               /\ \A i \in DOMAIN dst.headers :
                    /\ dst.headers[i].total = pages
                    /\ dst.headers[i].transform # {} => dst.headers[i].duplex /\ i % 2 = 0
    <3>1. pages \in Nat /\ pages > 0 /\ Len(dst.headers) = pages /\ pageCounts = <<>> /\ Len(pageCounts) = 0
      BY <2>1, <2>2, Numbers DEF IInv, HeadersOK, Ending
    <3>2. DOMAIN dst.headers = 1..pages
      BY <3>1 DEF IInv, HeadersOK
    <3>3. \A i \in 1..pages : i - (pages - 0) <= 0
      BY <3>1
    <3>4. \A i \in 1..pages : dst.headers[i].total = pages
      BY <2>1, <2>2, <3>1, <3>3 DEF IInv, HeadersOK
    <3> QED BY <3>1, <3>2, <3>4 DEF IInv, HeadersOK
  <2> QED BY <2>1, <2>2 DEF MarkerMeansComplete
<1> QED BY <1>1, Invariance, PTL

\* Every span of the chain is charged for exactly what is held, whichever step of
\* the translation failed (Resource.Release, releaseResources, Close).
THEOREM LeasesAreCharged == Spec => []LeasesMatchSpans
<1>1. IInv => LeasesMatchSpans
  BY DEF IInv, SpansOK, Charged, LeasesMatchSpans
<1> QED BY <1>1, Invariance, PTL
=============================================================================
