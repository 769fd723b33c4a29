--------------------------- MODULE SpanResources ---------------------------
(***************************************************************************)
(* Resource accounting of the action spans (internal/stats/resources.go).  *)
(* A lease on a span is mirrored on every ancestor of it, so an operator   *)
(* changes the whole chain; each span is locked in turn, but the sums and  *)
(* maxima of different leases commute.                                     *)
(***************************************************************************)
EXTENDS Integers

CONSTANTS Spans,        \* the spans of one request
          ParentOf,     \* the parent of each, or NoSpan
          NoSpan,
          Components,   \* names of tracked buffers
          MaxInt64

ASSUME SpansAssumption ==
  /\ ParentOf \in [Spans -> Spans \cup {NoSpan}] /\ NoSpan \notin Spans
  /\ MaxInt64 \in Nat

\* A span and its ancestors: what every set has that holds the span and the
\* parents of its members.
chain[s \in Spans] ==
  {t \in Spans : \A S \in SUBSET Spans :
     s \in S /\ (\A u \in S : ParentOf[u] \in S \cup {NoSpan}) => t \in S}

\* Never below zero, never past the largest integer.
addSaturating(a, b) ==
  IF b < 0 THEN IF a < -b THEN 0 ELSE a + b
  ELSE IF a > MaxInt64 - b THEN MaxInt64 ELSE a + b

Larger(a, b) == IF b > a THEN b ELSE a

\* Begin: nothing is held. recorded is the snapshot that Finish hands over.
NewSpan ==
  [bufferCurrent |-> 0, bufferPeak |-> 0,
   buffers |-> [c \in Components |-> 0], bufferPeaks |-> [c \in Components |-> 0],
   tempCurrent |-> 0, tempPeak |-> 0, tempWritten |-> 0,
   finished |-> FALSE, recorded |-> [buffer |-> 0, temp |-> 0, written |-> 0]]

\* new[t] for the span and its ancestors, spans[t] for the others.
OnChain(spans, s, new) ==
  [t \in Spans |-> IF t \in chain[s] THEN new[t] ELSE spans[t]]

WithBuffer(sp, c, n) ==
  LET current == addSaturating(sp.bufferCurrent, n)
      part    == addSaturating(sp.buffers[c], n)
  IN  [sp EXCEPT !.bufferCurrent = current, !.bufferPeak = Larger(@, current),
                 !.buffers[c] = part, !.bufferPeaks[c] = Larger(@, part)]

WithTemp(sp, n) ==
  LET current == addSaturating(sp.tempCurrent, n)
  IN  [sp EXCEPT !.tempCurrent = current, !.tempPeak = Larger(@, current)]

AcquireBuffer(spans, s, c, capacity) ==
  OnChain(spans, s, [t \in Spans |-> WithBuffer(spans[t], c, capacity)])

AcquireTemp(spans, s, size) ==
  OnChain(spans, s, [t \in Spans |-> WithTemp(spans[t], Larger(0, size))])

ReleaseBuffer(spans, s, c, held) ==
  OnChain(spans, s, [t \in Spans |->
    [spans[t] EXCEPT !.bufferCurrent = Larger(0, @ - held),
                     !.buffers[c] = Larger(0, @ - held)]])

ReleaseTemp(spans, s, held) ==
  OnChain(spans, s, [t \in Spans |->
    [spans[t] EXCEPT !.tempCurrent = Larger(0, @ - held)]])

\* The lease held old bytes and now holds size.
SetSize(spans, s, old, size) ==
  OnChain(spans, s, [t \in Spans |->
    IF size > old THEN WithTemp(spans[t], size - old)
    ELSE [spans[t] EXCEPT !.tempCurrent = Larger(0, @ - (old - size))]])

Written(spans, s, n) ==
  OnChain(spans, s, [t \in Spans |->
    [spans[t] EXCEPT !.tempWritten = addSaturating(@, n)]])

\* Finish records its span once.
Finish(spans, s) ==
  IF spans[s].finished THEN spans
  ELSE [spans EXCEPT ![s].finished = TRUE,
                     ![s].recorded = [buffer  |-> spans[s].bufferPeak,
                                      temp    |-> spans[s].tempPeak,
                                      written |-> spans[s].tempWritten]]
=============================================================================
