-------------------------- MODULE ReconcileSchedule -------------------------
(***************************************************************************)
(* Who gets a turn in the reconciliation: the bounded candidate page, its  *)
(* order, and the backoff, over passes without end.                        *)
(*                                                                         *)
(* A pass looks at the first Limit uncertain rows that are due, ordered by *)
(* next_reconcile_at, asks each of their queues once, and reschedules the  *)
(* rows of the queues that answered.  Only the order of the due times of   *)
(* rows already due can be observed, so these rows are kept as the         *)
(* sequence `due'; of the others the time left is kept, and of every row   *)
(* the delay it last waited.  That makes the state space finite without a  *)
(* bound on the clock.                                                     *)
(***************************************************************************)
EXTENDS Integers, Sequences, SequencesExt, FiniteSets

CONSTANTS
  Queues,
  Rows,            \* proxy job ids
  QueueOf,         \* the queue of a row
  Limit,           \* candidates per pass (100 in the code)
  InitialBackoff,
  MaxBackoff,
  MaxInFlight,     \* bound: other requests in flight on a row that becomes uncertain
  Answering        \* queues that are available and answer in every pass

ASSUME ScheduleAssumption ==
  /\ Rows \subseteq Nat /\ IsFiniteSet(Rows)
  /\ QueueOf \in [Rows -> Queues]
  /\ Limit \in Nat \ {0}
  /\ InitialBackoff \in Nat \ {0} /\ MaxBackoff \in Nat /\ InitialBackoff <= MaxBackoff
  /\ MaxInFlight \in Nat
  /\ Answering \subseteq Queues

VARIABLES
  due,    \* uncertain rows that are due, by next_reconcile_at
  wait,   \* wait[r]: ticks until the uncertain row r is due; 0 for the others
  delay,  \* delay[r]: next_reconcile_at - reconcile_at
  inFlight,  \* inFlight[r]: requests on r, started before it was uncertain, not yet over
  pass    \* history: flips with every pass, so that a pass in vain is a step too

vars == <<due, wait, delay, inFlight, pass>>

TypeOK ==
  /\ due \in Seq(Rows)
  /\ wait \in [Rows -> 0..MaxBackoff]
  /\ delay \in [Rows -> 0..MaxBackoff]
  /\ inFlight \in [Rows -> 0..MaxInFlight]
  /\ pass \in BOOLEAN

Init ==
  /\ due = <<>>
  /\ wait = [r \in Rows |-> 0]
  /\ delay = [r \in Rows |-> 0]
  /\ inFlight = [r \in Rows |-> 0]
  /\ pass = FALSE

\* The numbers of S in ascending order.
InOrder(S) ==
  [k \in 1..Cardinality(S) |-> CHOOSE n \in S : Cardinality({m \in S : m <= n}) = k]

\* s without the members of S.
Without(s, S) ==
  LET kept == {i \in DOMAIN s : s[i] \notin S}
  IN  [k \in 1..Cardinality(kept) |-> s[InOrder(kept)[k]]]

Due(r) == \E i \in DOMAIN due : due[i] = r
Uncertain(r) == Due(r) \/ wait[r] > 0

\* MarkUncertain sets both clocks to now: the row is due at once, behind those
\* that were due before it, and its backoff starts over.  A request that started
\* while the row was mapped may do so again when the row is uncertain already;
\* a new one is turned away until the row is settled.
MarkUncertain(r) ==
  /\ \/ ~Uncertain(r) /\ \E n \in 0..MaxInFlight : inFlight' = [inFlight EXCEPT ![r] = n]
     \/ Uncertain(r) /\ inFlight[r] > 0 /\ inFlight' = [inFlight EXCEPT ![r] = @ - 1]
  /\ due' = Append(Without(due, {r}), r)
  /\ wait' = [wait EXCEPT ![r] = 0]
  /\ delay' = [delay EXCEPT ![r] = 0]
  /\ UNCHANGED pass

\* A row is mapped or terminal by the doing of a handler.
Settle(r) ==
  /\ Uncertain(r)
  /\ due' = Without(due, {r})
  /\ wait' = [wait EXCEPT ![r] = 0]
  /\ delay' = [delay EXCEPT ![r] = 0]
  /\ UNCHANGED <<inFlight, pass>>

Tick ==
  LET ripe == {r \in Rows : wait[r] = 1} IN
  /\ wait' = [r \in Rows |-> IF wait[r] = 0 THEN 0 ELSE wait[r] - 1]
  /\ due' = due \o InOrder(ripe)
  /\ UNCHANGED <<delay, inFlight, pass>>

\* Mutant: candidates in the order of their job number.
Candidates_ByID ==
  LET all == SortSeq(due, <) IN SubSeq(all, 1, IF Len(all) < Limit THEN Len(all) ELSE Limit)

\* Mutant: the rows that came due last are taken first.
Candidates_Latest == SubSeq(due, IF Len(due) < Limit THEN 1 ELSE Len(due) - Limit + 1, Len(due))

Candidates == SubSeq(due, 1, IF Len(due) < Limit THEN Len(due) ELSE Limit)

\* Mutant: doubling without the cap.
backoff_Uncapped(previous) == IF previous = 0 THEN InitialBackoff ELSE 2 * previous

backoff(previous) ==
  IF previous > MaxBackoff \div 2 THEN MaxBackoff
  ELSE IF 2 * previous > InitialBackoff THEN 2 * previous
  ELSE InitialBackoff

\* One pass, in which the queues of `answers' are available and answer.  Their
\* candidates are attempted, and those of `settled' matched a printer job; the
\* candidates of the other queues are left exactly as they were.
Pass(answers, settled) ==
  LET attempted == {r \in ToSet(Candidates) : QueueOf[r] \in answers}
      retried == attempted \ settled
  IN
  /\ settled \subseteq attempted
  /\ due' = Without(due, attempted)
  /\ wait' = [r \in Rows |-> IF r \in retried THEN backoff(delay[r]) ELSE wait[r]]
  /\ delay' = [r \in Rows |-> IF r \in retried THEN backoff(delay[r])
                              ELSE IF r \in settled THEN 0 ELSE delay[r]]
  /\ pass' = ~pass
  /\ UNCHANGED inFlight

PassStep == \E answers \in SUBSET Queues, settled \in SUBSET Rows :
  Answering \subseteq answers /\ Pass(answers, settled)

Next ==
  \/ \E r \in Rows : MarkUncertain(r) \/ Settle(r)
  \/ Tick
  \/ PassStep

\* StartMaintenanceLoop's ticker never stops while the process runs, and time passes.
Spec == Init /\ [][Next]_vars /\ WF_vars(PassStep) /\ WF_vars(Tick)

-----------------------------------------------------------------------------
(* Correctness properties.                                                 *)

\* The rows that stand before r in s.
AheadIn(s, r) == {q \in Rows : \E i, j \in DOMAIN s : i < j /\ s[i] = q /\ s[j] = r}

\* While a row stays due its turn only comes nearer: whatever the handlers, the
\* clock and the passes do, no row gets before it in reconcileUncertainJobs'
\* order, and every pass whose first candidate's queue answers takes one of the
\* rows before it away.  The rows before it thus bound the passes it waits for.
\* (A request still in flight that marks the row itself uncertain again sends it
\* to the end.)
TurnComesNearer ==
  [][\A r \in Rows :
       Due(r) /\ Due(r)' /\ inFlight'[r] = inFlight[r] =>
         /\ AheadIn(due', r) \subseteq AheadIn(due, r)
         /\ pass' # pass /\ QueueOf[due[1]] \in Answering
            => AheadIn(due', r) # AheadIn(due, r)]_vars

\* A due row of a queue that always answers gets its turn, whatever the other
\* rows do (IMPLEMENTATION_REVIEW.md: "bounded exponential backoff so an old
\* batch cannot starve newer uncertain rows").
NoStarvation ==
  \A r \in Rows : QueueOf[r] \in Answering => (Due(r) ~> ~Due(r))
=============================================================================
