----------------------------- MODULE JobLedger ------------------------------
(***************************************************************************)
(* What the job registry promises, without rows, clocks or handlers: the   *)
(* life of a client-visible job.                                           *)
(*                                                                         *)
(*     free -> reserved -> mapped <-> uncertain -> terminal -> forgotten   *)
(*                                                                         *)
(* A job number is used once.  A job is bound to at most one printer job,  *)
(* for good, and while both are remembered no two jobs of one queue are    *)
(* bound to the same printer job.  A terminal job only ever gets           *)
(* forgotten.                                                              *)
(***************************************************************************)
CONSTANTS
  Job,         \* client-visible job numbers
  Queue,       \* printer queues
  PrinterJob   \* job numbers the printers may report

VARIABLES
  stage,    \* stage[j]: where job j is in its life
  home,     \* home[j]: the queue of job j ("" before submission)
  bound     \* bound[j]: the printer's number for job j, 0 when unknown

ledger == <<stage, home, bound>>

Init ==
  /\ stage = [j \in Job |-> "free"]
  /\ home  = [j \in Job |-> ""]
  /\ bound = [j \in Job |-> 0]

Open(j) == stage[j] \in {"reserved", "mapped", "uncertain"}

Submit(j, q) ==
  /\ stage[j] = "free"
  /\ stage' = [stage EXCEPT ![j] = "reserved"]
  /\ home'  = [home EXCEPT ![j] = q]
  /\ UNCHANGED bound

Bind(j, u) ==
  /\ Open(j)
  /\ bound[j] \in {0, u}
  /\ \A o \in Job \ {j} :
       (Open(o) \/ stage[o] = "terminal") /\ home[o] = home[j] => bound[o] # u
  /\ stage' = [stage EXCEPT ![j] = "mapped"]
  /\ bound' = [bound EXCEPT ![j] = u]
  /\ UNCHANGED home

Doubt(j) ==
  /\ Open(j)
  /\ stage' = [stage EXCEPT ![j] = "uncertain"]
  /\ UNCHANGED <<home, bound>>

Conclude(j) ==
  /\ Open(j)
  /\ stage' = [stage EXCEPT ![j] = "terminal"]
  /\ UNCHANGED <<home, bound>>

\* Retention may drop several terminal jobs in one sweep.
Forget(S) ==
  /\ \A j \in S : stage[j] = "terminal"
  /\ stage' = [j \in Job |-> IF j \in S THEN "forgotten" ELSE stage[j]]
  /\ home'  = [j \in Job |-> IF j \in S THEN "" ELSE home[j]]
  /\ bound' = [j \in Job |-> IF j \in S THEN 0 ELSE bound[j]]

Next ==
  \/ \E j \in Job, q \in Queue : Submit(j, q)
  \/ \E j \in Job, u \in PrinterJob : Bind(j, u)
  \/ \E j \in Job : Doubt(j) \/ Conclude(j)
  \/ \E S \in SUBSET Job : Forget(S)

Spec == Init /\ [][Next]_ledger
=============================================================================
