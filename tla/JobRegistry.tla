---------------------------- MODULE JobRegistry -----------------------------
(***************************************************************************)
(* The job registry under every order of calls its callers can make.       *)
(* One action per method of store.go that the running service calls; the   *)
(* arguments range over everything the service may pass, so what holds     *)
(* here holds however the handlers, the Get-Jobs joins and the             *)
(* maintenance loop interleave.                                            *)
(***************************************************************************)
EXTENDS JobStore

CONSTANTS
  FinalStates,   \* observed states MarkTerminal is called with
  MaxUpstream,   \* bound: upstream job numbers are 1..MaxUpstream
  MaxDocuments,  \* bound on documents recorded per row
  MaxTime        \* bound on the clock

ASSUME FinalStatesAssumption == FinalStates \subseteq ObservedStates
ASSUME BoundsAssumption ==
  MaxUpstream \in Nat /\ MaxDocuments \in Nat /\ MaxTime \in Nat

VARIABLES
  rows,     \* the jobs table: [ProxyID -> Row]
  lastID,   \* sqlite_sequence: the last proxy id handed out
  now       \* the proxy's clock

vars == <<rows, lastID, now>>

UpstreamID == 1..MaxUpstream

TypeOK ==
  /\ rows \in [ProxyID -> Row]
  /\ lastID \in 0..MaxJobs
  /\ now \in Nat

Init ==
  /\ rows = [p \in ProxyID |-> NoRow]
  /\ lastID = 0
  /\ now = 0

-----------------------------------------------------------------------------
CallReserve(q, user, name) ==
  /\ lastID < MaxJobs
  /\ lastID' = lastID + 1
  /\ rows' = Reserve(rows, lastID + 1, q, user, name)
  /\ UNCHANGED now

\* The service only maps a positive job-id; a printer may leave job-uri out.
CallMarkMapped(q, p, id, uri) ==
  /\ rows' = MarkMapped(rows, q, p, id, uri)
  /\ UNCHANGED <<lastID, now>>

CallMarkUncertain(q, p) ==
  /\ rows' = MarkUncertain(rows, q, p, now)
  /\ UNCHANGED <<lastID, now>>

CallMarkTerminal(q, p, observed) ==
  /\ rows' = MarkTerminal(rows, q, p, observed, now)
  /\ UNCHANGED <<lastID, now>>

CallUpdateState(q, p) ==
  /\ rows' = UpdateState(rows, q, p, "failed", now)
  /\ UNCHANGED <<lastID, now>>

CallUpdateObserved(q, p) ==
  /\ rows' = UpdateObserved(rows, q, p, "active", now)
  /\ UNCHANGED <<lastID, now>>

CallUpdateDocument(q, p, hasBytes, last) ==
  /\ rows[p].documents < MaxDocuments
  /\ rows' = UpdateDocument(rows, q, p, hasBytes, last)
  /\ UNCHANGED <<lastID, now>>

CallMarkReconcileAttempt(p) ==
  /\ rows' = MarkReconcileAttempt(rows, p, now)
  /\ UNCHANGED <<lastID, now>>

CallCleanupExpired ==
  /\ rows' = CleanupExpired(rows, now)
  /\ UNCHANGED <<lastID, now>>

Tick ==
  /\ now < MaxTime
  /\ now' = now + 1
  /\ UNCHANGED <<rows, lastID>>

Next ==
  \/ \E q \in Queues, user \in Users \cup {""}, name \in Names \cup {""} :
       CallReserve(q, user, name)
  \/ \E q \in Queues, p \in ProxyID :
       \/ \E id \in UpstreamID : \E uri \in {NoID, id} : CallMarkMapped(q, p, id, uri)
       \/ CallMarkUncertain(q, p)
       \/ \E observed \in FinalStates : CallMarkTerminal(q, p, observed)
       \/ CallUpdateState(q, p)
       \/ CallUpdateObserved(q, p)
       \/ \E hasBytes, last \in BOOLEAN : CallUpdateDocument(q, p, hasBytes, last)
  \/ \E p \in ProxyID : CallMarkReconcileAttempt(p)
  \/ CallCleanupExpired
  \/ Tick

Spec == Init /\ [][Next]_vars

-----------------------------------------------------------------------------
(* Correctness properties.                                                 *)

\* No two remembered jobs of one queue share an upstream job number, terminal
\* ones included: the queue-scoped unique index (store.go, idx_jobs_queue_upstream)
\* together with markMapped's duplicate check.
UniqueMapping ==
  \A p, o \in ProxyID :
    /\ p # o
    /\ Present(rows, p) /\ Present(rows, o)
    /\ rows[p].queue = rows[o].queue
    /\ rows[p].upstreamID # NoID
    => rows[p].upstreamID # rows[o].upstreamID

\* A row has reconciliation clocks exactly while it is uncertain, so a terminal
\* or mapped row is never rescheduled and an uncertain one is never forgotten by
\* ReconciliationCandidates (the race MarkReconcileAttempt's guarded UPDATE closes).
ClocksFollowUncertainty ==
  \A p \in ProxyID :
    /\ (rows[p].nextAt # NoTime) <=> (rows[p].state = "uncertain")
    /\ (rows[p].reconcileAt # NoTime) <=> (rows[p].state = "uncertain")

\* A row carries a retention stamp exactly when it is terminal: CleanupExpired
\* never has to fall back on updated_at, and a live row is never up for deletion.
StampFollowsTerminal ==
  \A p \in ProxyID :
    (rows[p].terminalAt # NoTime) <=> IsTerminalState(rows[p].state)

\* The delay to the next attempt is zero (just became uncertain) or lies
\* between the initial and the maximal backoff: reconciliationBackoff's doubling
\* neither overshoots an hour nor collapses to a busy retry.
BackoffBounded ==
  \A p \in ProxyID : rows[p].state = "uncertain" =>
    \/ rows[p].nextAt = rows[p].reconcileAt
    \/ /\ rows[p].nextAt - rows[p].reconcileAt >= InitialBackoff
       /\ rows[p].nextAt - rows[p].reconcileAt <= MaxBackoff

\* Terminal is absorbing: no call order brings a terminal row back to life,
\* loses its printer job, or restarts its retention period; only the retention
\* sweep removes it, and not before the retention period is over.
KeepsTerminal ==
  \A p \in ProxyID : IsTerminalState(rows[p].state) =>
    \/ /\ IsTerminalState(rows'[p].state)
       /\ rows'[p].terminalAt = rows[p].terminalAt
       /\ rows'[p].upstreamID = rows[p].upstreamID
    \/ /\ rows'[p] = NoRow
       /\ rows[p].terminalAt + Retention < now

TerminalIsFinal == [][KeepsTerminal]_vars

\* A job once bound to a printer job stays bound to that one, through doubt,
\* reconciliation and termination, until retention deletes its row; and a
\* deleted proxy id never comes back.
KeepsMapping ==
  \A p \in ProxyID :
    /\ rows[p].upstreamID # NoID =>
         rows'[p].upstreamID = rows[p].upstreamID \/ rows'[p] = NoRow
    /\ p <= lastID /\ ~Present(rows, p) => ~Present(rows', p)

MappingIsStable == [][KeepsMapping]_vars

-----------------------------------------------------------------------------
(* The registry implements the ledger.                                     *)

StageOf(row, allocated) ==
  CASE row.state \in {"reserved", "mapped", "uncertain"} -> row.state
    [] IsTerminalState(row.state) -> "terminal"
    [] OTHER -> IF allocated THEN "forgotten" ELSE "free"

Ledger == INSTANCE JobLedger WITH
  Job   <- ProxyID,
  Queue <- Queues,
  PrinterJob <- UpstreamID,
  stage <- [p \in ProxyID |-> StageOf(rows[p], p <= lastID)],
  home  <- [p \in ProxyID |-> rows[p].queue],
  bound <- [p \in ProxyID |-> rows[p].upstreamID]

\* Every registry call is a step of a job's life in JobLedger or invisible there.
ImplementsLedger == Ledger!Spec
=============================================================================
