------------------------------ MODULE JobStore ------------------------------
(***************************************************************************)
(* The durable job registry (internal/store/store.go) as pure operators.   *)
(*                                                                         *)
(* The registry is one SQLite table behind a pool of one connection, so    *)
(* every exported method is atomic.  A method is modelled by two           *)
(* operators over the table `rows': M(rows, ...) is the table after the    *)
(* call (the same table when the call returns an error), and, where a      *)
(* caller looks at the error, MOK(rows, ...) says that the call returned   *)
(* nil.  JobRegistry makes an action of each method; JobLifecycle calls    *)
(* them from the IPP handlers and from the maintenance loop.               *)
(***************************************************************************)
EXTENDS Integers, FiniteSets

CONSTANTS
  Queues,          \* configured printer queues
  Users,           \* requesting-user-name values ("" when the client gives none)
  Names,           \* job-name values ("" when the client gives none)
  MaxJobs,         \* bound: proxy job ids handed out are 1..MaxJobs
  Retention,       \* job_retention, in clock ticks
  InitialBackoff,  \* reconciliationInitialBackoff
  MaxBackoff       \* reconciliationMaxBackoff

ASSUME MaxJobsAssumption == MaxJobs \in Nat
ASSUME TimesAssumption ==
  /\ Retention \in Nat
  /\ InitialBackoff \in Nat \ {0}
  /\ MaxBackoff \in Nat
  /\ InitialBackoff <= MaxBackoff

ProxyID == 1..MaxJobs   \* AUTOINCREMENT ids: never reused
NoID    == 0            \* NULL upstream_job_id or upstream_job_uri
NoTime  == -1           \* NULL timestamp

TerminalStates ==
  {"terminal", "completed", "canceled", "cancelled", "aborted", "failed", "stopped"}

IsTerminalState(state) == state \in TerminalStates

\* What observed_state may hold: the printer's job state as syncObservedJob
\* spells it ("active" stands for every one that is not terminal), a final state,
\* or the IPP status a submission was rejected with ("rejected").
ObservedStates == {"", "active", "rejected"} \cup TerminalStates

\* "absent" marks a proxy id that has no row: not yet allocated, or cleaned up.
Row == [state       : {"absent", "reserved", "mapped", "uncertain"} \cup TerminalStates,
        queue       : Queues \cup {""},
        user        : Users \cup {""},
        name        : Names \cup {""},
        upstreamID  : Nat,
        upstreamURI : Nat,          \* the URI of the printer's job of that number
        documents   : Nat,          \* document_count
        lastDocument: BOOLEAN,
        observed    : ObservedStates,
        terminalAt  : Nat \cup {NoTime},
        reconcileAt : Nat \cup {NoTime},
        nextAt      : Nat \cup {NoTime}]                   \* next_reconcile_at

Present(rows, p)  == rows[p].state # "absent"

NoRow ==
  [state |-> "absent", queue |-> "", user |-> "", name |-> "",
   upstreamID |-> NoID, upstreamURI |-> NoID,
   documents |-> 0, lastDocument |-> FALSE, observed |-> "",
   terminalAt |-> NoTime, reconcileAt |-> NoTime, nextAt |-> NoTime]

\* WHERE proxy_job_id = p AND queue = q selects a row.
Found(rows, q, p) == Present(rows, p) /\ rows[p].queue = q

-----------------------------------------------------------------------------
(* Submission.                                                             *)

Reserve(rows, p, q, user, name) ==
  [rows EXCEPT ![p] = [NoRow EXCEPT
     !.state = "reserved", !.queue = q, !.user = user, !.name = name]]

UpdateDocumentOK(rows, q, p) == Found(rows, q, p)

\* No lifecycle guard: a document may be recorded on a row in any state.
UpdateDocument(rows, q, p, hasBytes, last) ==
  IF Found(rows, q, p)
  THEN [rows EXCEPT ![p] = [@ EXCEPT
          !.documents    = rows[p].documents + (IF hasBytes THEN 1 ELSE 0),
          !.lastDocument = IF last THEN TRUE ELSE rows[p].lastDocument]]
  ELSE rows

-----------------------------------------------------------------------------
(* Lifecycle transitions.                                                  *)

\* Mutants: without the duplicate check; without the queue in the unique index;
\* without the comparison with an earlier mapping.
MarkMappedOK_Duplicate(rows, q, p, id, uri) ==
  /\ Found(rows, q, p)
  /\ ~IsTerminalState(rows[p].state)
  /\ rows[p].upstreamID # NoID /\ id # NoID => rows[p].upstreamID = id

MarkMappedOK_AnyQueue(rows, q, p, id, uri) ==
  /\ MarkMappedOK_Duplicate(rows, q, p, id, uri)
  /\ \A o \in ProxyID \ {p} : rows[o].upstreamID # id

MarkMappedOK_Rebind(rows, q, p, id, uri) ==
  /\ Found(rows, q, p)
  /\ ~IsTerminalState(rows[p].state)
  /\ \A o \in ProxyID \ {p} : Found(rows, q, o) => rows[o].upstreamID # id

MarkMappedOK(rows, q, p, id, uri) ==
  /\ Found(rows, q, p)
  /\ ~IsTerminalState(rows[p].state)
  /\ rows[p].upstreamID # NoID /\ id # NoID => rows[p].upstreamID = id
  /\ rows[p].upstreamURI # NoID /\ uri # NoID => rows[p].upstreamURI = uri
  /\ id # NoID =>
       \A o \in ProxyID \ {p} : Found(rows, q, o) => rows[o].upstreamID # id

MarkMapped(rows, q, p, id, uri) ==
  IF MarkMappedOK(rows, q, p, id, uri)
  THEN [rows EXCEPT ![p] = [@ EXCEPT
          !.upstreamID = id, !.upstreamURI = uri, !.state = "mapped",
          !.reconcileAt = NoTime, !.nextAt = NoTime]]
  ELSE rows

\* Mutant: a late failure reopens a terminal row.
MarkUncertain_Unguarded(rows, q, p, now) ==
  IF Found(rows, q, p)
  THEN [rows EXCEPT ![p] = [@ EXCEPT
          !.state = "uncertain", !.reconcileAt = now, !.nextAt = now]]
  ELSE rows

MarkUncertain(rows, q, p, now) ==
  IF Found(rows, q, p) /\ ~IsTerminalState(rows[p].state)
  THEN [rows EXCEPT ![p] = [@ EXCEPT
          !.state = "uncertain", !.reconcileAt = now, !.nextAt = now]]
  ELSE rows

\* COALESCE(terminal_at, now)
StampedAt(row, now) == IF row.terminalAt = NoTime THEN now ELSE row.terminalAt

\* markTerminalParsed: unguarded, and the registry state is always the generic
\* "terminal"; the printer's own spelling, or the status of a rejected
\* submission, goes to observed_state.
MarkTerminal(rows, q, p, observed, now) ==
  IF Found(rows, q, p)
  THEN [rows EXCEPT ![p] = [@ EXCEPT
          !.state = "terminal", !.observed = observed,
          !.terminalAt = StampedAt(rows[p], now),
          !.reconcileAt = NoTime, !.nextAt = NoTime]]
  ELSE rows

\* Mutant: the retention stamp is forgotten.
UpdateState_NoStamp(rows, q, p, state, now) ==
  IF Found(rows, q, p)
  THEN [rows EXCEPT ![p] = [@ EXCEPT !.state = state, !.observed = state,
          !.reconcileAt = NoTime, !.nextAt = NoTime]]
  ELSE rows

\* The terminal branch of UpdateState (its only caller passes "failed") keeps
\* the given spelling as the registry state.
UpdateState(rows, q, p, state, now) ==
  IF Found(rows, q, p)
  THEN [rows EXCEPT ![p] = [@ EXCEPT
          !.state = state, !.observed = state,
          !.terminalAt = StampedAt(rows[p], now),
          !.reconcileAt = NoTime, !.nextAt = NoTime]]
  ELSE rows

\* Mutant: the printer's state is written to the lifecycle column.
UpdateObserved_WrongColumn(rows, q, p, observed, now) ==
  IF IsTerminalState(observed)
  THEN MarkTerminal(rows, q, p, observed, now)
  ELSE IF Found(rows, q, p) /\ ~IsTerminalState(rows[p].state)
       THEN [rows EXCEPT ![p] = [@ EXCEPT !.state = observed]]
       ELSE rows

UpdateObserved(rows, q, p, observed, now) ==
  IF IsTerminalState(observed)
  THEN MarkTerminal(rows, q, p, observed, now)
  ELSE IF /\ Found(rows, q, p)
          /\ rows[p].terminalAt = NoTime
          /\ ~IsTerminalState(rows[p].state)
       THEN [rows EXCEPT ![p] = [@ EXCEPT !.observed = observed]]
       ELSE rows

-----------------------------------------------------------------------------
(* Reconciliation clocks and retention.                                    *)

ReconciliationCandidates(rows, now) ==
  {p \in ProxyID : /\ rows[p].state = "uncertain"
                   /\ rows[p].nextAt = NoTime \/ rows[p].nextAt <= now}

\* Mutant: doubling without the cap.
reconciliationBackoff_Uncapped(reconcileAt, nextAt) ==
  IF reconcileAt = NoTime \/ nextAt = NoTime \/ nextAt <= reconcileAt
  THEN InitialBackoff
  ELSE 2 * (nextAt - reconcileAt)

reconciliationBackoff(reconcileAt, nextAt) ==
  IF reconcileAt = NoTime \/ nextAt = NoTime \/ nextAt <= reconcileAt
  THEN InitialBackoff
  ELSE LET previousDelay == nextAt - reconcileAt
       IN IF previousDelay > MaxBackoff \div 2 THEN MaxBackoff
          ELSE IF 2 * previousDelay > InitialBackoff THEN 2 * previousDelay
          ELSE InitialBackoff

\* Mutant: no lifecycle predicate on the UPDATE.
MarkReconcileAttempt_Unguarded(rows, p, now) ==
  [rows EXCEPT ![p] = [@ EXCEPT
     !.reconcileAt = now,
     !.nextAt = now + reconciliationBackoff(rows[p].reconcileAt, rows[p].nextAt)]]

MarkReconcileAttempt(rows, p, now) ==
  IF rows[p].state = "uncertain" /\ rows[p].terminalAt = NoTime
  THEN [rows EXCEPT ![p] = [@ EXCEPT
          !.reconcileAt = now,
          !.nextAt = now + reconciliationBackoff(rows[p].reconcileAt, rows[p].nextAt)]]
  ELSE rows

\* ListJobs with a State filter: the lifecycle column is compared as it is.
ListJobsInState(rows, state) == {p \in ProxyID : rows[p].state = state}

\* ListJobs{Queue, RequestingUser, ExcludeTerminal}
ListOpenJobs(rows, q, user) ==
  {p \in ProxyID : /\ Found(rows, q, p)
                   /\ rows[p].user = user
                   /\ rows[p].terminalAt = NoTime}

\* Mutant: retention by time alone.
Expired_AnyState(row, now) == row.state # "absent" /\ row.terminalAt < now - Retention

Expired(row, now) ==
  /\ IsTerminalState(row.state)
  /\ row.terminalAt < now - Retention

CleanupExpired(rows, now) ==
  [p \in ProxyID |-> IF Expired(rows[p], now) THEN NoRow ELSE rows[p]]
=============================================================================
