------------------------- MODULE JobRegistryProofs --------------------------
(***************************************************************************)
(* Proofs about JobRegistry for any number of queues, jobs and printer job *)
(* numbers and for any retention and backoff times.                        *)
(*                                                                         *)
(* Every registry call changes one row or deletes expired ones.  So the    *)
(* inductive invariant speaks of one row at a time (RowInv), except for    *)
(* the uniqueness of mappings and the fate of job numbers, which relate    *)
(* rows to each other and to lastID.                                       *)
(***************************************************************************)
EXTENDS JobRegistry, JobStoreProofs

\* What a row satisfies whatever calls it has been through.
RowInv(r) ==
  /\ (r.nextAt # NoTime) <=> (r.state = "uncertain")
  /\ (r.reconcileAt # NoTime) <=> (r.state = "uncertain")
  /\ (r.terminalAt # NoTime) <=> IsTerminalState(r.state)
  /\ r.state = "uncertain" =>
       \/ r.nextAt = r.reconcileAt
       \/ /\ r.nextAt - r.reconcileAt >= InitialBackoff
          /\ r.nextAt - r.reconcileAt <= MaxBackoff
  /\ r.state = "absent" => r = NoRow

Bookkeeping ==
  /\ \A p \in ProxyID : RowInv(rows[p])
  /\ \A p \in ProxyID : Present(rows, p) => p <= lastID

IInv == TypeOK /\ Bookkeeping /\ UniqueMapping

-----------------------------------------------------------------------------
(* Rows.                                                                   *)

\* The blank row is a row and satisfies the row invariant.
LEMMA NoRowOK == NoRow \in Row /\ RowInv(NoRow)
  BY DEF NoRow, Row, RowInv, NoTime, NoID, IsTerminalState, ObservedStates, TerminalStates

\* The row Reserve writes.
LEMMA ReservedRowOK ==
  ASSUME NEW q \in Queues, NEW user \in Users \cup {""}, NEW name \in Names \cup {""}
  PROVE  LET r == [NoRow EXCEPT !.state = "reserved", !.queue = q, !.user = user, !.name = name]
         IN r \in Row /\ RowInv(r)
  BY DEF NoRow, Row, RowInv, NoTime, NoID, IsTerminalState, ObservedStates, TerminalStates

\* The row markMapped writes.
LEMMA MappedRowOK ==
  ASSUME NEW r \in Row, RowInv(r), ~IsTerminalState(r.state),
         NEW id \in Nat, NEW uri \in Nat
  PROVE  LET s == [r EXCEPT !.upstreamID = id, !.upstreamURI = uri, !.state = "mapped",
                            !.reconcileAt = NoTime, !.nextAt = NoTime]
         IN s \in Row /\ RowInv(s)
  BY DEF Row, RowInv, NoTime, IsTerminalState, TerminalStates

\* The row MarkUncertain writes.
LEMMA UncertainRowOK ==
  ASSUME NEW r \in Row, RowInv(r), ~IsTerminalState(r.state), NEW t \in Nat
  PROVE  LET s == [r EXCEPT !.state = "uncertain", !.reconcileAt = t, !.nextAt = t]
         IN s \in Row /\ RowInv(s)
<1> DEFINE s == [r EXCEPT !.state = "uncertain", !.reconcileAt = t, !.nextAt = t]
<1>1. s \in Row
  BY DEF Row, TerminalStates
<1>2. s.state = "uncertain" /\ s.reconcileAt = t /\ s.nextAt = t /\ s.terminalAt = r.terminalAt
  BY DEF Row
<1>3. RowInv(s)
  BY <1>2 DEF RowInv, NoTime, IsTerminalState, TerminalStates
<1> QED BY <1>1, <1>3

\* The row MarkTerminal and UpdateState write.
LEMMA TerminalRowOK ==
  ASSUME NEW r \in Row, RowInv(r), NEW t \in Nat,
         NEW state \in TerminalStates, NEW observed \in ObservedStates
  PROVE  LET s == [r EXCEPT !.state = state, !.observed = observed,
                            !.terminalAt = StampedAt(r, t),
                            !.reconcileAt = NoTime, !.nextAt = NoTime]
         IN s \in Row /\ RowInv(s)
<1> DEFINE s == [r EXCEPT !.state = state, !.observed = observed,
                          !.terminalAt = StampedAt(r, t),
                          !.reconcileAt = NoTime, !.nextAt = NoTime]
<1>1. StampedAt(r, t) \in Nat
  BY DEF StampedAt, Row, NoTime
<1>2. s \in Row
  BY <1>1 DEF Row
<1>3. /\ s.state = state /\ s.terminalAt = StampedAt(r, t)
      /\ s.reconcileAt = NoTime /\ s.nextAt = NoTime
  BY DEF Row
<1>4. IsTerminalState(s.state) /\ s.state \notin {"uncertain", "absent"} /\ s.terminalAt # NoTime
  BY <1>1, <1>3 DEF NoTime, IsTerminalState, TerminalStates
<1>5. RowInv(s)
  BY <1>3, <1>4 DEF RowInv
<1> QED BY <1>2, <1>5

\* The row UpdateObserved writes for a printer state that is not terminal.
LEMMA ObservedRowOK ==
  ASSUME NEW r \in Row, RowInv(r), r.state # "absent"
  PROVE  LET s == [r EXCEPT !.observed = "active"] IN s \in Row /\ RowInv(s)
<1> DEFINE s == [r EXCEPT !.observed = "active"]
<1>1. s \in Row
  BY DEF Row, ObservedStates
<1>2. /\ s.state = r.state /\ s.terminalAt = r.terminalAt
      /\ s.reconcileAt = r.reconcileAt /\ s.nextAt = r.nextAt
  BY DEF Row
<1>3. RowInv(s)
  BY <1>2 DEF RowInv
<1> QED BY <1>1, <1>3

\* The row UpdateDocument writes.
LEMMA DocumentRowOK ==
  ASSUME NEW r \in Row, RowInv(r), r.state # "absent",
         NEW n \in Nat, NEW last \in BOOLEAN
  PROVE  LET s == [r EXCEPT !.documents = n, !.lastDocument = last]
         IN s \in Row /\ RowInv(s)
<1> DEFINE s == [r EXCEPT !.documents = n, !.lastDocument = last]
<1>1. s \in Row
  BY DEF Row
<1>2. /\ s.state = r.state /\ s.terminalAt = r.terminalAt
      /\ s.reconcileAt = r.reconcileAt /\ s.nextAt = r.nextAt
  BY DEF Row
<1>3. RowInv(s)
  BY <1>2 DEF RowInv
<1> QED BY <1>1, <1>3

\* The row MarkReconcileAttempt writes.
LEMMA AttemptedRowOK ==
  ASSUME NEW r \in Row, RowInv(r), r.state = "uncertain", NEW t \in Nat,
         NEW d \in Nat, InitialBackoff <= d, d <= MaxBackoff
  PROVE  LET s == [r EXCEPT !.reconcileAt = t, !.nextAt = t + d]
         IN s \in Row /\ RowInv(s)
<1> DEFINE s == [r EXCEPT !.reconcileAt = t, !.nextAt = t + d]
<1>0. t + d \in Nat
  OBVIOUS
<1>1. s \in Row
  BY <1>0 DEF Row
<1>2. /\ s.state = r.state /\ s.terminalAt = r.terminalAt
      /\ s.reconcileAt = t /\ s.nextAt = t + d
  BY DEF Row
<1>3. /\ s.nextAt # NoTime /\ s.reconcileAt # NoTime
      /\ s.nextAt - s.reconcileAt = d
  BY <1>2 DEF NoTime
<1>4. RowInv(s)
  BY <1>2, <1>3 DEF RowInv
<1> QED BY <1>1, <1>4

-----------------------------------------------------------------------------
(* The four ways in which a call changes a row r into s.                   *)

Keeps(r, s) == s.queue = r.queue /\ s.upstreamID = r.upstreamID

Binds(p, s) ==
  /\ s.queue = rows[p].queue
  /\ ~IsTerminalState(rows[p].state)
  /\ s.state = "mapped"
  /\ s.upstreamID \in UpstreamID
  /\ rows[p].upstreamID \in {NoID, s.upstreamID}
  /\ \A o \in ProxyID \ {p} :
       Found(rows, rows[p].queue, o) => rows[o].upstreamID # s.upstreamID

Doubts(r, s) == Keeps(r, s) /\ ~IsTerminalState(r.state) /\ s.state = "uncertain"

Closes(r, s) ==
  /\ Keeps(r, s)
  /\ IsTerminalState(s.state)
  /\ r.terminalAt # NoTime => s.terminalAt = r.terminalAt

Notes(r, s) == Keeps(r, s) /\ s.state = r.state /\ s.terminalAt = r.terminalAt

Put(p, s) ==
  /\ Present(rows, p) /\ RowInv(s)
  /\ rows' = [rows EXCEPT ![p] = s]
  /\ UNCHANGED <<lastID, now>>
  /\ Binds(p, s) \/ Doubts(rows[p], s) \/ Closes(rows[p], s) \/ Notes(rows[p], s)

\* A call that leaves the table alone, whether it failed or only time passed.
Quiet == UNCHANGED <<rows, lastID>> /\ now' \in Nat

\* A step of the registry: a reservation, a change of one row, a sweep, or nothing.
Shape ==
  \/ \E q \in Queues, user \in Users \cup {""}, name \in Names \cup {""} :
       CallReserve(q, user, name)
  \/ \E p \in ProxyID, s \in Row : Put(p, s)
  \/ CallCleanupExpired
  \/ Quiet

\* MarkMapped binds an open row to a number no other row of the queue has.
LEMMA MarkMappedShape ==
  ASSUME IInv, NEW q \in Queues, NEW p \in ProxyID,
         NEW id \in UpstreamID, NEW uri \in {NoID, id}, CallMarkMapped(q, p, id, uri)
  PROVE  Shape
<1>1. CASE ~MarkMappedOK(rows, q, p, id, uri)
  BY <1>1 DEF CallMarkMapped, MarkMapped, Shape, Quiet, IInv, TypeOK
<1>2. CASE MarkMappedOK(rows, q, p, id, uri)
  <2> DEFINE s == [rows[p] EXCEPT !.upstreamID = id, !.upstreamURI = uri, !.state = "mapped",
                                  !.reconcileAt = NoTime, !.nextAt = NoTime]
  <2>1. rows[p] \in Row /\ RowInv(rows[p])
    BY DEF IInv, TypeOK, Bookkeeping
  <2>2. Found(rows, q, p) /\ ~IsTerminalState(rows[p].state) /\ id \in Nat /\ uri \in Nat /\ id # NoID
    BY <1>2, BoundsAssumption DEF MarkMappedOK, UpstreamID, NoID
  <2>3. s \in Row /\ RowInv(s)
    BY <2>1, <2>2, MappedRowOK
  <2>4. rows' = [rows EXCEPT ![p] = s] /\ UNCHANGED <<lastID, now>>
    BY <1>2 DEF CallMarkMapped, MarkMapped
  <2>5. s.state = "mapped" /\ s.upstreamID = id /\ s.queue = rows[p].queue
    BY <2>1 DEF Row
  <2>6. Binds(p, s)
    BY <1>2, <2>2, <2>5 DEF Binds, MarkMappedOK, Found
  <2>7. Put(p, s)
    BY <2>2, <2>3, <2>4, <2>6 DEF Put, Found
  <2> QED BY <2>3, <2>7 DEF Shape
<1> QED BY <1>1, <1>2

\* MarkUncertain puts an open row in doubt.
LEMMA MarkUncertainShape ==
  ASSUME IInv, NEW q \in Queues, NEW p \in ProxyID, CallMarkUncertain(q, p)
  PROVE  Shape
<1>1. CASE ~(Found(rows, q, p) /\ ~IsTerminalState(rows[p].state))
  BY <1>1 DEF CallMarkUncertain, MarkUncertain, Shape, Quiet, IInv, TypeOK
<1>2. CASE Found(rows, q, p) /\ ~IsTerminalState(rows[p].state)
  <2> DEFINE s == [rows[p] EXCEPT !.state = "uncertain", !.reconcileAt = now, !.nextAt = now]
  <2>1. rows[p] \in Row /\ RowInv(rows[p]) /\ now \in Nat
    BY DEF IInv, TypeOK, Bookkeeping
  <2>2. s \in Row /\ RowInv(s)
    BY <1>2, <2>1, UncertainRowOK
  <2>3. rows' = [rows EXCEPT ![p] = s] /\ UNCHANGED <<lastID, now>>
    BY <1>2 DEF CallMarkUncertain, MarkUncertain
  <2>4. s.state = "uncertain" /\ s.queue = rows[p].queue /\ s.upstreamID = rows[p].upstreamID
    BY <2>1 DEF Row
  <2>5. Put(p, s)
    BY <1>2, <2>2, <2>3, <2>4 DEF Put, Doubts, Keeps, Found
  <2> QED BY <2>2, <2>5 DEF Shape
<1> QED BY <1>1, <1>2

\* MarkTerminal and UpdateState close a row, and keep the stamp of a closed one.
LEMMA CloseShape ==
  ASSUME IInv, NEW q \in Queues, NEW p \in ProxyID,
         NEW state \in TerminalStates, NEW observed \in ObservedStates,
         rows' = IF Found(rows, q, p)
                 THEN [rows EXCEPT ![p] = [@ EXCEPT
                         !.state = state, !.observed = observed,
                         !.terminalAt = StampedAt(rows[p], now),
                         !.reconcileAt = NoTime, !.nextAt = NoTime]]
                 ELSE rows,
         UNCHANGED <<lastID, now>>
  PROVE  Shape
<1>1. CASE ~Found(rows, q, p)
  BY <1>1 DEF Shape, Quiet, IInv, TypeOK
<1>2. CASE Found(rows, q, p)
  <2> DEFINE s == [rows[p] EXCEPT !.state = state, !.observed = observed,
                                  !.terminalAt = StampedAt(rows[p], now),
                                  !.reconcileAt = NoTime, !.nextAt = NoTime]
  <2>1. rows[p] \in Row /\ RowInv(rows[p]) /\ now \in Nat
    BY DEF IInv, TypeOK, Bookkeeping
  <2>2. s \in Row /\ RowInv(s)
    BY <2>1, TerminalRowOK
  <2>3. rows' = [rows EXCEPT ![p] = s]
    BY <1>2
  <2>4. /\ s.state = state /\ s.queue = rows[p].queue /\ s.upstreamID = rows[p].upstreamID
        /\ s.terminalAt = StampedAt(rows[p], now)
    BY <2>1 DEF Row
  <2>5. Closes(rows[p], s)
    BY <2>4 DEF Closes, Keeps, StampedAt, IsTerminalState
  <2>6. Put(p, s)
    BY <1>2, <2>2, <2>3, <2>5 DEF Put, Found
  <2> QED BY <2>2, <2>6 DEF Shape
<1> QED BY <1>1, <1>2

\* A printer state that is not terminal is only noted.
LEMMA UpdateObservedShape ==
  ASSUME IInv, NEW q \in Queues, NEW p \in ProxyID, CallUpdateObserved(q, p)
  PROVE  Shape
<1> DEFINE open == /\ Found(rows, q, p)
                   /\ rows[p].terminalAt = NoTime
                   /\ ~IsTerminalState(rows[p].state)
           s == [rows[p] EXCEPT !.observed = "active"]
<1>0. ~IsTerminalState("active")
  BY DEF IsTerminalState, TerminalStates
<1>1. CASE ~open
  BY <1>0, <1>1 DEF CallUpdateObserved, UpdateObserved, Shape, Quiet, IInv, TypeOK
<1>2. CASE open
  <2>1. rows[p] \in Row /\ RowInv(rows[p]) /\ rows[p].state # "absent"
    BY <1>2 DEF IInv, TypeOK, Bookkeeping, Found, Present
  <2>2. s \in Row /\ RowInv(s)
    BY <2>1, ObservedRowOK
  <2>3. rows' = [rows EXCEPT ![p] = s] /\ UNCHANGED <<lastID, now>>
    BY <1>0, <1>2 DEF CallUpdateObserved, UpdateObserved
  <2>4. Notes(rows[p], s)
    BY <2>1 DEF Row, Notes, Keeps
  <2>5. Put(p, s)
    BY <1>2, <2>2, <2>3, <2>4 DEF Put, Found
  <2> QED BY <2>2, <2>5 DEF Shape
<1> QED BY <1>1, <1>2

\* Documents are only noted.
LEMMA UpdateDocumentShape ==
  ASSUME IInv, NEW q \in Queues, NEW p \in ProxyID,
         NEW hasBytes \in BOOLEAN, NEW last \in BOOLEAN,
         CallUpdateDocument(q, p, hasBytes, last)
  PROVE  Shape
<1> DEFINE n == rows[p].documents + (IF hasBytes THEN 1 ELSE 0)
           l == IF last THEN TRUE ELSE rows[p].lastDocument
           s == [rows[p] EXCEPT !.documents = n, !.lastDocument = l]
<1>1. CASE ~Found(rows, q, p)
  BY <1>1 DEF CallUpdateDocument, UpdateDocument, Shape, Quiet, IInv, TypeOK
<1>2. CASE Found(rows, q, p)
  <2>1. rows[p] \in Row /\ RowInv(rows[p]) /\ rows[p].state # "absent"
    BY <1>2 DEF IInv, TypeOK, Bookkeeping, Found, Present
  <2>a. rows[p].documents \in Nat
    BY <2>1 DEF Row
  <2>b. n \in Nat
    BY <2>a
  <2>c. l \in BOOLEAN
    BY <2>1 DEF Row
  <2>2. n \in Nat /\ l \in BOOLEAN
    BY <2>b, <2>c
  <2>3. s \in Row /\ RowInv(s)
    BY <2>1, <2>2, DocumentRowOK
  <2>4. rows' = [rows EXCEPT ![p] = s] /\ UNCHANGED <<lastID, now>>
    <3>1. rows' = UpdateDocument(rows, q, p, hasBytes, last) /\ UNCHANGED <<lastID, now>>
      BY DEF CallUpdateDocument
    <3>2. UpdateDocument(rows, q, p, hasBytes, last) = [rows EXCEPT ![p] = s]
      BY <1>2 DEF UpdateDocument
    <3> QED BY <3>1, <3>2
  <2>5. Notes(rows[p], s)
    BY <2>1 DEF Row, Notes, Keeps
  <2>6. Put(p, s)
    BY <1>2, <2>3, <2>4, <2>5 DEF Put, Found
  <2> QED BY <2>3, <2>6 DEF Shape
<1> QED BY <1>1, <1>2

\* An attempt only moves the clocks of an uncertain row.
LEMMA MarkReconcileAttemptShape ==
  ASSUME IInv, NEW p \in ProxyID, CallMarkReconcileAttempt(p)
  PROVE  Shape
<1> DEFINE d == reconciliationBackoff(rows[p].reconcileAt, rows[p].nextAt)
           s == [rows[p] EXCEPT !.reconcileAt = now, !.nextAt = now + d]
           tried == rows[p].state = "uncertain" /\ rows[p].terminalAt = NoTime
<1>1. CASE ~tried
  BY <1>1 DEF CallMarkReconcileAttempt, MarkReconcileAttempt, Shape, Quiet, IInv, TypeOK
<1>2. CASE tried
  <2>1. rows[p] \in Row /\ RowInv(rows[p]) /\ rows[p].state # "absent" /\ now \in Nat
    BY <1>2 DEF IInv, TypeOK, Bookkeeping
  <2>2. rows[p].reconcileAt \in Nat \cup {NoTime} /\ rows[p].nextAt \in Nat \cup {NoTime}
    BY <2>1 DEF Row
  <2>3. d \in Nat /\ InitialBackoff <= d /\ d <= MaxBackoff
    BY <2>2, BackoffInBounds
  <2>4. s \in Row /\ RowInv(s)
    BY <1>2, <2>1, <2>3, AttemptedRowOK
  <2>5. rows' = [rows EXCEPT ![p] = s] /\ UNCHANGED <<lastID, now>>
    BY <1>2 DEF CallMarkReconcileAttempt, MarkReconcileAttempt
  <2>6. Notes(rows[p], s)
    BY <2>1 DEF Row, Notes, Keeps
  <2>7. Put(p, s)
    BY <2>1, <2>4, <2>5, <2>6 DEF Put, Present
  <2> QED BY <2>4, <2>7 DEF Shape
<1> QED BY <1>1, <1>2

\* Every step of the registry has one of the shapes.
LEMMA StepShape ==
  ASSUME IInv, [Next]_vars
  PROVE  Shape
<1>1. CASE UNCHANGED vars
  BY <1>1 DEF vars, Shape, Quiet, IInv, TypeOK
<1>2. ASSUME NEW q \in Queues, NEW user \in Users \cup {""}, NEW name \in Names \cup {""},
             CallReserve(q, user, name)
      PROVE  Shape
  BY <1>2 DEF Shape
<1>3. ASSUME NEW q \in Queues, NEW p \in ProxyID,
             NEW id \in UpstreamID, NEW uri \in {NoID, id}, CallMarkMapped(q, p, id, uri)
      PROVE  Shape
  BY <1>3, MarkMappedShape
<1>4. ASSUME NEW q \in Queues, NEW p \in ProxyID, CallMarkUncertain(q, p)
      PROVE  Shape
  BY <1>4, MarkUncertainShape
<1>5. ASSUME NEW q \in Queues, NEW p \in ProxyID,
             NEW observed \in FinalStates, CallMarkTerminal(q, p, observed)
      PROVE  Shape
  <2>1. "terminal" \in TerminalStates /\ observed \in ObservedStates
    BY FinalStatesAssumption DEF TerminalStates
  <2> QED BY <1>5, <2>1, CloseShape DEF CallMarkTerminal, MarkTerminal
<1>6. ASSUME NEW q \in Queues, NEW p \in ProxyID, CallUpdateState(q, p)
      PROVE  Shape
  <2>1. "failed" \in TerminalStates \cap ObservedStates
    BY DEF TerminalStates, ObservedStates
  <2> QED BY <1>6, <2>1, CloseShape DEF CallUpdateState, UpdateState
<1>7. ASSUME NEW q \in Queues, NEW p \in ProxyID, CallUpdateObserved(q, p)
      PROVE  Shape
  BY <1>7, UpdateObservedShape
<1>8. ASSUME NEW q \in Queues, NEW p \in ProxyID,
             NEW hasBytes \in BOOLEAN, NEW last \in BOOLEAN,
             CallUpdateDocument(q, p, hasBytes, last)
      PROVE  Shape
  BY <1>8, UpdateDocumentShape
<1>9. ASSUME NEW p \in ProxyID, CallMarkReconcileAttempt(p)
      PROVE  Shape
  BY <1>9, MarkReconcileAttemptShape
<1>10. CASE CallCleanupExpired
  BY <1>10 DEF Shape
<1>11. CASE Tick
  <2>1. now \in Nat /\ now' = now + 1 /\ UNCHANGED <<rows, lastID>>
    BY <1>11 DEF Tick, IInv, TypeOK
  <2>2. now' \in Nat
    BY <2>1
  <2> QED BY <2>1, <2>2 DEF Shape, Quiet
<1> QED
  BY <1>1, <1>2, <1>3, <1>4, <1>5, <1>6, <1>7, <1>8, <1>9, <1>10, <1>11 DEF Next

-----------------------------------------------------------------------------
(* The inductive invariant.                                                *)

\* It holds in the empty table.
LEMMA InitInv == Init => IInv
<1> SUFFICES ASSUME Init PROVE IInv
  OBVIOUS
<1>1. TypeOK
  BY NoRowOK, MaxJobsAssumption DEF Init, TypeOK
<1>2. Bookkeeping
  BY NoRowOK DEF Init, Bookkeeping, Present, NoRow
<1>3. UniqueMapping
  BY DEF Init, UniqueMapping, Present, NoRow
<1> QED BY <1>1, <1>2, <1>3 DEF IInv

\* The number a reservation takes, and the order of numbers.
LEMMA NextID ==
  ASSUME NEW n \in 0..MaxJobs, n < MaxJobs
  PROVE  /\ n \in Nat /\ n + 1 \in ProxyID /\ n + 1 \in 0..MaxJobs /\ ~(n + 1 <= n)
         /\ \A p \in ProxyID : p <= n \/ p = n + 1 => p <= n + 1
         /\ \A p \in ProxyID : p # n + 1 => ((p <= n + 1) <=> (p <= n))
  BY MaxJobsAssumption DEF ProxyID

\* A reservation preserves it: the new number has no row, and the new row no mapping.
LEMMA ReserveInv ==
  ASSUME IInv, NEW q \in Queues, NEW user \in Users \cup {""}, NEW name \in Names \cup {""},
         CallReserve(q, user, name)
  PROVE  IInv'
<1> DEFINE n == lastID + 1
           s == [NoRow EXCEPT !.state = "reserved", !.queue = q, !.user = user, !.name = name]
<1>a. lastID \in 0..MaxJobs /\ lastID < MaxJobs /\ lastID' = n
  BY DEF IInv, TypeOK, CallReserve
<1>b. lastID \in Nat /\ lastID' = n /\ n \in ProxyID /\ n \in 0..MaxJobs
  BY <1>a, NextID
<1>c. rows' = [rows EXCEPT ![n] = s] /\ now' = now
  BY DEF CallReserve, Reserve
<1>1. /\ lastID \in Nat /\ lastID' = n /\ n \in ProxyID /\ n \in 0..MaxJobs
      /\ rows' = [rows EXCEPT ![n] = s] /\ now' = now
  BY <1>b, <1>c
<1>2. s \in Row /\ RowInv(s) /\ s.upstreamID = NoID
  BY ReservedRowOK DEF NoRow
<1> HIDE DEF s
<1>3. TypeOK'
  BY <1>1, <1>2 DEF IInv, TypeOK
<1>4. Bookkeeping'
  <2>1. \A p \in ProxyID : RowInv(rows'[p])
    BY <1>1, <1>2 DEF IInv, TypeOK, Bookkeeping
  <2>2. ASSUME NEW p \in ProxyID, Present(rows', p)
        PROVE  p <= lastID'
    <3>1. p # n => Present(rows, p)
      BY <1>1, <2>2 DEF IInv, TypeOK, Present
    <3>2. p # n => p <= lastID
      BY <3>1 DEF IInv, Bookkeeping
    <3> QED BY <1>a, <3>2, NextID
  <2> QED BY <2>1, <2>2 DEF Bookkeeping, Present
<1>5. UniqueMapping'
  BY <1>1, <1>2 DEF IInv, TypeOK, UniqueMapping, Present
<1> QED BY <1>3, <1>4, <1>5 DEF IInv

\* A change of one row preserves it.
LEMMA PutInv ==
  ASSUME IInv, NEW p \in ProxyID, NEW s \in Row, Put(p, s)
  PROVE  IInv'
<1>1. /\ Present(rows, p) /\ RowInv(s)
      /\ rows' = [rows EXCEPT ![p] = s] /\ lastID' = lastID /\ now' = now
  BY DEF Put
<1>2. TypeOK'
  BY <1>1 DEF IInv, TypeOK
<1>3. Bookkeeping'
  BY <1>1 DEF IInv, TypeOK, Bookkeeping, Present
<1>4. UniqueMapping'
  <2>1. /\ s.queue = rows[p].queue
        /\ s.upstreamID # NoID =>
             \A o \in ProxyID \ {p} :
               Found(rows, rows[p].queue, o) => rows[o].upstreamID # s.upstreamID
    <3>1. CASE Binds(p, s)
      BY <3>1 DEF Binds
    <3>2. CASE Keeps(rows[p], s)
      BY <1>1, <3>2 DEF IInv, UniqueMapping, Keeps, Found
    <3> QED BY <3>1, <3>2 DEF Put, Doubts, Closes, Notes
  <2> QED BY <1>1, <2>1 DEF IInv, TypeOK, UniqueMapping, Found, Present
<1> QED BY <1>2, <1>3, <1>4 DEF IInv

\* Retention preserves it.
LEMMA CleanupInv ==
  ASSUME IInv, CallCleanupExpired
  PROVE  IInv'
<1>1. /\ rows' = [p \in ProxyID |-> IF Expired(rows[p], now) THEN NoRow ELSE rows[p]]
      /\ lastID' = lastID /\ now' = now
  BY DEF CallCleanupExpired, CleanupExpired
<1>2. TypeOK'
  BY <1>1, NoRowOK DEF IInv, TypeOK
<1>3. Bookkeeping'
  BY <1>1, NoRowOK DEF IInv, Bookkeeping, Present, NoRow
<1>4. UniqueMapping'
  BY <1>1 DEF IInv, UniqueMapping, Present, NoRow
<1> QED BY <1>2, <1>3, <1>4 DEF IInv

\* A step that leaves the table alone preserves it.
LEMMA QuietInv ==
  ASSUME IInv, Quiet
  PROVE  IInv'
  BY DEF IInv, Quiet, TypeOK, Bookkeeping, UniqueMapping, Present

\* Every step preserves it.
LEMMA StepInv ==
  ASSUME IInv, [Next]_vars
  PROVE  IInv'
<1>1. Shape
  BY StepShape
<1> QED BY <1>1, ReserveInv, PutInv, CleanupInv, QuietInv DEF Shape

\* IInv is an invariant of the registry.
THEOREM Invariance == Spec => []IInv
<1>1. Init => IInv
  BY InitInv
<1>2. IInv /\ [Next]_vars => IInv'
  BY StepInv
<1> QED BY <1>1, <1>2, PTL DEF Spec

-----------------------------------------------------------------------------
(* The safety properties.                                                  *)

\* Type correctness.
THEOREM TypeCorrect == Spec => []TypeOK
  BY Invariance, PTL DEF IInv

\* No two remembered jobs of a queue share an upstream job number (markMapped).
THEOREM MappingsAreUnique == Spec => []UniqueMapping
  BY Invariance, PTL DEF IInv

\* A row has reconciliation clocks exactly while it is uncertain.
THEOREM ClocksCorrect == Spec => []ClocksFollowUncertainty
<1>1. IInv => ClocksFollowUncertainty
  BY DEF IInv, Bookkeeping, RowInv, ClocksFollowUncertainty
<1> QED BY <1>1, Invariance, PTL

\* A row has a retention stamp exactly when it is terminal.
THEOREM StampsCorrect == Spec => []StampFollowsTerminal
<1>1. IInv => StampFollowsTerminal
  BY DEF IInv, Bookkeeping, RowInv, StampFollowsTerminal
<1> QED BY <1>1, Invariance, PTL

\* The delay to the next attempt stays between the initial and the maximal backoff.
THEOREM BackoffCorrect == Spec => []BackoffBounded
<1>1. IInv => BackoffBounded
  BY DEF IInv, Bookkeeping, RowInv, BackoffBounded
<1> QED BY <1>1, Invariance, PTL

\* The only row a reservation touches is that of a number nobody has seen.
LEMMA ReserveIsFresh ==
  ASSUME IInv, NEW q \in Queues, NEW user \in Users \cup {""}, NEW name \in Names \cup {""},
         CallReserve(q, user, name)
  PROVE  /\ lastID + 1 \in ProxyID /\ rows[lastID + 1] = NoRow
         /\ \A p \in ProxyID : p # lastID + 1 => rows'[p] = rows[p]
         /\ \A p \in ProxyID : p <= lastID => p # lastID + 1
<1>1. lastID \in 0..MaxJobs /\ lastID < MaxJobs
  BY DEF IInv, TypeOK, CallReserve
<1>2. lastID + 1 \in ProxyID /\ ~(lastID + 1 <= lastID)
  BY <1>1, NextID
<1>3. rows[lastID + 1].state = "absent"
  BY <1>2 DEF IInv, Bookkeeping, Present
<1>4. rows[lastID + 1] = NoRow
  BY <1>2, <1>3 DEF IInv, Bookkeeping, RowInv
<1>5. \A p \in ProxyID : p # lastID + 1 => rows'[p] = rows[p]
  BY DEF CallReserve, Reserve, IInv, TypeOK
<1> QED BY <1>2, <1>4, <1>5

\* Terminal rows stay terminal, keep mapping and stamp, and go only by retention.
LEMMA StepKeepsTerminal ==
  ASSUME IInv, [Next]_vars
  PROVE  KeepsTerminal
<1> SUFFICES ASSUME NEW p \in ProxyID, IsTerminalState(rows[p].state)
             PROVE  \/ /\ IsTerminalState(rows'[p].state)
                       /\ rows'[p].terminalAt = rows[p].terminalAt
                       /\ rows'[p].upstreamID = rows[p].upstreamID
                    \/ /\ rows'[p] = NoRow
                       /\ rows[p].terminalAt + Retention < now
  BY DEF KeepsTerminal
<1>1. /\ rows[p] \in Row /\ Present(rows, p) /\ p <= lastID
      /\ rows[p].terminalAt # NoTime /\ now \in Nat
  BY DEF IInv, TypeOK, Bookkeeping, RowInv, Present, IsTerminalState, TerminalStates
<1>2. ASSUME NEW q \in Queues, NEW user \in Users \cup {""}, NEW name \in Names \cup {""},
             CallReserve(q, user, name)
      PROVE  rows'[p] = rows[p]
  BY <1>1, <1>2, ReserveIsFresh
<1>3. ASSUME NEW o \in ProxyID, NEW s \in Row, Put(o, s)
      PROVE  /\ IsTerminalState(rows'[p].state)
             /\ rows'[p].terminalAt = rows[p].terminalAt
             /\ rows'[p].upstreamID = rows[p].upstreamID
  <2>1. rows' = [rows EXCEPT ![o] = s] /\ rows \in [ProxyID -> Row]
    BY <1>3 DEF Put, IInv, TypeOK
  <2>2. CASE o # p
    BY <2>1, <2>2
  <2>3. CASE o = p
    BY <1>1, <1>3, <2>1, <2>3 DEF Put, Binds, Doubts, Closes, Notes, Keeps
  <2> QED BY <2>2, <2>3
<1>4. CASE CallCleanupExpired
  <2>1. rows'[p] = IF Expired(rows[p], now) THEN NoRow ELSE rows[p]
    BY <1>4 DEF CallCleanupExpired, CleanupExpired
  <2>2. rows[p].terminalAt \in Nat
    BY <1>1 DEF Row
  <2>3. Expired(rows[p], now) => rows[p].terminalAt + Retention < now
    BY <1>1, <2>2, TimesAssumption DEF Expired
  <2> QED BY <2>1, <2>3
<1>5. CASE Quiet
  BY <1>5 DEF Quiet
<1> QED BY <1>2, <1>3, <1>4, <1>5, StepShape DEF Shape

\* Terminal is absorbing until the retention period is over.
THEOREM TerminalFinality == Spec => TerminalIsFinal
<1>1. IInv /\ [Next]_vars => [KeepsTerminal]_vars
  BY StepKeepsTerminal
<1> QED BY <1>1, Invariance, PTL DEF Spec, TerminalIsFinal

\* Mappings are stable and deleted job numbers stay deleted.
LEMMA StepKeepsMapping ==
  ASSUME IInv, [Next]_vars
  PROVE  KeepsMapping
<1> SUFFICES ASSUME NEW p \in ProxyID
             PROVE  /\ rows[p].upstreamID # NoID =>
                         rows'[p].upstreamID = rows[p].upstreamID \/ rows'[p] = NoRow
                    /\ p <= lastID /\ ~Present(rows, p) => ~Present(rows', p)
  BY DEF KeepsMapping
<1>1. ASSUME NEW q \in Queues, NEW user \in Users \cup {""}, NEW name \in Names \cup {""},
             CallReserve(q, user, name)
      PROVE  (rows[p].upstreamID # NoID \/ p <= lastID) => rows'[p] = rows[p]
  <2>1. NoRow.upstreamID = NoID
    BY DEF NoRow
  <2> QED BY <1>1, <2>1, ReserveIsFresh
<1>2. ASSUME NEW o \in ProxyID, NEW s \in Row, Put(o, s)
      PROVE  /\ rows[p].upstreamID # NoID => rows'[p].upstreamID = rows[p].upstreamID
             /\ ~Present(rows, p) => rows'[p] = rows[p]
  <2>1. rows' = [rows EXCEPT ![o] = s] /\ rows \in [ProxyID -> Row] /\ Present(rows, o)
    BY <1>2 DEF Put, IInv, TypeOK
  <2>2. CASE o # p
    BY <2>1, <2>2
  <2>3. CASE o = p
    BY <1>2, <2>1, <2>3 DEF Put, Binds, Doubts, Closes, Notes, Keeps
  <2> QED BY <2>2, <2>3
<1>3. CASE CallCleanupExpired
  BY <1>3 DEF CallCleanupExpired, CleanupExpired, Present, NoRow
<1>4. CASE Quiet
  BY <1>4 DEF Quiet
<1> QED BY <1>1, <1>2, <1>3, <1>4, StepShape DEF Shape, Present

\* A job stays bound to the printer job it was bound to.
THEOREM MappingStability == Spec => MappingIsStable
<1>1. IInv /\ [Next]_vars => [KeepsMapping]_vars
  BY StepKeepsMapping
<1> QED BY <1>1, Invariance, PTL DEF Spec, MappingIsStable

-----------------------------------------------------------------------------
(* Refinement: every registry call is a step of the ledger.                *)

stageNow == [p \in ProxyID |-> StageOf(rows[p], p <= lastID)]
homeNow  == [p \in ProxyID |-> rows[p].queue]
boundNow == [p \in ProxyID |-> rows[p].upstreamID]

\* What the stage of a row can be.
LEMMA StageFacts ==
  ASSUME NEW r \in Row, NEW allocated
  PROVE  /\ r.state \in {"reserved", "mapped", "uncertain"} => StageOf(r, allocated) = r.state
         /\ IsTerminalState(r.state) => StageOf(r, allocated) = "terminal"
         /\ r.state = "absent" =>
              StageOf(r, allocated) = IF allocated THEN "forgotten" ELSE "free"
         /\ ~IsTerminalState(r.state) /\ r.state # "absent" =>
              r.state \in {"reserved", "mapped", "uncertain"}
  BY DEF StageOf, Row, IsTerminalState, TerminalStates

\* The empty table is the empty ledger.
LEMMA LedgerInit == Init => Ledger!Init
<1> SUFFICES ASSUME Init PROVE Ledger!Init
  OBVIOUS
<1>1. \A p \in ProxyID : rows[p] = NoRow /\ ~(p <= lastID)
  BY MaxJobsAssumption DEF Init, ProxyID
<1>2. \A p \in ProxyID : StageOf(rows[p], p <= lastID) = "free"
  <2>1. NoRow.state = "absent"
    BY DEF NoRow
  <2>2. ASSUME NEW p \in ProxyID PROVE StageOf(NoRow, p <= lastID) = "free"
    BY <1>1, <2>1 DEF StageOf, IsTerminalState, TerminalStates
  <2> QED BY <1>1, <2>2
<1>3. NoRow.queue = "" /\ NoRow.upstreamID = 0
  BY DEF NoRow, NoID
<1> QED BY <1>1, <1>2, <1>3 DEF Ledger!Init

\* Reserve submits.
LEMMA ReserveSubmits ==
  ASSUME IInv, NEW q \in Queues, NEW user \in Users \cup {""}, NEW name \in Names \cup {""},
         CallReserve(q, user, name)
  PROVE  Ledger!Next
<1> DEFINE n == lastID + 1
<1>1. /\ n \in ProxyID /\ rows[n] = NoRow
      /\ \A p \in ProxyID : p # n => rows'[p] = rows[p]
  BY ReserveIsFresh
<1>2. /\ rows'[n].state = "reserved" /\ rows'[n].queue = q
      /\ rows'[n].upstreamID = NoID
  BY <1>1 DEF CallReserve, Reserve, IInv, TypeOK, NoRow
<1>3. /\ lastID \in 0..MaxJobs /\ lastID < MaxJobs /\ lastID' = n
  BY DEF IInv, TypeOK, CallReserve
<1>4. ~(n <= lastID)
  BY <1>3, NextID
<1>5. \A p \in ProxyID : p # n => ((p <= lastID') <=> (p <= lastID))
  BY <1>3, NextID
<1>6. NoRow.state = "absent" /\ NoRow.upstreamID = NoID
  BY DEF NoRow
<1>7. StageOf(rows[n], n <= lastID) = "free"
  BY <1>1, <1>4, <1>6 DEF StageOf, IsTerminalState, TerminalStates
<1>8. StageOf(rows'[n], n <= lastID') = "reserved"
  BY <1>2 DEF StageOf, IsTerminalState, TerminalStates
<1>9. \A p \in ProxyID : p # n =>
        StageOf(rows'[p], p <= lastID') = StageOf(rows[p], p <= lastID)
  BY <1>1, <1>5 DEF StageOf
<1>10. stageNow' = [stageNow EXCEPT ![n] = "reserved"]
  BY <1>8, <1>9 DEF stageNow
<1>11. homeNow' = [homeNow EXCEPT ![n] = q]
  BY <1>1, <1>2 DEF homeNow
<1>12. boundNow' = boundNow
  BY <1>1, <1>2, <1>6 DEF boundNow
<1>13. Ledger!Submit(n, q)
  BY <1>1, <1>7, <1>10, <1>11, <1>12 DEF Ledger!Submit, stageNow, homeNow, boundNow
<1> QED BY <1>1, <1>13 DEF Ledger!Next

\* A change of one row binds, doubts, concludes, or cannot be seen in the ledger.
LEMMA PutLedger ==
  ASSUME IInv, NEW p \in ProxyID, NEW s \in Row, Put(p, s)
  PROVE  Ledger!Next \/ UNCHANGED <<stageNow, homeNow, boundNow>>
<1> DEFINE a == p <= lastID
<1>1. /\ rows \in [ProxyID -> Row] /\ rows[p] \in Row /\ rows[p].state # "absent"
      /\ rows' = [rows EXCEPT ![p] = s] /\ lastID' = lastID
  BY DEF Put, IInv, TypeOK, Present
<1>2. s.queue = rows[p].queue
  BY DEF Put, Binds, Doubts, Closes, Notes, Keeps
<1>3. stageNow' = [stageNow EXCEPT ![p] = StageOf(s, a)]
  BY <1>1 DEF stageNow
<1>4. homeNow' = homeNow
  BY <1>1, <1>2 DEF homeNow
<1>5. boundNow' = [boundNow EXCEPT ![p] = s.upstreamID]
  BY <1>1 DEF boundNow
<1>6. /\ stageNow[p] = StageOf(rows[p], a) /\ boundNow[p] = rows[p].upstreamID
      /\ stageNow = [o \in ProxyID |-> stageNow[o]]
      /\ boundNow = [o \in ProxyID |-> boundNow[o]]
  BY DEF stageNow, boundNow
<1>7. ~IsTerminalState(rows[p].state) =>
        StageOf(rows[p], a) \in {"reserved", "mapped", "uncertain"}
  BY <1>1, StageFacts
<1>8. CASE Binds(p, s)
  <2> DEFINE u == s.upstreamID
  <2>1. StageOf(s, a) = "mapped"
    BY <1>8, StageFacts DEF Binds
  <2>2. u \in UpstreamID /\ boundNow[p] \in {0, u} /\ Ledger!Open(p)
    BY <1>6, <1>7, <1>8 DEF Binds, NoID, Ledger!Open, stageNow
  <2>3. ASSUME NEW o \in ProxyID \ {p}, stageNow[o] \notin {"free", "forgotten"},
               homeNow[o] = homeNow[p]
        PROVE  boundNow[o] # u
    <3>1. rows[o] \in Row /\ rows[o].queue = rows[p].queue
      BY <1>1, <2>3 DEF homeNow
    <3>2. rows[o].state # "absent"
      BY <2>3, <3>1, StageFacts DEF stageNow
    <3> QED BY <1>8, <3>1, <3>2 DEF Binds, Found, Present, boundNow
  <2>4. Ledger!Bind(p, u)
    BY <1>3, <1>4, <1>5, <2>1, <2>2, <2>3
    DEF Ledger!Bind, Ledger!Open, stageNow, homeNow, boundNow
  <2> QED BY <2>2, <2>4 DEF Ledger!Next
<1>9. CASE Keeps(rows[p], s)
  <2>1. boundNow' = boundNow
    BY <1>5, <1>6, <1>9 DEF Keeps
  <2>2. CASE Doubts(rows[p], s)
    <3>1. StageOf(s, a) = "uncertain" /\ Ledger!Open(p)
      BY <1>6, <1>7, <2>2, StageFacts DEF Doubts, Ledger!Open, stageNow
    <3>2. Ledger!Doubt(p)
      BY <1>3, <1>4, <2>1, <3>1 DEF Ledger!Doubt, stageNow, homeNow, boundNow
    <3> QED BY <3>2 DEF Ledger!Next
  <2>3. CASE Closes(rows[p], s) /\ ~IsTerminalState(rows[p].state)
    <3>1. StageOf(s, a) = "terminal" /\ Ledger!Open(p)
      BY <1>6, <1>7, <2>3, StageFacts DEF Closes, Ledger!Open, stageNow
    <3>2. Ledger!Conclude(p)
      BY <1>3, <1>4, <2>1, <3>1 DEF Ledger!Conclude, stageNow, homeNow, boundNow
    <3> QED BY <3>2 DEF Ledger!Next
  <2>4. CASE Closes(rows[p], s) /\ IsTerminalState(rows[p].state)
    <3>1. StageOf(s, a) = StageOf(rows[p], a)
      BY <1>1, <2>4, StageFacts DEF Closes
    <3> QED BY <1>3, <1>4, <1>6, <2>1, <3>1
  <2>5. CASE Notes(rows[p], s)
    <3>1. StageOf(s, a) = StageOf(rows[p], a)
      BY <2>5 DEF Notes, StageOf
    <3> QED BY <1>3, <1>4, <1>6, <2>1, <3>1
  <2>6. CASE Binds(p, s)
    BY <1>8, <2>6
  <2> QED BY <2>2, <2>3, <2>4, <2>5, <2>6 DEF Put
<1> QED BY <1>8, <1>9 DEF Put, Doubts, Closes, Notes

\* The retention sweep forgets.
LEMMA CleanupForgets ==
  ASSUME IInv, CallCleanupExpired
  PROVE  Ledger!Next
<1> DEFINE S == {p \in ProxyID : Expired(rows[p], now)}
<1>1. /\ \A p \in ProxyID : rows'[p] = IF p \in S THEN NoRow ELSE rows[p]
      /\ lastID' = lastID /\ rows \in [ProxyID -> Row]
  BY DEF CallCleanupExpired, CleanupExpired, IInv, TypeOK
<1>2. \A p \in S : IsTerminalState(rows[p].state) /\ p <= lastID
  BY DEF Expired, IInv, Bookkeeping, Present, IsTerminalState, TerminalStates
<1>3. NoRow.state = "absent" /\ NoRow.queue = "" /\ NoRow.upstreamID = 0
  BY DEF NoRow, NoID
<1> HIDE DEF S
<1>4. S \in SUBSET ProxyID
  BY DEF S
<1>5. \A p \in S : stageNow[p] = "terminal"
  BY <1>1, <1>2, <1>4, StageFacts DEF stageNow
<1>6. \A p \in ProxyID : StageOf(rows'[p], p <= lastID') =
                             IF p \in S THEN "forgotten" ELSE stageNow[p]
  <2>1. ASSUME NEW p \in S PROVE StageOf(rows'[p], p <= lastID') = "forgotten"
    BY <1>1, <1>2, <1>3, <1>4 DEF StageOf, IsTerminalState, TerminalStates
  <2>2. ASSUME NEW p \in ProxyID \ S
        PROVE  StageOf(rows'[p], p <= lastID') = stageNow[p]
    BY <1>1 DEF stageNow
  <2> QED BY <2>1, <2>2
<1>7. stageNow' = [p \in ProxyID |-> IF p \in S THEN "forgotten" ELSE stageNow[p]]
  BY <1>6 DEF stageNow
<1>8. homeNow' = [p \in ProxyID |-> IF p \in S THEN "" ELSE homeNow[p]]
  BY <1>1, <1>3 DEF homeNow
<1>9. boundNow' = [p \in ProxyID |-> IF p \in S THEN 0 ELSE boundNow[p]]
  BY <1>1, <1>3 DEF boundNow
<1>10. PICK T \in SUBSET ProxyID : T = S
  BY <1>4
<1>11. Ledger!Forget(T)
  BY <1>5, <1>7, <1>8, <1>9, <1>10 DEF Ledger!Forget, stageNow, homeNow, boundNow
<1> QED BY <1>11 DEF Ledger!Next

\* Every step of the registry is a step of the ledger or invisible in it.
LEMMA LedgerStep ==
  ASSUME IInv, [Next]_vars
  PROVE  [Ledger!Next]_Ledger!ledger
<1>1. UNCHANGED <<stageNow, homeNow, boundNow>> => UNCHANGED Ledger!ledger
  BY DEF Ledger!ledger, stageNow, homeNow, boundNow
<1>2. Quiet => UNCHANGED <<stageNow, homeNow, boundNow>>
  BY DEF Quiet, stageNow, homeNow, boundNow
<1> QED BY <1>1, <1>2, StepShape, ReserveSubmits, PutLedger, CleanupForgets DEF Shape

\* The registry implements the ledger.
THEOREM Refinement == Spec => ImplementsLedger
<1>1. Init => Ledger!Init
  BY LedgerInit
<1>2. IInv /\ [Next]_vars => [Ledger!Next]_Ledger!ledger
  BY LedgerStep
<1> QED BY <1>1, <1>2, Invariance, PTL DEF Spec, ImplementsLedger, Ledger!Spec
=============================================================================
