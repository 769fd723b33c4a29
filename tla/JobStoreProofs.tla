-------------------------- MODULE JobStoreProofs ----------------------------
(***************************************************************************)
(* What each registry method does to the table, as lemmas that the proofs  *)
(* about the registry and about the handlers cite.  T is the table before  *)
(* the call.                                                               *)
(***************************************************************************)
EXTENDS JobStore, TLAPS

Tables == [ProxyID -> Row]

\* The call changed row p and nothing else, and row p stays the row of its queue.
Writes(T, p, T2) ==
  /\ T2 \in Tables
  /\ Present(T, p) /\ Present(T2, p)
  /\ T2[p].queue = T[p].queue
  /\ \A o \in ProxyID \ {p} : T2[o] = T[o]

\* The call made a new row p for queue q.
Reserves(T, p, q, T2) ==
  /\ T2 \in Tables
  /\ \A o \in ProxyID \ {p} : T2[o] = T[o]
  /\ T2[p].state = "reserved" /\ T2[p].queue = q /\ T2[p].observed = ""
  /\ T2[p].upstreamID = NoID /\ T2[p].upstreamURI = NoID

SameMapping(r, s) == s.upstreamID = r.upstreamID /\ s.upstreamURI = r.upstreamURI

Doubted(r, s) ==
  /\ SameMapping(r, s) /\ s.observed = r.observed
  /\ ~IsTerminalState(r.state) /\ s.state = "uncertain"

Closed(r, s, state, observed) ==
  SameMapping(r, s) /\ s.state = state /\ s.observed = observed

Noted(r, s) ==
  SameMapping(r, s) /\ s.state = r.state /\ s.observed \in {r.observed, "active"}

Bound(r, s, id, uri) ==
  /\ ~IsTerminalState(r.state) /\ s.state = "mapped" /\ s.observed = r.observed
  /\ s.upstreamID = id /\ s.upstreamURI = uri

-----------------------------------------------------------------------------
\* The states of a row are strings of a known set, and no open state is terminal.
LEMMA OpenStates ==
  /\ ~IsTerminalState("absent") /\ ~IsTerminalState("reserved")
  /\ ~IsTerminalState("mapped") /\ ~IsTerminalState("uncertain")
  /\ ~IsTerminalState("active") /\ ~IsTerminalState("")
  /\ IsTerminalState("terminal") /\ IsTerminalState("failed")
  BY DEF IsTerminalState, TerminalStates

\* The blank row is a row.
LEMMA BlankRow ==
  /\ NoRow \in Row /\ NoRow.state = "absent" /\ NoRow.queue = "" /\ NoRow.observed = ""
  /\ NoRow.upstreamID = NoID /\ NoRow.upstreamURI = NoID
  BY DEF NoRow, Row, NoTime, NoID, ObservedStates, TerminalStates

\* Reserve writes a new row and leaves the others alone.
LEMMA ReserveEffect ==
  ASSUME NEW T \in Tables, NEW p \in ProxyID, NEW q \in Queues,
         NEW user \in Users \cup {""}, NEW name \in Names \cup {""}
  PROVE  Reserves(T, p, q, Reserve(T, p, q, user, name))
<1> DEFINE T2 == Reserve(T, p, q, user, name)
           s == [NoRow EXCEPT !.state = "reserved", !.queue = q, !.user = user, !.name = name]
<1>1. s \in Row
  BY DEF NoRow, Row, NoTime, NoID, ObservedStates, TerminalStates
<1>2. /\ s.state = "reserved" /\ s.queue = q /\ s.observed = ""
      /\ s.upstreamID = NoID /\ s.upstreamURI = NoID
  BY DEF NoRow
<1>3. T2 = [T EXCEPT ![p] = s]
  BY DEF Reserve
<1> HIDE DEF s
<1> QED BY <1>1, <1>2, <1>3 DEF Tables, Reserves

\* UpdateDocument notes a document on the row it finds.
LEMMA UpdateDocumentEffect ==
  ASSUME NEW T \in Tables, NEW q, NEW p \in ProxyID,
         NEW hasBytes \in BOOLEAN, NEW last \in BOOLEAN
  PROVE  LET T2 == UpdateDocument(T, q, p, hasBytes, last) IN
         IF Found(T, q, p) THEN Writes(T, p, T2) /\ Noted(T[p], T2[p]) ELSE T2 = T
<1> DEFINE T2 == UpdateDocument(T, q, p, hasBytes, last)
           n == T[p].documents + (IF hasBytes THEN 1 ELSE 0)
           l == IF last THEN TRUE ELSE T[p].lastDocument
           s == [T[p] EXCEPT !.documents = n, !.lastDocument = l]
<1>1. CASE Found(T, q, p)
  <2>1. T[p] \in Row /\ T[p].state # "absent"
    BY <1>1 DEF Tables, Found, Present
  <2>2. T[p].documents \in Nat
    BY <2>1 DEF Row
  <2>3. n \in Nat
    BY <2>2
  <2>4. l \in BOOLEAN
    BY <2>1 DEF Row
  <2> HIDE DEF n, l
  <2>5. s \in Row /\ s.state = T[p].state /\ s.queue = T[p].queue /\ s.observed = T[p].observed
        /\ s.upstreamID = T[p].upstreamID /\ s.upstreamURI = T[p].upstreamURI
    BY <2>1, <2>3, <2>4 DEF Row
  <2>6. T2 = [T EXCEPT ![p] = s]
    BY <1>1 DEF UpdateDocument, n, l
  <2> HIDE DEF s
  <2>7. Writes(T, p, T2) /\ T2[p] = s
    BY <2>1, <2>5, <2>6 DEF Writes, Tables, Present
  <2> QED BY <1>1, <2>5, <2>7 DEF Noted, SameMapping
<1>2. CASE ~Found(T, q, p)
  BY <1>2 DEF UpdateDocument
<1> QED BY <1>1, <1>2

\* markMapped binds an open row, or fails and changes nothing.
LEMMA MarkMappedEffect ==
  ASSUME NEW T \in Tables, NEW q, NEW p \in ProxyID, NEW id \in Nat, NEW uri \in Nat
  PROVE  LET T2 == MarkMapped(T, q, p, id, uri) IN
         IF MarkMappedOK(T, q, p, id, uri)
         THEN Writes(T, p, T2) /\ Bound(T[p], T2[p], id, uri) ELSE T2 = T
<1> DEFINE T2 == MarkMapped(T, q, p, id, uri)
           s == [T[p] EXCEPT !.upstreamID = id, !.upstreamURI = uri, !.state = "mapped",
                             !.reconcileAt = NoTime, !.nextAt = NoTime]
<1>1. CASE MarkMappedOK(T, q, p, id, uri)
  <2>1. T[p] \in Row /\ T[p].state # "absent" /\ ~IsTerminalState(T[p].state)
    BY <1>1 DEF Tables, MarkMappedOK, Found, Present
  <2>2. s \in Row /\ s.state = "mapped" /\ s.queue = T[p].queue /\ s.observed = T[p].observed
        /\ s.upstreamID = id /\ s.upstreamURI = uri
    BY <2>1 DEF Row, NoTime
  <2>3. T2 = [T EXCEPT ![p] = s]
    BY <1>1 DEF MarkMapped
  <2> HIDE DEF s
  <2>4. Writes(T, p, T2) /\ T2[p] = s
    BY <2>1, <2>2, <2>3 DEF Writes, Tables, Present
  <2> QED BY <1>1, <2>1, <2>2, <2>4 DEF Bound
<1>2. CASE ~MarkMappedOK(T, q, p, id, uri)
  BY <1>2 DEF MarkMapped
<1> QED BY <1>1, <1>2

\* MarkUncertain puts an open row in doubt.
LEMMA MarkUncertainEffect ==
  ASSUME NEW T \in Tables, NEW q, NEW p \in ProxyID, NEW t \in Nat
  PROVE  LET T2 == MarkUncertain(T, q, p, t) IN
         IF Found(T, q, p) /\ ~IsTerminalState(T[p].state)
         THEN Writes(T, p, T2) /\ Doubted(T[p], T2[p]) ELSE T2 = T
<1> DEFINE T2 == MarkUncertain(T, q, p, t)
           s == [T[p] EXCEPT !.state = "uncertain", !.reconcileAt = t, !.nextAt = t]
           open == Found(T, q, p) /\ ~IsTerminalState(T[p].state)
<1>1. CASE open
  <2>1. T[p] \in Row /\ T[p].state # "absent" /\ ~IsTerminalState(T[p].state)
    BY <1>1 DEF Tables, Found, Present
  <2>2. s \in Row /\ s.state = "uncertain" /\ s.queue = T[p].queue /\ s.observed = T[p].observed
        /\ s.upstreamID = T[p].upstreamID /\ s.upstreamURI = T[p].upstreamURI
    BY <2>1 DEF Row
  <2>3. T2 = [T EXCEPT ![p] = s]
    BY <1>1 DEF MarkUncertain
  <2> HIDE DEF s
  <2>4. Writes(T, p, T2) /\ T2[p] = s
    BY <2>1, <2>2, <2>3 DEF Writes, Tables, Present
  <2> QED BY <1>1, <2>1, <2>2, <2>4 DEF Doubted, SameMapping
<1>2. CASE ~open
  BY <1>2 DEF MarkUncertain
<1> QED BY <1>1, <1>2

\* What MarkTerminal and UpdateState have in common: they close the row they find.
Close(T, q, p, state, observed, t) ==
  IF Found(T, q, p)
  THEN [T EXCEPT ![p] = [@ EXCEPT
          !.state = state, !.observed = observed,
          !.terminalAt = StampedAt(T[p], t),
          !.reconcileAt = NoTime, !.nextAt = NoTime]]
  ELSE T

\* The row that Close writes keeps its mapping.
LEMMA CloseEffect ==
  ASSUME NEW T \in Tables, NEW q, NEW p \in ProxyID, NEW t \in Nat,
         NEW state \in TerminalStates, NEW observed \in ObservedStates
  PROVE  LET T2 == Close(T, q, p, state, observed, t) IN
         IF Found(T, q, p)
         THEN Writes(T, p, T2) /\ Closed(T[p], T2[p], state, observed) ELSE T2 = T
<1> DEFINE T2 == Close(T, q, p, state, observed, t)
           s == [T[p] EXCEPT !.state = state, !.observed = observed,
                             !.terminalAt = StampedAt(T[p], t),
                             !.reconcileAt = NoTime, !.nextAt = NoTime]
<1>1. CASE Found(T, q, p)
  <2>1. T[p] \in Row /\ T[p].state # "absent"
    BY <1>1 DEF Tables, Found, Present
  <2>2. StampedAt(T[p], t) \in Nat
    BY <2>1 DEF StampedAt, Row, NoTime
  <2>3. s \in Row /\ s.state = state /\ s.queue = T[p].queue /\ s.observed = observed
        /\ s.upstreamID = T[p].upstreamID /\ s.upstreamURI = T[p].upstreamURI
    BY <2>1, <2>2 DEF Row
  <2>4. state # "absent"
    BY DEF TerminalStates
  <2>5. T2 = [T EXCEPT ![p] = s]
    BY <1>1 DEF Close
  <2> HIDE DEF s
  <2>6. Writes(T, p, T2) /\ T2[p] = s
    BY <2>1, <2>3, <2>4, <2>5 DEF Writes, Tables, Present
  <2> QED BY <1>1, <2>3, <2>6 DEF Closed, SameMapping
<1>2. CASE ~Found(T, q, p)
  BY <1>2 DEF Close
<1> QED BY <1>1, <1>2

\* MarkTerminal closes the row it finds under the generic state.
LEMMA MarkTerminalEffect ==
  ASSUME NEW T \in Tables, NEW q, NEW p \in ProxyID, NEW t \in Nat,
         NEW observed \in ObservedStates
  PROVE  LET T2 == MarkTerminal(T, q, p, observed, t) IN
         IF Found(T, q, p)
         THEN Writes(T, p, T2) /\ Closed(T[p], T2[p], "terminal", observed) ELSE T2 = T
<1>1. "terminal" \in TerminalStates
  BY DEF TerminalStates
<1>2. MarkTerminal(T, q, p, observed, t) = Close(T, q, p, "terminal", observed, t)
  BY DEF MarkTerminal, Close
<1> QED BY <1>1, <1>2, CloseEffect

\* UpdateState closes it under the given one.
LEMMA UpdateStateEffect ==
  ASSUME NEW T \in Tables, NEW q, NEW p \in ProxyID, NEW t \in Nat,
         NEW state \in TerminalStates
  PROVE  LET T2 == UpdateState(T, q, p, state, t) IN
         IF Found(T, q, p)
         THEN Writes(T, p, T2) /\ Closed(T[p], T2[p], state, state) ELSE T2 = T
<1>1. state \in ObservedStates
  BY DEF ObservedStates
<1>2. UpdateState(T, q, p, state, t) = Close(T, q, p, state, state, t)
  BY DEF UpdateState, Close
<1> QED BY <1>1, <1>2, CloseEffect

\* UpdateObserved notes that the printer is still at work.
LEMMA UpdateObservedEffect ==
  ASSUME NEW T \in Tables, NEW q, NEW p \in ProxyID, NEW t \in Nat
  PROVE  LET T2 == UpdateObserved(T, q, p, "active", t) IN
         T2 = T \/ (Found(T, q, p) /\ Writes(T, p, T2) /\ Noted(T[p], T2[p]))
<1> DEFINE T2 == UpdateObserved(T, q, p, "active", t)
           s == [T[p] EXCEPT !.observed = "active"]
           open == /\ Found(T, q, p)
                   /\ T[p].terminalAt = NoTime
                   /\ ~IsTerminalState(T[p].state)
<1>1. CASE open
  <2>1. T[p] \in Row /\ T[p].state # "absent"
    BY <1>1 DEF Tables, Found, Present
  <2>2. s \in Row /\ s.state = T[p].state /\ s.queue = T[p].queue /\ s.observed = "active"
        /\ s.upstreamID = T[p].upstreamID /\ s.upstreamURI = T[p].upstreamURI
    BY <2>1 DEF Row, ObservedStates
  <2>3. T2 = [T EXCEPT ![p] = s]
    BY <1>1, OpenStates DEF UpdateObserved
  <2> HIDE DEF s
  <2>4. Writes(T, p, T2) /\ T2[p] = s
    BY <2>1, <2>2, <2>3 DEF Writes, Tables, Present
  <2> QED BY <1>1, <2>2, <2>4 DEF Noted, SameMapping
<1>2. CASE ~open
  BY <1>2, OpenStates DEF UpdateObserved
<1> QED BY <1>1, <1>2

\* reconciliationBackoff never leaves its bounds, whatever the old clocks say.
LEMMA BackoffInBounds ==
  ASSUME NEW a \in Nat \cup {NoTime}, NEW b \in Nat \cup {NoTime}
  PROVE  /\ reconciliationBackoff(a, b) \in Nat
         /\ InitialBackoff <= reconciliationBackoff(a, b)
         /\ reconciliationBackoff(a, b) <= MaxBackoff
  BY TimesAssumption DEF reconciliationBackoff, NoTime

\* An attempt only moves the clocks of an uncertain row.
LEMMA MarkReconcileAttemptEffect ==
  ASSUME NEW T \in Tables, NEW p \in ProxyID, NEW t \in Nat
  PROVE  LET T2 == MarkReconcileAttempt(T, p, t) IN
         T2 = T \/ (Writes(T, p, T2) /\ Noted(T[p], T2[p]))
<1> DEFINE T2 == MarkReconcileAttempt(T, p, t)
           d == reconciliationBackoff(T[p].reconcileAt, T[p].nextAt)
           s == [T[p] EXCEPT !.reconcileAt = t, !.nextAt = t + d]
           tried == T[p].state = "uncertain" /\ T[p].terminalAt = NoTime
<1>1. CASE tried
  <2>1. T[p] \in Row /\ T[p].state # "absent"
    BY <1>1 DEF Tables
  <2>2. T[p].reconcileAt \in Nat \cup {NoTime} /\ T[p].nextAt \in Nat \cup {NoTime}
    BY <2>1 DEF Row
  <2>3. d \in Nat
    BY <2>2, BackoffInBounds
  <2> HIDE DEF d
  <2>4. t + d \in Nat
    BY <2>3
  <2>5. s \in Row /\ s.state = T[p].state /\ s.queue = T[p].queue /\ s.observed = T[p].observed
        /\ s.upstreamID = T[p].upstreamID /\ s.upstreamURI = T[p].upstreamURI
    BY <2>1, <2>4 DEF Row
  <2>6. T2 = [T EXCEPT ![p] = s]
    BY <1>1 DEF MarkReconcileAttempt, d
  <2> HIDE DEF s
  <2>7. Writes(T, p, T2) /\ T2[p] = s
    BY <2>1, <2>5, <2>6 DEF Writes, Tables, Present
  <2> QED BY <2>5, <2>7 DEF Noted, SameMapping
<1>2. CASE ~tried
  BY <1>2 DEF MarkReconcileAttempt
<1> QED BY <1>1, <1>2

\* The sweep deletes terminal rows only.
LEMMA CleanupExpiredEffect ==
  ASSUME NEW T \in Tables, NEW t \in Nat
  PROVE  LET T2 == CleanupExpired(T, t) IN
         /\ T2 \in Tables
         /\ \A p \in ProxyID : T2[p] = T[p] \/ (IsTerminalState(T[p].state) /\ T2[p] = NoRow)
  BY BlankRow DEF CleanupExpired, Expired, Tables
=============================================================================
