------------------------- MODULE JobLifecycleProofs -------------------------
(***************************************************************************)
(* Proofs about JobLifecycle for any number of clients, queues and jobs,   *)
(* with every failure the model has.                                       *)
(*                                                                         *)
(* What a handler or the maintenance pass read is stale when it is used.   *)
(* The argument is that what they rely on is stable: a row once mapped     *)
(* keeps its mapping, a job number is never reserved twice, a printer is   *)
(* never again at work on a job it is done with.  Stable states that; each *)
(* part of the invariant survives every stable step, and each action is    *)
(* shown to be one.                                                        *)
(***************************************************************************)
EXTENDS JobLifecycle, JobStoreProofs, FiniteSetTheorems

\* A printer that is done with a job does not take it up again.
Done(j) == j.state \in Finals \cup {"gone"}

\* A submission the registry gave up (MarkTerminal with StateFailed or a status).
Rejected(row) == row.state = "terminal" /\ row.observed \in {"failed", "rejected"}

-----------------------------------------------------------------------------
(* The parts of the inductive invariant.  T stands for the table, n for    *)
(* the last job number, P for the printers and L for the lost jobs.        *)

RowOK(p, r, n, P) ==
  /\ r.state = "absent" => r = NoRow
  /\ r.state # "absent" => p <= n /\ r.queue \in Queues
  /\ r.state = "reserved" => r.upstreamID = NoID
  /\ r.upstreamID = NoID => r.upstreamURI = NoID
  /\ r.upstreamID # NoID =>
       /\ r.upstreamID \in UpstreamID
       /\ P[r.queue][r.upstreamID].state # "none"
       /\ Alike(p, P[r.queue][r.upstreamID].origin)
  /\ r.observed \in Finals => r.upstreamID # NoID /\ Done(P[r.queue][r.upstreamID])

PrinterJobOK(j, T, n) ==
  /\ (j.state = "none") <=> (j.origin = 0)
  /\ j.origin # 0 => j.origin <= n /\ ~Rejected(T[j.origin])

\* A handler that goes by what it once read: row p of queue q, mapped to u.
ReadOK(q, p, u, T, n) ==
  /\ p \in ProxyID /\ p <= n /\ u \in UpstreamID
  /\ T[p].state # "reserved"
  /\ Present(T, p) => T[p].queue = q /\ T[p].upstreamID = u

\* A handler between the reservation of its job and its own return.
Submits(r) == r.op \in {"print", "create"} /\ r.pc \notin {"idle", "staging"}

SubmitterOK(r, T, n, P, L) ==
  /\ r.job \in ProxyID /\ r.job <= n /\ r.id = NoID
  /\ r.pc # "joining"
  /\ Present(T, r.job) => T[r.job].queue = r.queue
  /\ r.pc \in {"sent", "answered", "recorder"} => T[r.job].state = "reserved"
  /\ r.pc = "document" => T[r.job].state # "reserved" \/ r.job \in L
  /\ r.pc \in {"sent", "recorder"} \/ (r.pc = "answered" /\ ~r.answer.ok) =>
       \A q \in Queues, u \in UpstreamID : P[q][u].origin # r.job
  /\ r.pc = "answered" /\ r.answer.ok =>
       IF r.answer.id = NoID THEN PrinterOmitsID
       ELSE P[r.queue][r.answer.id].origin = r.job

\* A handler that works on mapped jobs.
Works(r) == r.op \in {"send", "get", "cancel", "close", "cancelMine"} /\ r.pc # "idle"

WorkerOK(r, T, n, P) ==
  /\ r.pc \notin {"unmapped", "joining"}
  /\ r.pc = "recorder" => r.op = "send"
  /\ r.pc = "document" => r.op = "send"
  /\ ReadOK(r.queue, r.job, r.id, T, n)
  /\ \A x \in r.todo : ReadOK(r.queue, x[1], x[2], T, n)
  /\ /\ r.pc = "answered" /\ r.answer.ok
     /\ r.answer.state \in Finals \/ r.op \in {"cancel", "cancelMine"}
     => Done(P[r.queue][r.id])

ListerOK(r, P) ==
  /\ r.pc \in {"sent", "answered", "joining"}
  /\ r.job = 0 /\ r.id = NoID
  /\ \A u \in UpstreamID : r.answer.list[u] \in Finals => Done(P[r.queue][u])

RequestOK(r, T, n, P, L) ==
  /\ (r.pc = "idle") <=> (r = Idle)
  /\ r.pc # "idle" => r.queue \in Queues /\ r.op # ""
  /\ r.pc = "staging" => r.op = "send" \/ (r.op = "print" /\ r.job = 0 /\ r.id = NoID)
  /\ Submits(r) => SubmitterOK(r, T, n, P, L)
  /\ Works(r) => WorkerOK(r, T, n, P)
  /\ r.op = "list" => ListerOK(r, P)

LateOK(m, T, n) ==
  /\ m.queue \in Queues
  /\ m.op \in {"print", "create"} => m.job \in ProxyID /\ m.job <= n /\ ~Rejected(T[m.job])
  /\ m.op \in {"print", "create"} \/ (m.op \in {"send", "cancel", "close", "cancelMine"} /\ m.id \in UpstreamID)

SnapshotOK(q, j, T, n, P) ==
  /\ j.job <= n
  /\ T[j.job].state # "reserved"
  /\ Present(T, j.job) => T[j.job].queue = q
  /\ IF j.id = NoID THEN j.uri = NoID
     ELSE /\ j.id \in UpstreamID
          /\ P[q][j.id].state # "none"
          /\ Alike(j.job, P[q][j.id].origin)

ListOK(q, list, P) ==
  \A u \in UpstreamID :
    /\ list[u] # "" => P[q][u].state # "none"
    /\ list[u] \in Finals => Done(P[q][u])

MaintenanceOK(M, T, n, P) ==
  /\ \A q \in Queues : \A j \in M.todo[q] : SnapshotOK(q, j, T, n, P)
  /\ M.pc \in {"apply", "match", "sync"} => M.queue \in Queues /\ ListOK(M.queue, M.list, P)
  /\ M.pc \in {"match", "sync"} =>
       M.job \in Snapshots /\ SnapshotOK(M.queue, M.job, T, n, P)
  /\ M.pc = "sync" =>
       /\ M.sync \in UpstreamID
       /\ Present(T, M.job.job) => T[M.job.job].upstreamID = M.sync

\* Nobody else submits a job that a handler is still submitting.
OneSubmitter ==
  /\ \A c, d \in Clients :
       c # d /\ Submits(req[c]) /\ Submits(req[d]) => req[c].job # req[d].job
  /\ \A c \in Clients, m \in late :
       Submits(req[c]) /\ m.op \in {"print", "create"} /\ m.job = req[c].job =>
         req[c].pc = "doubt"

\* The types, but for the slots: that a count never drops below zero is not a
\* matter of types (SlotInv below).
Types ==
  /\ rows \in Tables
  /\ lastID \in 0..MaxJobs
  /\ now \in Nat
  /\ req \in [Clients -> Request]
  /\ printer \in [Queues -> [UpstreamID -> PrinterJob]]
  /\ late \subseteq Request
  /\ maint \in Pass
  /\ lost \subseteq ProxyID

RowsOK == \A p \in ProxyID : RowOK(p, rows[p], lastID, printer)
PrintersOK == \A q \in Queues, u \in UpstreamID : PrinterJobOK(printer[q][u], rows, lastID)
RequestsOK == \A c \in Clients : RequestOK(req[c], rows, lastID, printer, lost)
LatesOK == \A m \in late : LateOK(m, rows, lastID)
MaintOK == MaintenanceOK(maint, rows, lastID, printer)

IInv ==
  /\ Types
  /\ RowsOK /\ PrintersOK
  /\ RequestsOK /\ LatesOK /\ MaintOK
  /\ OneSubmitter /\ ReservedIsOwned

-----------------------------------------------------------------------------
(* Stable steps.                                                           *)

\* What nobody may undo.
StableTable ==
  /\ lastID <= lastID'
  /\ \A p \in ProxyID : p <= lastID =>
       /\ rows[p].state # "reserved" => rows'[p].state # "reserved"
       /\ Present(rows', p) =>
            /\ Present(rows, p)
            /\ rows'[p].queue = rows[p].queue
            /\ rows[p].upstreamID # NoID => rows'[p].upstreamID = rows[p].upstreamID

StablePrinter ==
  \A q \in Queues, u \in UpstreamID :
    /\ printer[q][u].state # "none" =>
         printer'[q][u].state # "none" /\ printer'[q][u].origin = printer[q][u].origin
    /\ Done(printer[q][u]) => Done(printer'[q][u])

\* Only the submission of job `own' touches a reserved row or adds a printer job.
Spares(own) ==
  /\ \A p \in ProxyID : p <= lastID /\ p # own /\ rows[p].state = "reserved" =>
       rows'[p] = rows[p]
  /\ \A q \in Queues, u \in UpstreamID : printer'[q][u].origin \in {printer[q][u].origin, own}

Stable(own) == StableTable /\ StablePrinter /\ Spares(own)

\* No job is given up.
NoRejection == \A p \in ProxyID : Rejected(rows'[p]) => Rejected(rows[p])

-----------------------------------------------------------------------------
(* What the parts of the invariant have to do with it.                     *)

\* The numbers that name jobs.
LEMMA Numbers ==
  /\ UpstreamID = ProxyID
  /\ \A p \in ProxyID : p \in Nat /\ p # 0 /\ p \in 0..MaxJobs
  /\ \A p \in 0..MaxJobs : p # 0 => p \in ProxyID
  /\ \A p \in 0..MaxJobs : p \in Nat
  /\ NoID = 0 /\ NoID \in 0..MaxJobs
  BY MaxJobsAssumption DEF UpstreamID, ProxyID, NoID

\* The final states, and that the registry takes them for terminal ones.
LEMMA FinalsAreTerminal ==
  /\ \A x \in Finals : IsTerminalState(x) /\ x \in ObservedStates
  /\ \A x \in Finals : x \notin {"", "active", "failed", "rejected", "none", "open", "gone"}
  /\ "canceled" \in Finals
  BY LifecycleAssumption DEF Finals, IsTerminalState, TerminalStates, ObservedStates

\* A row that nobody touched.
LEMMA RowStable ==
  ASSUME Types, Types', StableTable, StablePrinter,
         NEW p \in ProxyID, RowOK(p, rows[p], lastID, printer), rows'[p] = rows[p]
  PROVE  RowOK(p, rows'[p], lastID', printer')
<1> DEFINE r == rows[p]
<1>1. r.state # "absent" => p <= lastID'
  <2>1. p \in Nat /\ lastID \in Nat /\ lastID' \in Nat /\ lastID <= lastID'
    BY Numbers DEF Types, StableTable
  <2> QED BY <2>1 DEF RowOK
<1>2. r.upstreamID # NoID =>
        /\ r.queue \in Queues /\ r.upstreamID \in UpstreamID
        /\ printer'[r.queue][r.upstreamID].state # "none"
        /\ printer'[r.queue][r.upstreamID].origin = printer[r.queue][r.upstreamID].origin
        /\ Done(printer[r.queue][r.upstreamID]) => Done(printer'[r.queue][r.upstreamID])
  BY BlankRow DEF RowOK, StablePrinter
<1> QED BY <1>1, <1>2 DEF RowOK

\* What a handler read.
LEMMA ReadStable ==
  ASSUME Types, Types', StableTable, NEW q, NEW p, NEW u, ReadOK(q, p, u, rows, lastID)
  PROVE  ReadOK(q, p, u, rows', lastID')
<1>1. p \in ProxyID /\ p <= lastID /\ p <= lastID'
  <2>1. p \in Nat /\ lastID \in Nat /\ lastID' \in Nat /\ lastID <= lastID'
    BY Numbers DEF Types, StableTable, ReadOK
  <2> QED BY <2>1 DEF ReadOK
<1> QED BY <1>1, Numbers DEF ReadOK, StableTable

\* A handler that submits another job than `own', or is past caring.
LEMMA SubmitterStable ==
  ASSUME Types, Types', PrintersOK, NEW own, Stable(own), lost \subseteq lost',
         NEW r \in Request, r.queue \in Queues, Submits(r),
         SubmitterOK(r, rows, lastID, printer, lost),
         r.pc # "doubt" => r.job # own
  PROVE  SubmitterOK(r, rows', lastID', printer', lost')
<1>1. r.job \in ProxyID /\ r.job <= lastID /\ r.job <= lastID'
  <2>1. r.job \in Nat /\ lastID \in Nat /\ lastID' \in Nat /\ lastID <= lastID'
    BY Numbers DEF Types, Stable, StableTable, SubmitterOK
  <2> QED BY <2>1 DEF SubmitterOK
<1>2. r.job # 0
  BY <1>1, Numbers
<1>3. Present(rows', r.job) => rows'[r.job].queue = r.queue
  BY <1>1 DEF SubmitterOK, Stable, StableTable
<1>4. r.pc \in {"sent", "answered", "recorder"} => rows'[r.job].state = "reserved"
  BY <1>1 DEF SubmitterOK, Stable, Spares
<1>5. r.pc = "document" => rows'[r.job].state # "reserved" \/ r.job \in lost'
  BY <1>1 DEF SubmitterOK, Stable, StableTable
<1>6. r.pc \in {"sent", "recorder"} \/ (r.pc = "answered" /\ ~r.answer.ok) =>
        \A q \in Queues, u \in UpstreamID : printer'[q][u].origin # r.job
  BY <1>1 DEF SubmitterOK, Stable, Spares
<1>7. r.pc = "answered" /\ r.answer.ok =>
        IF r.answer.id = NoID THEN PrinterOmitsID
        ELSE printer'[r.queue][r.answer.id].origin = r.job
  <2>1. r.answer.id \in 0..MaxJobs
    BY DEF Request, Answer
  <2>2. r.answer.id # NoID => r.answer.id \in UpstreamID
    BY <2>1, Numbers
  <2>3. ASSUME r.pc = "answered", r.answer.ok, r.answer.id # NoID
        PROVE  printer'[r.queue][r.answer.id].origin = r.job
    <3>1. printer[r.queue][r.answer.id].origin = r.job
      BY <2>3 DEF SubmitterOK
    <3>2. printer[r.queue][r.answer.id].state # "none"
      BY <1>2, <2>2, <2>3, <3>1 DEF PrintersOK, PrinterJobOK
    <3> QED BY <2>2, <2>3, <3>1, <3>2 DEF Stable, StablePrinter
  <2> QED BY <2>3 DEF SubmitterOK
<1> QED BY <1>1, <1>3, <1>4, <1>5, <1>6, <1>7 DEF SubmitterOK

\* A handler that works on a mapped job.
LEMMA WorkerStable ==
  ASSUME Types, Types', StableTable, StablePrinter,
         NEW r \in Request, r.queue \in Queues, Works(r), WorkerOK(r, rows, lastID, printer)
  PROVE  WorkerOK(r, rows', lastID', printer')
<1>1. ReadOK(r.queue, r.job, r.id, rows', lastID')
  BY ReadStable DEF WorkerOK
<1>2. \A x \in r.todo : ReadOK(r.queue, x[1], x[2], rows', lastID')
  BY ReadStable DEF WorkerOK
<1>3. r.id \in UpstreamID
  BY DEF WorkerOK, ReadOK
<1>4. Done(printer[r.queue][r.id]) => Done(printer'[r.queue][r.id])
  BY <1>3 DEF StablePrinter
<1> QED BY <1>1, <1>2, <1>4 DEF WorkerOK

\* A handler that joins the printer's list with the registry.
LEMMA ListerStable ==
  ASSUME StablePrinter, NEW r \in Request, r.queue \in Queues, ListerOK(r, printer)
  PROVE  ListerOK(r, printer')
  BY DEF ListerOK, StablePrinter

\* Any request that is left alone.
LEMMA RequestStable ==
  ASSUME Types, Types', PrintersOK, NEW own, Stable(own), lost \subseteq lost',
         NEW r \in Request, RequestOK(r, rows, lastID, printer, lost),
         Submits(r) /\ r.pc # "doubt" => r.job # own
  PROVE  RequestOK(r, rows', lastID', printer', lost')
<1>1. r.pc # "idle" => r.queue \in Queues
  BY DEF RequestOK
<1>2. Submits(r) => SubmitterOK(r, rows', lastID', printer', lost')
  BY <1>1, SubmitterStable DEF RequestOK, Submits
<1>3. Works(r) => WorkerOK(r, rows', lastID', printer')
  BY <1>1, WorkerStable DEF RequestOK, Works, Stable
<1>4. r.op = "list" => ListerOK(r, printer')
  BY <1>1, ListerStable DEF RequestOK, ListerOK, Stable
<1> QED BY <1>2, <1>3, <1>4 DEF RequestOK

\* A request still on its way, as long as its job is not given up.
LEMMA LateStable ==
  ASSUME Types, Types', StableTable, NEW m \in Request, LateOK(m, rows, lastID),
         m.op \in {"print", "create"} /\ m.job \in ProxyID =>
           (Rejected(rows'[m.job]) => Rejected(rows[m.job]))
  PROVE  LateOK(m, rows', lastID')
<1>1. m.job \in ProxyID /\ m.job <= lastID => m.job <= lastID'
  <2>1. m.job \in ProxyID => m.job \in Nat /\ lastID \in Nat /\ lastID' \in Nat /\ lastID <= lastID'
    BY Numbers DEF Types, StableTable
  <2> QED BY <2>1
<1> QED BY <1>1 DEF LateOK

\* What the pass remembers of a row.
LEMMA SnapshotStable ==
  ASSUME Types, Types', StableTable, StablePrinter,
         NEW q \in Queues, NEW j \in Snapshots, SnapshotOK(q, j, rows, lastID, printer)
  PROVE  SnapshotOK(q, j, rows', lastID', printer')
<1>1. j.job \in ProxyID /\ j.job <= lastID /\ j.job <= lastID'
  <2>1. j.job \in ProxyID
    BY DEF Snapshots
  <2>2. j.job \in Nat /\ lastID \in Nat /\ lastID' \in Nat /\ lastID <= lastID' /\ j.job <= lastID
    BY <2>1, Numbers DEF Types, StableTable, SnapshotOK
  <2> QED BY <2>1, <2>2
<1>2. rows'[j.job].state # "reserved" /\ (Present(rows', j.job) => rows'[j.job].queue = q)
  BY <1>1 DEF SnapshotOK, StableTable
<1>3. j.id # NoID => /\ j.id \in UpstreamID
                     /\ printer'[q][j.id].state # "none"
                     /\ Alike(j.job, printer'[q][j.id].origin)
  BY DEF SnapshotOK, StablePrinter
<1> QED BY <1>1, <1>2, <1>3 DEF SnapshotOK

\* The list it was given.
LEMMA ListStable ==
  ASSUME StablePrinter, NEW q \in Queues, NEW list, ListOK(q, list, printer)
  PROVE  ListOK(q, list, printer')
  BY DEF ListOK, StablePrinter

\* A whole pass.
LEMMA PassStable ==
  ASSUME Types, Types', StableTable, StablePrinter,
         NEW M \in Pass, MaintenanceOK(M, rows, lastID, printer)
  PROVE  MaintenanceOK(M, rows', lastID', printer')
<1>1. ASSUME NEW q \in Queues, NEW j \in M.todo[q]
      PROVE  SnapshotOK(q, j, rows', lastID', printer')
  <2>1. j \in Snapshots
    BY <1>1 DEF Pass
  <2> QED BY <1>1, <2>1, SnapshotStable DEF MaintenanceOK
<1>2. M.pc \in {"apply", "match", "sync"} =>
        M.queue \in Queues /\ ListOK(M.queue, M.list, printer')
  BY ListStable DEF MaintenanceOK
<1>3. M.pc \in {"match", "sync"} =>
        M.job \in Snapshots /\ SnapshotOK(M.queue, M.job, rows', lastID', printer')
  BY SnapshotStable DEF MaintenanceOK
<1>4. M.pc = "sync" =>
        /\ M.sync \in UpstreamID
        /\ Present(rows', M.job.job) => rows'[M.job.job].upstreamID = M.sync
  <2> SUFFICES ASSUME M.pc = "sync" PROVE <1>4!2
    OBVIOUS
  <2>1. /\ M.job \in Snapshots /\ M.job.job <= lastID /\ M.sync \in UpstreamID
        /\ Present(rows, M.job.job) => rows[M.job.job].upstreamID = M.sync
    BY DEF MaintenanceOK, SnapshotOK
  <2>2. M.job.job \in ProxyID /\ M.sync # NoID
    BY <2>1, Numbers DEF Snapshots
  <2> QED BY <2>1, <2>2 DEF StableTable
<1> QED BY <1>1, <1>2, <1>3, <1>4 DEF MaintenanceOK

\* The pass in a step that leaves it alone.
LEMMA MaintStable ==
  ASSUME Types, Types', StableTable, StablePrinter, MaintOK, maint' = maint
  PROVE  MaintOK'
  BY PassStable DEF MaintOK, Types

-----------------------------------------------------------------------------
(* Registry calls are stable steps.                                        *)

\* A registry call that rejects no job and, of the reserved rows, touches at
\* most that of `own'.
Harmless(own) ==
  /\ rows' \in Tables
  /\ UNCHANGED <<lastID, printer>>
  /\ Stable(own) /\ RowsOK' /\ NoRejection

\* A step that leaves the printers alone is stable for them.
LEMMA PrinterUnchanged ==
  ASSUME printer' = printer
  PROVE  /\ StablePrinter
         /\ \A own : \A q \in Queues, u \in UpstreamID :
              printer'[q][u].origin \in {printer[q][u].origin, own}
  BY DEF StablePrinter

\* Nor does it lower the last job number.
LEMMA SameLastID ==
  ASSUME Types, lastID' = lastID
  PROVE  lastID <= lastID'
<1>1. lastID \in Nat
  BY Numbers DEF Types
<1> QED BY <1>1

\* No call at all.
LEMMA QuietHarmless ==
  ASSUME IInv, NEW own, UNCHANGED <<rows, lastID, printer>>
  PROVE  Harmless(own)
<1>1. lastID <= lastID'
  BY SameLastID DEF IInv
<1>2. StableTable
  BY <1>1 DEF StableTable, Present
<1>3. RowsOK'
  BY DEF IInv, RowsOK
<1> QED BY <1>2, <1>3, PrinterUnchanged DEF Harmless, IInv, Types, Stable, Spares, NoRejection

\* A call that writes row p: it is enough to look at the new row.
LEMMA WriteHarmless ==
  ASSUME IInv, NEW own, NEW p \in ProxyID, Writes(rows, p, rows'), UNCHANGED <<lastID, printer>>,
         rows[p].state = "reserved" => p = own,
         rows'[p].state = "reserved" => rows[p].state = "reserved",
         rows[p].upstreamID # NoID => rows'[p].upstreamID = rows[p].upstreamID,
         RowOK(p, rows'[p], lastID, printer)
  PROVE  rows' \in Tables /\ Stable(own) /\ RowsOK'
<1>1. lastID <= lastID'
  BY SameLastID DEF IInv
<1>2. StableTable
  BY <1>1 DEF StableTable, Writes, Present
<1>3. Spares(own)
  BY PrinterUnchanged DEF Spares, Writes
<1>4. RowsOK'
  BY DEF IInv, RowsOK, Writes
<1> QED BY <1>2, <1>3, <1>4, PrinterUnchanged DEF Stable, Writes

\* Facts about the row that a call finds.
LEMMA RowFacts ==
  ASSUME IInv, NEW p \in ProxyID
  PROVE  /\ rows \in Tables /\ rows[p] \in Row /\ RowOK(p, rows[p], lastID, printer)
         /\ now \in Nat
  BY DEF IInv, Types, Tables, RowsOK

\* Noting something on a row.
LEMMA NotedHarmless ==
  ASSUME IInv, NEW own, NEW p \in ProxyID, Writes(rows, p, rows'), UNCHANGED <<lastID, printer>>,
         rows[p].state = "reserved" => p = own, Noted(rows[p], rows'[p])
  PROVE  Harmless(own)
<1>1. RowOK(p, rows'[p], lastID, printer)
  <2>1. RowOK(p, rows[p], lastID, printer) /\ "active" \notin Finals
    BY RowFacts, FinalsAreTerminal
  <2> QED BY <2>1 DEF RowOK, Noted, SameMapping, Writes, Present
<1>2. rows' \in Tables /\ Stable(own) /\ RowsOK'
  BY <1>1, WriteHarmless DEF Noted, SameMapping
<1>3. NoRejection
  BY DEF NoRejection, Writes, Noted, Rejected
<1> QED BY <1>2, <1>3 DEF Harmless

\* MarkUncertain.
LEMMA MarkUncertainHarmless ==
  ASSUME IInv, NEW own, NEW q, NEW p \in ProxyID,
         rows' = MarkUncertain(rows, q, p, now), UNCHANGED <<lastID, printer>>,
         rows[p].state = "reserved" => p = own
  PROVE  /\ Harmless(own)
         /\ rows'[p].state = "reserved" => ~Found(rows, q, p)
<1> DEFINE open == Found(rows, q, p) /\ ~IsTerminalState(rows[p].state)
<1>1. IF open THEN Writes(rows, p, rows') /\ Doubted(rows[p], rows'[p]) ELSE rows' = rows
  BY RowFacts, MarkUncertainEffect
<1>2. CASE ~open
  BY <1>1, <1>2, QuietHarmless, OpenStates
<1>3. CASE open
  <2>1. Writes(rows, p, rows') /\ Doubted(rows[p], rows'[p])
    BY <1>1, <1>3
  <2>2. RowOK(p, rows'[p], lastID, printer)
    BY <2>1, RowFacts DEF RowOK, Doubted, SameMapping, Writes, Present
  <2>3. rows' \in Tables /\ Stable(own) /\ RowsOK'
    BY <2>1, <2>2, WriteHarmless DEF Doubted, SameMapping
  <2>4. NoRejection
    BY <2>1 DEF NoRejection, Writes, Doubted, Rejected
  <2> QED BY <2>1, <2>3, <2>4 DEF Harmless, Doubted
<1> QED BY <1>2, <1>3

\* Closing a row: what it says of the printer must be so.
LEMMA CloseHarmless ==
  ASSUME IInv, NEW own, NEW p \in ProxyID, Writes(rows, p, rows'), UNCHANGED <<lastID, printer>>,
         rows[p].state = "reserved" => p = own,
         NEW state \in TerminalStates, NEW observed, Closed(rows[p], rows'[p], state, observed),
         observed \in Finals =>
           rows[p].upstreamID # NoID /\ Done(printer[rows[p].queue][rows[p].upstreamID])
  PROVE  rows' \in Tables /\ Stable(own) /\ RowsOK' /\ rows'[p].state # "reserved"
<1>1. state # "reserved" /\ state # "absent"
  BY DEF TerminalStates
<1>2. RowOK(p, rows'[p], lastID, printer)
  BY <1>1, RowFacts DEF RowOK, Closed, SameMapping, Writes, Present
<1> QED BY <1>1, <1>2, WriteHarmless DEF Closed, SameMapping

\* MarkTerminal with a state in which the printer is done with the job.
LEMMA MarkTerminalHarmless ==
  ASSUME IInv, NEW own, NEW q, NEW p \in ProxyID, NEW x \in Finals,
         rows' = MarkTerminal(rows, q, p, x, now), UNCHANGED <<lastID, printer>>,
         rows[p].state = "reserved" => p = own,
         Found(rows, q, p) => rows[p].upstreamID # NoID /\ Done(printer[q][rows[p].upstreamID])
  PROVE  Harmless(own)
<1>1. IF Found(rows, q, p)
      THEN Writes(rows, p, rows') /\ Closed(rows[p], rows'[p], "terminal", x) ELSE rows' = rows
  BY RowFacts, MarkTerminalEffect, FinalsAreTerminal
<1>2. CASE ~Found(rows, q, p)
  BY <1>1, <1>2, QuietHarmless
<1>3. CASE Found(rows, q, p)
  <2>1. Writes(rows, p, rows') /\ Closed(rows[p], rows'[p], "terminal", x) /\ rows[p].queue = q
    BY <1>1, <1>3 DEF Found
  <2>2. "terminal" \in TerminalStates
    BY DEF TerminalStates
  <2>3. rows' \in Tables /\ Stable(own) /\ RowsOK'
    BY <1>3, <2>1, <2>2, CloseHarmless
  <2>4. NoRejection
    BY <2>1, FinalsAreTerminal DEF NoRejection, Writes, Closed, Rejected
  <2> QED BY <2>3, <2>4 DEF Harmless
<1> QED BY <1>2, <1>3

\* UpdateState with "failed": a document was refused, the job itself was not.
LEMMA UpdateStateHarmless ==
  ASSUME IInv, NEW own, NEW q, NEW p \in ProxyID,
         rows' = UpdateState(rows, q, p, "failed", now), UNCHANGED <<lastID, printer>>,
         rows[p].state = "reserved" => p = own
  PROVE  Harmless(own)
<1>1. "failed" \in TerminalStates /\ "failed" \notin Finals
  BY FinalsAreTerminal DEF TerminalStates
<1>2. IF Found(rows, q, p)
      THEN Writes(rows, p, rows') /\ Closed(rows[p], rows'[p], "failed", "failed") ELSE rows' = rows
  BY <1>1, RowFacts, UpdateStateEffect
<1>3. CASE ~Found(rows, q, p)
  BY <1>2, <1>3, QuietHarmless
<1>4. CASE Found(rows, q, p)
  <2>1. Writes(rows, p, rows') /\ Closed(rows[p], rows'[p], "failed", "failed")
    BY <1>2, <1>4
  <2>2. rows' \in Tables /\ Stable(own) /\ RowsOK'
    BY <1>1, <2>1, CloseHarmless
  <2>3. NoRejection
    BY <2>1 DEF NoRejection, Writes, Closed, Rejected
  <2> QED BY <2>2, <2>3 DEF Harmless
<1> QED BY <1>3, <1>4

\* MarkTerminal with "failed" or "rejected" is stable, but gives the job up.
LEMMA RejectionStable ==
  ASSUME IInv, NEW q, NEW p \in ProxyID, NEW x \in {"failed", "rejected"},
         rows' = MarkTerminal(rows, q, p, x, now), UNCHANGED <<lastID, printer>>
  PROVE  /\ rows' \in Tables /\ Stable(p) /\ RowsOK'
         /\ \A o \in ProxyID \ {p} : rows'[o] = rows[o]
         /\ rows'[p].state = "reserved" => ~Found(rows, q, p)
<1>1. x \in ObservedStates /\ x \notin Finals /\ "terminal" \in TerminalStates
  BY FinalsAreTerminal DEF ObservedStates, TerminalStates
<1>2. IF Found(rows, q, p)
      THEN Writes(rows, p, rows') /\ Closed(rows[p], rows'[p], "terminal", x) ELSE rows' = rows
  BY <1>1, RowFacts, MarkTerminalEffect
<1>3. CASE ~Found(rows, q, p)
  BY <1>2, <1>3, QuietHarmless DEF Harmless
<1>4. CASE Found(rows, q, p)
  <2>1. Writes(rows, p, rows') /\ Closed(rows[p], rows'[p], "terminal", x)
    BY <1>2, <1>4
  <2>2. rows' \in Tables /\ Stable(p) /\ RowsOK' /\ rows'[p].state # "reserved"
    BY <1>1, <2>1, CloseHarmless
  <2> QED BY <2>1, <2>2 DEF Writes
<1> QED BY <1>3, <1>4

\* syncObservedJob with what a printer said of the job the row is mapped to.
LEMMA SyncHarmless ==
  ASSUME IInv, NEW own, NEW q, NEW p \in ProxyID, NEW x \in {"", "active"} \cup Finals,
         rows' = syncObservedJob(rows, q, p, x), UNCHANGED <<lastID, printer>>,
         rows[p].state = "reserved" => p = own,
         x \in Finals /\ Found(rows, q, p) =>
           rows[p].upstreamID # NoID /\ Done(printer[q][rows[p].upstreamID])
  PROVE  Harmless(own)
<1>1. CASE x = ""
  BY <1>1, QuietHarmless DEF syncObservedJob
<1>2. CASE x \in Finals
  BY <1>2, FinalsAreTerminal, MarkTerminalHarmless DEF syncObservedJob
<1>3. CASE x = "active"
  <2>1. rows' = UpdateObserved(rows, q, p, "active", now)
    BY <1>3, OpenStates DEF syncObservedJob
  <2>2. rows' = rows \/ (Writes(rows, p, rows') /\ Noted(rows[p], rows'[p]))
    BY <2>1, RowFacts, UpdateObservedEffect
  <2> QED BY <2>2, QuietHarmless, NotedHarmless
<1> QED BY <1>1, <1>2, <1>3

\* UpdatePayloadMetadataWithLastDocument.
LEMMA UpdateDocumentHarmless ==
  ASSUME IInv, NEW own, NEW q, NEW p \in ProxyID, NEW hasBytes \in BOOLEAN, NEW last \in BOOLEAN,
         rows' = UpdateDocument(rows, q, p, hasBytes, last), UNCHANGED <<lastID, printer>>,
         rows[p].state = "reserved" => p = own
  PROVE  Harmless(own) /\ rows'[p].state = rows[p].state
<1>1. \/ rows' = rows
      \/ Writes(rows, p, rows') /\ Noted(rows[p], rows'[p])
  BY RowFacts, UpdateDocumentEffect
<1> QED BY <1>1, QuietHarmless, NotedHarmless DEF Noted

\* MarkMapped with a printer job that looks like the row's own.
LEMMA MarkMappedHarmless ==
  ASSUME IInv, NEW own, NEW q \in Queues, NEW p \in ProxyID, NEW id \in UpstreamID, NEW uri \in Nat,
         rows' = MarkMapped(rows, q, p, id, uri), UNCHANGED <<lastID, printer>>,
         MarkMappedOK(rows, q, p, id, uri),
         rows[p].state = "reserved" => p = own,
         printer[q][id].state # "none", Alike(p, printer[q][id].origin)
  PROVE  /\ Harmless(own)
         /\ rows'[p].state = "mapped" /\ rows'[p].upstreamID = id
<1>1. id \in Nat /\ id # NoID
  BY Numbers
<1>2. Writes(rows, p, rows') /\ Bound(rows[p], rows'[p], id, uri)
  BY <1>1, RowFacts, MarkMappedEffect
<1>3. rows[p].queue = q /\ rows[p].upstreamID \in {NoID, id}
  BY <1>1 DEF MarkMappedOK, Found
<1>4. RowOK(p, rows'[p], lastID, printer)
  <2>1. RowOK(p, rows[p], lastID, printer)
    BY RowFacts
  <2> QED BY <1>1, <1>2, <1>3, <2>1 DEF RowOK, Bound, Writes, Present
<1>5. rows' \in Tables /\ Stable(own) /\ RowsOK'
  BY <1>2, <1>3, <1>4, WriteHarmless DEF Bound
<1>6. NoRejection
  BY <1>2 DEF NoRejection, Writes, Bound, Rejected
<1> QED BY <1>2, <1>5, <1>6 DEF Harmless, Bound

\* MarkReconcileAttempt.
LEMMA AttemptHarmless ==
  ASSUME IInv, NEW own, NEW p \in ProxyID,
         rows' = MarkReconcileAttempt(rows, p, now), UNCHANGED <<lastID, printer>>,
         rows[p].state # "reserved"
  PROVE  Harmless(own)
<1>1. \/ rows' = rows
      \/ Writes(rows, p, rows') /\ Noted(rows[p], rows'[p])
  BY RowFacts, MarkReconcileAttemptEffect
<1> QED BY <1>1, QuietHarmless, NotedHarmless

\* CleanupExpired.
LEMMA SweepHarmless ==
  ASSUME IInv, NEW own, rows' = CleanupExpired(rows, now), UNCHANGED <<lastID, printer>>
  PROVE  Harmless(own)
<1>1. /\ rows' \in Tables
      /\ \A p \in ProxyID : \/ rows'[p] = rows[p]
                            \/ IsTerminalState(rows[p].state) /\ rows'[p] = NoRow
  BY CleanupExpiredEffect DEF IInv, Types
<1>2. lastID <= lastID'
  BY SameLastID DEF IInv
<1>3. StableTable
  BY <1>1, <1>2, BlankRow DEF StableTable, Present
<1>4. Spares(own)
  <2>1. \A p \in ProxyID : rows[p].state = "reserved" => rows'[p] = rows[p]
    BY <1>1 DEF IsTerminalState, TerminalStates
  <2> QED BY <2>1, PrinterUnchanged DEF Spares
<1>5. RowsOK'
  <2>1. \A p \in ProxyID : RowOK(p, NoRow, lastID, printer)
    BY BlankRow, FinalsAreTerminal DEF RowOK
  <2> QED BY <1>1, <2>1 DEF IInv, RowsOK
<1>6. NoRejection
  BY <1>1, BlankRow DEF NoRejection, Rejected
<1> QED BY <1>1, <1>3, <1>4, <1>5, <1>6, PrinterUnchanged DEF Harmless, Stable

-----------------------------------------------------------------------------
(* Steps of one handler.                                                   *)

\* The job whose reserved row a handler may touch.
Own(r) == IF Submits(r) THEN r.job ELSE 0

\* No other handler submits it.
LEMMA OwnIsOwn ==
  ASSUME IInv, NEW c \in Clients, NEW d \in Clients \ {c}, Submits(req[d])
  PROVE  req[d].job # Own(req[c])
<1>1. req[d].job \in ProxyID
  BY DEF IInv, RequestsOK, RequestOK, SubmitterOK
<1> QED BY <1>1, Numbers DEF IInv, OneSubmitter, Own

\* A step of handler c preserves the invariant if it is stable, leaves c's own
\* request in order, and does not abandon a reserved row.
LEMMA ClientStep ==
  ASSUME IInv, Types', NEW c \in Clients, Stable(Own(req[c])),
         RowsOK', PrintersOK', LatesOK',
         \A d \in Clients \ {c} : req'[d] = req[d],
         lost \subseteq lost', lastID' = lastID, maint' = maint,
         \A m \in late' : m \in late \/
           (m.op \in {"print", "create"} =>
              Submits(req[c]) /\ m.job = req[c].job /\ req'[c].pc = "doubt"),
         RequestOK(req'[c], rows', lastID', printer', lost'),
         Submits(req'[c]) => Submits(req[c]) /\ req[c].pc # "doubt" /\ req'[c].job = req[c].job,
         req[c].job \in ProxyID /\ rows'[req[c].job].state = "reserved" =>
           req[c].job \in lost' \/ (req'[c].pc # "idle" /\ req'[c].job = req[c].job)
  PROVE  IInv'
<1>1. RequestsOK'
  <2>1. ASSUME NEW d \in Clients \ {c}
        PROVE  RequestOK(req[d], rows', lastID', printer', lost')
    <3>1. req[d] \in Request /\ RequestOK(req[d], rows, lastID, printer, lost)
      BY DEF IInv, Types, RequestsOK
    <3>2. Submits(req[d]) => req[d].job # Own(req[c])
      BY OwnIsOwn
    <3> QED BY <3>1, <3>2, RequestStable DEF IInv
  <2> QED BY <2>1 DEF RequestsOK
<1>2. MaintOK'
  BY MaintStable DEF IInv, Stable
<1>3. OneSubmitter'
  <2>1. ASSUME NEW a \in Clients, NEW b \in Clients, a # b, Submits(req'[a]), Submits(req'[b])
        PROVE  req'[a].job # req'[b].job
    BY <2>1 DEF IInv, OneSubmitter
  <2>2. ASSUME NEW a \in Clients, NEW m \in late', Submits(req'[a]), m.op \in {"print", "create"},
               m.job = req'[a].job
        PROVE  req'[a].pc = "doubt"
    <3>1. CASE a = c
      BY <2>2, <3>1 DEF IInv, OneSubmitter
    <3>2. CASE a # c
      BY <2>2, <3>2 DEF IInv, OneSubmitter
    <3> QED BY <3>1, <3>2
  <2> QED BY <2>1, <2>2 DEF OneSubmitter
<1>4. ReservedIsOwned'
  <2> SUFFICES ASSUME NEW p \in ProxyID, rows'[p].state = "reserved"
               PROVE  p \in lost' \/ \E d \in Clients : req'[d].pc # "idle" /\ req'[d].job = p
    BY DEF ReservedIsOwned
  <2>1. p <= lastID
    BY DEF RowsOK, RowOK
  <2>2. rows[p].state = "reserved"
    BY <2>1 DEF Stable, StableTable
  <2>3. p \in lost \/ \E d \in Clients : req[d].pc # "idle" /\ req[d].job = p
    BY <2>2 DEF IInv, ReservedIsOwned
  <2> QED BY <2>3
<1> QED BY <1>1, <1>2, <1>3, <1>4 DEF IInv

\* Printers and requests on their way do not mind a harmless call.
LEMMA HarmlessRest ==
  ASSUME IInv, Types', NEW own, Harmless(own), late' \subseteq late
  PROVE  PrintersOK' /\ LatesOK'
<1>1. ASSUME NEW q \in Queues, NEW u \in UpstreamID
      PROVE  PrinterJobOK(printer[q][u], rows', lastID')
  <2>1. PrinterJobOK(printer[q][u], rows, lastID) /\ printer[q][u].origin \in 0..MaxJobs
    BY DEF IInv, PrintersOK, Types, PrinterJob
  <2>2. printer[q][u].origin # 0 => printer[q][u].origin \in ProxyID
    BY <2>1, Numbers
  <2> QED BY <2>1, <2>2 DEF Harmless, NoRejection, PrinterJobOK
<1>2. ASSUME NEW m \in late' PROVE LateOK(m, rows', lastID')
  <2>1. m \in Request /\ LateOK(m, rows, lastID)
    BY DEF IInv, Types, LatesOK
  <2> QED BY <2>1, LateStable DEF IInv, Harmless, NoRejection, Stable
<1> QED BY <1>1, <1>2 DEF Harmless, PrintersOK, LatesOK

\* The same for a handler whose call is harmless.
LEMMA HarmlessClientStep ==
  ASSUME IInv, Types', NEW c \in Clients, Harmless(Own(req[c])),
         \A d \in Clients \ {c} : req'[d] = req[d],
         lost \subseteq lost', maint' = maint, late' = late,
         RequestOK(req'[c], rows', lastID', printer', lost'),
         Submits(req'[c]) => Submits(req[c]) /\ req[c].pc # "doubt" /\ req'[c].job = req[c].job,
         req[c].job \in ProxyID /\ rows'[req[c].job].state = "reserved" =>
           req[c].job \in lost' \/ (req'[c].pc # "idle" /\ req'[c].job = req[c].job)
  PROVE  IInv'
<1>1. PrintersOK' /\ LatesOK'
  BY HarmlessRest
<1>2. Stable(Own(req[c])) /\ RowsOK' /\ lastID' = lastID
  BY DEF Harmless
<1> QED BY <1>1, <1>2, ClientStep

\* The request of a client that has none.
LEMMA IdleRequest ==
  /\ NoList \in [UpstreamID -> {"", "active"} \cup Finals]
  /\ NoAnswer \in Answer /\ ~NoAnswer.ok
  /\ Idle \in Request /\ Idle.pc = "idle" /\ Idle.job = 0
  /\ \A T, n, P, L : RequestOK(Idle, T, n, P, L)
<1>1. NoList \in [UpstreamID -> {"", "active"} \cup Finals]
  BY DEF NoList
<1>2. NoAnswer \in Answer /\ ~NoAnswer.ok
  BY <1>1, Numbers DEF NoAnswer, Answer
<1>3. Idle \in Request
  BY <1>2, Numbers DEF Idle, Request, PC
<1>4. Idle.pc = "idle" /\ Idle.op = "" /\ Idle.job = 0
  BY DEF Idle
<1>5. \A T, n, P, L : RequestOK(Idle, T, n, P, L)
  BY <1>4 DEF RequestOK, Submits, Works
<1> QED BY <1>1, <1>2, <1>3, <1>4, <1>5

\* The request of a client whose handler has returned.
LEMMA ReturnedRequest ==
  ASSUME NEW c, req'[c] = Idle
  PROVE  RequestOK(req'[c], rows', lastID', printer', lost') /\ ~Submits(req'[c])
  BY IdleRequest DEF Submits

\* Types after a step in which handler c leaves r behind.
LEMMA ClientTypes ==
  ASSUME IInv, NEW c \in Clients, NEW r \in Request, req' = [req EXCEPT ![c] = r],
         rows' \in Tables, lastID' = lastID, lost' \subseteq ProxyID, UNCHANGED others
  PROVE  Types' /\ req'[c] = r /\ \A d \in Clients \ {c} : req'[d] = req[d]
  BY DEF IInv, Types, others

\* A handler returns.
LEMMA FinishStep ==
  ASSUME IInv, NEW c \in Clients, req' = [req EXCEPT ![c] = Idle], Harmless(Own(req[c])),
         lost \subseteq lost', lost' \subseteq ProxyID, UNCHANGED others,
         req[c].job \in ProxyID /\ rows'[req[c].job].state = "reserved" => req[c].job \in lost'
  PROVE  IInv'
<1>1. Types' /\ req'[c] = Idle /\ \A d \in Clients \ {c} : req'[d] = req[d]
  BY ClientTypes, IdleRequest DEF Harmless
<1>2. RequestOK(req'[c], rows', lastID', printer', lost') /\ ~Submits(req'[c])
  BY <1>1, ReturnedRequest
<1> QED BY <1>1, <1>2, HarmlessClientStep DEF others

\* A handler records its outcome and returns; when it cannot, the job counts as lost.
LEMMA StoredFinish ==
  ASSUME IInv, NEW c \in Clients, req[c].job \in ProxyID, NEW new,
         Stored(req[c].job, new), req' = [req EXCEPT ![c] = Idle], UNCHANGED others,
         rows' = new /\ UNCHANGED <<lastID, printer>> =>
           Harmless(Own(req[c])) /\ rows'[req[c].job].state # "reserved"
  PROVE  IInv'
<1>1. lost \subseteq ProxyID /\ lastID' = lastID /\ printer' = printer
  BY DEF IInv, Types, Stored, others
<1>2. CASE rows' = new /\ UNCHANGED lost
  BY <1>1, <1>2, FinishStep
<1>3. CASE UNCHANGED rows /\ lost' = lost \cup {req[c].job}
  <2>1. Harmless(Own(req[c]))
    BY <1>1, <1>3, QuietHarmless
  <2> QED BY <1>1, <1>3, <2>1, FinishStep
<1> QED BY <1>2, <1>3 DEF Stored

\* What the invariant says of a handler that works on a mapped job.
LEMMA WorkerFacts ==
  ASSUME IInv, NEW c \in Clients, Works(req[c])
  PROVE  /\ req[c] \in Request /\ req[c].queue \in Queues /\ req[c].job \in ProxyID
         /\ req[c].id \in UpstreamID /\ req[c].id # NoID
         /\ WorkerOK(req[c], rows, lastID, printer)
         /\ Own(req[c]) = 0 /\ ~Submits(req[c])
         /\ rows[req[c].job].state # "reserved"
         /\ Found(rows, req[c].queue, req[c].job) => rows[req[c].job].upstreamID = req[c].id
<1>1. req[c] \in Request /\ WorkerOK(req[c], rows, lastID, printer) /\ req[c].queue \in Queues
  BY DEF IInv, Types, RequestsOK, RequestOK, Works
<1>2. ~Submits(req[c])
  BY DEF Works, Submits
<1> QED BY <1>1, <1>2, Numbers DEF WorkerOK, ReadOK, Own, Found

\* What it says of one that submits.
LEMMA SubmitterFacts ==
  ASSUME IInv, NEW c \in Clients, Submits(req[c])
  PROVE  /\ req[c] \in Request /\ req[c].queue \in Queues /\ req[c].job \in ProxyID
         /\ SubmitterOK(req[c], rows, lastID, printer, lost)
         /\ Own(req[c]) = req[c].job
         /\ rows[req[c].job].state = "reserved" => Found(rows, req[c].queue, req[c].job)
<1>1. req[c] \in Request /\ SubmitterOK(req[c], rows, lastID, printer, lost) /\ req[c].queue \in Queues
  BY DEF IInv, Types, RequestsOK, RequestOK, Submits
<1> QED BY <1>1 DEF SubmitterOK, Own, Found, Present

\* A request is idle, staging for Print-Job, submitting, working or listing.
LEMMA RequestKinds ==
  ASSUME IInv, NEW c \in Clients, req[c].pc # "idle"
  PROVE  /\ req[c] \in Request /\ req[c].queue \in Queues
         /\ \/ req[c].pc = "staging" /\ req[c].op = "print" /\ req[c].job = 0 /\ req[c].id = NoID
            \/ Submits(req[c])
            \/ Works(req[c])
            \/ req[c].op = "list" /\ ListerOK(req[c], printer)
  BY DEF IInv, Types, RequestsOK, RequestOK, Submits, Works, Request

\* The body could not be read, translated or reserved for.
LEMMA StagingFailedInv ==
  ASSUME IInv, NEW c \in Clients, StagingFailed(c)
  PROVE  IInv'
<1>1. /\ req[c].pc = "staging" /\ req' = [req EXCEPT ![c] = Idle]
      /\ UNCHANGED <<rows, lastID, printer, lost>> /\ UNCHANGED others
  BY DEF StagingFailed, Finish, NothingStored, others
<1>2. Harmless(Own(req[c]))
  BY <1>1, QuietHarmless
<1>3. req[c].job \in ProxyID => rows[req[c].job].state # "reserved"
  <2>1. CASE Works(req[c])
    BY <2>1, WorkerFacts
  <2>2. CASE req[c].job = 0
    BY <2>2, Numbers
  <2> QED BY <1>1, <2>1, <2>2, RequestKinds DEF Submits, ListerOK
<1>4. lost' = lost /\ lost \subseteq ProxyID
  BY <1>1 DEF IInv, Types
<1> QED BY <1>1, <1>2, <1>3, <1>4, FinishStep

\* A submission is given up before the printer has seen it, or because it said no.
LEMMA RejectStep ==
  ASSUME IInv, NEW c \in Clients, Submits(req[c]),
         req[c].pc = "recorder" \/ (req[c].pc = "answered" /\ ~req[c].answer.ok),
         NEW x \in {"failed", "rejected"},
         Stored(req[c].job, MarkTerminal(rows, req[c].queue, req[c].job, x, now)),
         req' = [req EXCEPT ![c] = Idle], UNCHANGED others
  PROVE  IInv'
<1> DEFINE p == req[c].job
<1>1. /\ p \in ProxyID /\ Own(req[c]) = p /\ lost \subseteq ProxyID /\ Types
      /\ rows[p].state = "reserved" /\ Found(rows, req[c].queue, p)
      /\ \A q \in Queues, u \in UpstreamID : printer[q][u].origin # p
  BY SubmitterFacts DEF SubmitterOK, IInv, Types
<1>2. lastID' = lastID /\ printer' = printer /\ late' = late /\ maint' = maint
  BY DEF Stored, others
<1>3. CASE UNCHANGED rows /\ lost' = lost \cup {p}
  <2>1. Harmless(Own(req[c]))
    BY <1>2, <1>3, QuietHarmless
  <2> QED BY <1>1, <1>3, <2>1, FinishStep
<1>4. CASE rows' = MarkTerminal(rows, req[c].queue, p, x, now) /\ UNCHANGED lost
  <2>1. /\ rows' \in Tables /\ Stable(p) /\ RowsOK'
        /\ \A o \in ProxyID \ {p} : rows'[o] = rows[o]
        /\ rows'[p].state # "reserved"
    BY <1>1, <1>2, <1>4, RejectionStable
  <2>2. Types' /\ req'[c] = Idle /\ \A d \in Clients \ {c} : req'[d] = req[d]
    BY <1>1, <1>2, <1>4, <2>1, ClientTypes, IdleRequest
  <2>3. PrintersOK'
    <3>1. ASSUME NEW q \in Queues, NEW u \in UpstreamID
          PROVE  PrinterJobOK(printer[q][u], rows', lastID')
      <4>1. PrinterJobOK(printer[q][u], rows, lastID) /\ printer[q][u].origin \in 0..MaxJobs
        BY DEF IInv, PrintersOK, Types, PrinterJob
      <4>2. printer[q][u].origin # 0 => printer[q][u].origin \in ProxyID \ {p}
        BY <1>1, <4>1, Numbers
      <4> QED BY <1>2, <2>1, <4>1, <4>2 DEF PrinterJobOK
    <3> QED BY <1>2, <3>1 DEF PrintersOK
  <2>4. LatesOK'
    <3>1. ASSUME NEW m \in late PROVE LateOK(m, rows', lastID')
      <4>1. m \in Request /\ LateOK(m, rows, lastID)
        BY DEF IInv, Types, LatesOK
      <4>2. m.op \in {"print", "create"} => m.job # p
        BY DEF IInv, OneSubmitter
      <4> QED BY <1>1, <2>1, <2>2, <4>1, <4>2, LateStable DEF Stable
    <3> QED BY <1>2, <3>1 DEF LatesOK
  <2>5. RequestOK(req'[c], rows', lastID', printer', lost') /\ ~Submits(req'[c])
    BY <2>2, ReturnedRequest
  <2> QED BY <1>1, <1>2, <1>4, <2>1, <2>2, <2>3, <2>4, <2>5, ClientStep
<1> QED BY <1>3, <1>4 DEF Stored

\* The request of a handler that goes on without the printer's answer.
GoesTo(r, pc) == [r EXCEPT !.pc = pc, !.answer = NoAnswer]

\* It keeps everything else.
LEMMA GotoRequest ==
  ASSUME NEW r \in Request, NEW pc \in {"unmapped", "document", "doubt"}
  PROVE  LET s == GoesTo(r, pc) IN
         /\ s \in Request /\ s.pc = pc /\ s.op = r.op /\ s.job = r.job /\ s.id = r.id
         /\ s.queue = r.queue /\ s.todo = r.todo /\ s.answer = NoAnswer
         /\ s.payload = r.payload /\ s.last = r.last
  BY IdleRequest DEF GoesTo, Request, PC

\* It is in order.
LEMMA GotoOK ==
  ASSUME IInv, Types', NEW c \in Clients, StableTable, lost \subseteq lost',
         NEW pc \in {"unmapped", "document", "doubt"},
         NEW s, s = GoesTo(req[c], pc),
         \/ /\ Submits(req[c])
            /\ pc = "document" => rows'[req[c].job].state # "reserved" \/ req[c].job \in lost'
         \/ Works(req[c]) /\ pc # "unmapped" /\ (pc = "document" => req[c].op = "send")
  PROVE  RequestOK(s, rows', lastID', printer', lost')
<1>1. /\ req[c] \in Request /\ req[c].queue \in Queues
      /\ RequestOK(req[c], rows, lastID, printer, lost)
  BY DEF IInv, Types, RequestsOK, RequestOK, Submits, Works
<1>2. /\ s \in Request /\ s.pc = pc /\ s.op = req[c].op /\ s.job = req[c].job /\ s.id = req[c].id
      /\ s.queue = req[c].queue /\ s.todo = req[c].todo /\ s.answer = NoAnswer
  BY <1>1, GotoRequest
<1>3. Submits(s) => SubmitterOK(s, rows', lastID', printer', lost')
  <2> SUFFICES ASSUME Submits(s) PROVE SubmitterOK(s, rows', lastID', printer', lost')
    OBVIOUS
  <2>1. Submits(req[c])
    BY <1>2 DEF Submits, Works
  <2>2. /\ req[c].job \in ProxyID /\ req[c].job <= lastID /\ req[c].id = NoID
        /\ Present(rows, req[c].job) => rows[req[c].job].queue = req[c].queue
    BY <2>1, SubmitterFacts DEF SubmitterOK
  <2>3. req[c].job <= lastID'
    <3>1. req[c].job \in Nat /\ lastID \in Nat /\ lastID' \in Nat /\ lastID <= lastID'
      BY <2>2, Numbers DEF Types, StableTable, IInv
    <3> QED BY <2>2, <3>1
  <2>4. Present(rows', req[c].job) => rows'[req[c].job].queue = req[c].queue
    BY <2>2 DEF StableTable
  <2>5. pc = "document" => rows'[req[c].job].state # "reserved" \/ req[c].job \in lost'
    BY <2>1 DEF Submits, Works
  <2> QED BY <1>2, <2>2, <2>3, <2>4, <2>5 DEF SubmitterOK
<1>4. Works(s) => WorkerOK(s, rows', lastID', printer')
  <2> SUFFICES ASSUME Works(s) PROVE WorkerOK(s, rows', lastID', printer')
    OBVIOUS
  <2>1. Works(req[c]) /\ pc # "unmapped" /\ (pc = "document" => req[c].op = "send")
    BY <1>2 DEF Submits, Works
  <2>2. WorkerOK(req[c], rows, lastID, printer)
    BY <2>1, WorkerFacts
  <2>3. /\ ReadOK(s.queue, s.job, s.id, rows', lastID')
        /\ \A x \in s.todo : ReadOK(s.queue, x[1], x[2], rows', lastID')
    BY <1>2, <2>2, ReadStable DEF WorkerOK, IInv
  <2> QED BY <1>2, <2>1, <2>3 DEF WorkerOK
<1>5. s # Idle /\ s.op # "list" /\ s.op # ""
  BY <1>2, IdleRequest DEF Submits, Works
<1> QED BY <1>1, <1>2, <1>3, <1>4, <1>5 DEF RequestOK

\* A handler goes on after a harmless call.
LEMMA GotoStep ==
  ASSUME IInv, NEW c \in Clients, NEW pc \in {"unmapped", "document", "doubt"},
         req[c].pc # "doubt", Goto(c, pc), Harmless(Own(req[c])),
         lost \subseteq lost', lost' \subseteq ProxyID, UNCHANGED others,
         \/ /\ Submits(req[c])
            /\ pc = "document" => rows'[req[c].job].state # "reserved" \/ req[c].job \in lost'
         \/ Works(req[c]) /\ pc # "unmapped" /\ (pc = "document" => req[c].op = "send")
  PROVE  IInv'
<1> DEFINE s == GoesTo(req[c], pc)
<1>1. req[c] \in Request /\ req \in [Clients -> Request]
  BY DEF IInv, Types
<1>2. req' = [req EXCEPT ![c] = s]
  BY <1>1 DEF Goto, GoesTo
<1>3. s \in Request /\ s.pc = pc /\ s.op = req[c].op /\ s.job = req[c].job
  BY <1>1, GotoRequest
<1> HIDE DEF s
<1>5. Types' /\ req'[c] = s /\ \A d \in Clients \ {c} : req'[d] = req[d]
  BY <1>2, <1>3, ClientTypes DEF Harmless
<1>6. RequestOK(s, rows', lastID', printer', lost')
  BY <1>5, GotoOK DEF Harmless, Stable, s
<1>7. Submits(s) => Submits(req[c])
  BY <1>3 DEF Submits, Works
<1>8. s.pc # "idle"
  BY <1>3
<1> QED BY <1>3, <1>5, <1>6, <1>7, <1>8, HarmlessClientStep DEF others

\* A handler leaves its job in doubt and returns.
LEMMA DoubtStep ==
  ASSUME IInv, NEW c \in Clients, Submits(req[c]) \/ Works(req[c]),
         Stored(req[c].job, MarkUncertain(rows, req[c].queue, req[c].job, now)),
         req' = [req EXCEPT ![c] = Idle], UNCHANGED others
  PROVE  IInv'
<1>1. /\ req[c].job \in ProxyID
      /\ rows[req[c].job].state = "reserved" =>
           req[c].job = Own(req[c]) /\ Found(rows, req[c].queue, req[c].job)
  BY SubmitterFacts, WorkerFacts
<1>2. ASSUME rows' = MarkUncertain(rows, req[c].queue, req[c].job, now),
             UNCHANGED <<lastID, printer>>
      PROVE  Harmless(Own(req[c])) /\ rows'[req[c].job].state # "reserved"
  <2>1. /\ Harmless(Own(req[c]))
        /\ rows'[req[c].job].state = "reserved" => ~Found(rows, req[c].queue, req[c].job)
    BY <1>1, <1>2, MarkUncertainHarmless
  <2>2. rows'[req[c].job].state = "reserved" => rows[req[c].job].state = "reserved"
    <3>1. req[c].job <= lastID
      BY SubmitterFacts, WorkerFacts DEF SubmitterOK, WorkerOK, ReadOK
    <3> QED BY <1>1, <2>1, <3>1 DEF Harmless, Stable, StableTable
  <2> QED BY <1>1, <2>1, <2>2
<1> QED BY <1>1, <1>2, StoredFinish

\* RecorderFailed.
LEMMA RecorderFailedInv ==
  ASSUME IInv, NEW c \in Clients, RecorderFailed(c)
  PROVE  IInv'
<1>1. /\ req[c].pc = "recorder" /\ req' = [req EXCEPT ![c] = Idle] /\ UNCHANGED others
      /\ Stored(req[c].job, IF req[c].op = "print"
                            THEN MarkTerminal(rows, req[c].queue, req[c].job, "failed", now)
                            ELSE MarkUncertain(rows, req[c].queue, req[c].job, now))
  BY DEF RecorderFailed, Finish
<1>2. Submits(req[c]) \/ Works(req[c])
  BY <1>1, RequestKinds DEF ListerOK
<1>3. CASE req[c].op = "print"
  <2>1. Submits(req[c])
    BY <1>1, <1>3 DEF Submits
  <2> QED BY <1>1, <1>3, <2>1, RejectStep
<1>4. CASE req[c].op # "print"
  BY <1>1, <1>2, <1>4, DoubtStep
<1> QED BY <1>3, <1>4

\* LeaveInDoubt.
LEMMA LeaveInDoubtInv ==
  ASSUME IInv, NEW c \in Clients, LeaveInDoubt(c)
  PROVE  IInv'
<1>1. /\ req[c].pc = "doubt" /\ req' = [req EXCEPT ![c] = Idle] /\ UNCHANGED others
      /\ Stored(req[c].job, MarkUncertain(rows, req[c].queue, req[c].job, now))
  BY DEF LeaveInDoubt, Finish
<1>2. Submits(req[c]) \/ Works(req[c])
  BY <1>1, RequestKinds DEF ListerOK
<1> QED BY <1>1, <1>2, DoubtStep

\* The printer took the job and the row may be mapped to it.
LEMMA MappedStep ==
  ASSUME IInv, NEW c \in Clients, Submits(req[c]), req[c].pc = "answered",
         req[c].answer.ok, req[c].answer.id # NoID,
         NEW uri \in Nat, MarkMappedOK(rows, req[c].queue, req[c].job, req[c].answer.id, uri),
         rows' = MarkMapped(rows, req[c].queue, req[c].job, req[c].answer.id, uri),
         UNCHANGED <<lastID, printer>>
  PROVE  Harmless(Own(req[c])) /\ rows'[req[c].job].state # "reserved"
<1> DEFINE p == req[c].job
           q == req[c].queue
           u == req[c].answer.id
<1>1. p \in ProxyID /\ q \in Queues /\ Own(req[c]) = p /\ printer[q][u].origin = p
  BY SubmitterFacts DEF SubmitterOK
<1>2. u \in UpstreamID
  <2>1. u \in 0..MaxJobs
    BY SubmitterFacts DEF Request, Answer
  <2> QED BY <2>1, Numbers
<1>3. printer[q][u].state # "none" /\ Alike(p, printer[q][u].origin)
  BY <1>1, <1>2, Numbers DEF IInv, PrintersOK, PrinterJobOK, Alike
<1>4. MarkMappedOK(rows, q, p, u, uri) /\ rows' = MarkMapped(rows, q, p, u, uri)
  OBVIOUS
<1>5. Own(req[c]) = p /\ req[c].job = p
  BY <1>1
<1> HIDE DEF p, q, u
<1>6. Harmless(p) /\ rows'[p].state = "mapped"
  BY <1>1, <1>2, <1>3, <1>4, MarkMappedHarmless
<1> QED BY <1>5, <1>6

\* Print-Job goes on to record the document, Create-Job returns.
LEMMA AfterMappingInv ==
  ASSUME IInv, NEW c \in Clients, Submits(req[c]), req[c].pc # "doubt", AfterMapping(c),
         Harmless(Own(req[c])), lost \subseteq lost', lost' \subseteq ProxyID, UNCHANGED others,
         rows'[req[c].job].state # "reserved" \/ req[c].job \in lost'
  PROVE  IInv'
<1>2. CASE req[c].op = "print"
  BY <1>2, GotoStep DEF AfterMapping
<1>3. CASE req[c].op # "print"
  BY <1>3, FinishStep DEF AfterMapping, Finish
<1> QED BY <1>2, <1>3

\* URIs are numbers here.
LEMMA URIs == \A u \in Nat : URI(u) \in Nat
  BY DEF URI, NoID

\* SubmissionAnswered.
LEMMA SubmissionAnsweredInv ==
  ASSUME IInv, NEW c \in Clients, SubmissionAnswered(c)
  PROVE  IInv'
<1> DEFINE r == req[c]
           a == r.answer
           mappable == MarkMappedOK(rows, r.queue, r.job, a.id, URI(a.id))
<1>1. /\ r.pc = "answered" /\ Submits(r) /\ UNCHANGED others /\ printer' = printer
      /\ lost \subseteq ProxyID
  BY DEF SubmissionAnswered, Submits, others, IInv, Types
<1>2. CASE ~a.ok /\ Stored(r.job, MarkTerminal(rows, r.queue, r.job, "rejected", now)) /\ Finish(c)
  BY <1>1, <1>2, RejectStep DEF Finish
<1>3. CASE /\ a.ok /\ a.id # NoID /\ mappable
           /\ rows' = MarkMapped(rows, r.queue, r.job, a.id, URI(a.id))
           /\ UNCHANGED <<lastID, lost>>
           /\ AfterMapping(c)
  <2>1. a.id \in Nat
    <3>1. a.id \in 0..MaxJobs
      BY <1>1, SubmitterFacts DEF Request, Answer
    <3> QED BY <3>1, Numbers
  <2>2. URI(a.id) \in Nat
    BY <2>1, URIs
  <2>3. Harmless(Own(r)) /\ rows'[r.job].state # "reserved"
    BY <1>1, <1>3, <2>2, MappedStep
  <2> QED BY <1>1, <1>3, <2>3, AfterMappingInv
<1>4. CASE NothingStored /\ Goto(c, "unmapped")
  <2>1. Harmless(Own(r)) /\ UNCHANGED lost
    BY <1>1, <1>4, QuietHarmless DEF NothingStored
  <2> QED BY <1>1, <1>4, <2>1, GotoStep
<1> QED BY <1>2, <1>3, <1>4 DEF SubmissionAnswered

\* MappingFailed.
LEMMA MappingFailedInv ==
  ASSUME IInv, NEW c \in Clients, MappingFailed(c)
  PROVE  IInv'
<1> DEFINE p == req[c].job
<1>1. /\ req[c].pc = "unmapped" /\ UNCHANGED others /\ AfterMapping(c) /\ lost \subseteq ProxyID
      /\ Stored(p, MarkUncertain(rows, req[c].queue, p, now))
      /\ lastID' = lastID /\ printer' = printer
  BY DEF MappingFailed, Stored, others, IInv, Types
<1>2. Submits(req[c])
  BY <1>1, RequestKinds, WorkerFacts DEF ListerOK, WorkerOK
<1>3. /\ p \in ProxyID /\ p <= lastID /\ Own(req[c]) = p
      /\ rows[p].state = "reserved" => Found(rows, req[c].queue, p)
  BY <1>2, SubmitterFacts DEF SubmitterOK
<1>4. CASE rows' = MarkUncertain(rows, req[c].queue, p, now) /\ UNCHANGED lost
  <2>1. Harmless(p) /\ (rows'[p].state = "reserved" => ~Found(rows, req[c].queue, p))
    BY <1>1, <1>3, <1>4, MarkUncertainHarmless
  <2>2. rows'[p].state # "reserved"
    BY <1>3, <2>1 DEF Harmless, Stable, StableTable
  <2> QED BY <1>1, <1>2, <1>3, <1>4, <2>1, <2>2, AfterMappingInv
<1>5. CASE UNCHANGED rows /\ lost' = lost \cup {p}
  <2>1. Harmless(Own(req[c]))
    BY <1>1, <1>5, QuietHarmless
  <2> QED BY <1>1, <1>2, <1>3, <1>5, <2>1, AfterMappingInv
<1> QED BY <1>1, <1>4, <1>5 DEF Stored

\* RecordDocument.
LEMMA RecordDocumentInv ==
  ASSUME IInv, NEW c \in Clients, RecordDocument(c)
  PROVE  IInv'
<1> DEFINE p == req[c].job
<1>1. req[c].pc = "document" /\ UNCHANGED others /\ printer' = printer /\ lost \subseteq ProxyID
  BY DEF RecordDocument, others, IInv, Types
<1>2. Submits(req[c]) \/ Works(req[c])
  BY <1>1, RequestKinds DEF ListerOK
<1>3. /\ p \in ProxyID /\ req[c] \in Request
      /\ rows[p].state = "reserved" => p = Own(req[c]) /\ p \in lost
  BY <1>1, <1>2, SubmitterFacts, WorkerFacts DEF SubmitterOK
<1>4. CASE /\ rows' = UpdateDocument(rows, req[c].queue, p, req[c].payload, req[c].last)
           /\ UNCHANGED <<lastID, lost>>
           /\ Finish(c)
  <2>1. req[c].payload \in BOOLEAN /\ req[c].last \in BOOLEAN
    BY <1>3 DEF Request
  <2>2. Harmless(Own(req[c])) /\ rows'[p].state = rows[p].state
    BY <1>1, <1>3, <1>4, <2>1, UpdateDocumentHarmless
  <2> QED BY <1>1, <1>3, <1>4, <2>2, FinishStep DEF Finish
<1>5. CASE NothingStored /\ Goto(c, "doubt")
  <2>1. Harmless(Own(req[c])) /\ UNCHANGED lost
    BY <1>1, <1>5, QuietHarmless DEF NothingStored
  <2> QED BY <1>1, <1>2, <1>5, <2>1, GotoStep
<1> QED BY <1>4, <1>5 DEF RecordDocument

\* A harmless call does not reserve the job a handler works on.
LEMMA WorkerRow ==
  ASSUME IInv, NEW c \in Clients, Works(req[c]), NEW own, Harmless(own)
  PROVE  rows'[req[c].job].state # "reserved"
  BY WorkerFacts DEF WorkerOK, ReadOK, Harmless, Stable, StableTable

\* SendDocumentAnswered.
LEMMA SendDocumentAnsweredInv ==
  ASSUME IInv, NEW c \in Clients, SendDocumentAnswered(c)
  PROVE  IInv'
<1> DEFINE r == req[c]
<1>1. r.pc = "answered" /\ r.op = "send" /\ UNCHANGED others /\ printer' = printer /\ lost \subseteq ProxyID
  BY DEF SendDocumentAnswered, others, IInv, Types
<1>2. Works(r)
  BY <1>1 DEF Works
<1>3. CASE Stored(r.job, UpdateState(rows, r.queue, r.job, "failed", now)) /\ Finish(c)
  <2>1. ASSUME rows' = UpdateState(rows, r.queue, r.job, "failed", now), UNCHANGED <<lastID, printer>>
        PROVE  Harmless(Own(r)) /\ rows'[r.job].state # "reserved"
    <3>1. Harmless(Own(r))
      BY <1>2, <2>1, WorkerFacts, UpdateStateHarmless
    <3> QED BY <1>2, <3>1, WorkerRow
  <2> QED BY <1>1, <1>2, <1>3, <2>1, WorkerFacts, StoredFinish DEF Finish
<1>4. CASE NothingStored /\ Goto(c, "document")
  <2>1. Harmless(Own(r)) /\ UNCHANGED lost
    BY <1>1, <1>4, QuietHarmless DEF NothingStored
  <2> QED BY <1>1, <1>2, <1>4, <2>1, GotoStep
<1> QED BY <1>3, <1>4 DEF SendDocumentAnswered

\* A handler that works on a mapped job returns without a registry call.
LEMMA WorkerReturns ==
  ASSUME IInv, NEW c \in Clients, Works(req[c]), NothingStored,
         req' = [req EXCEPT ![c] = Idle], UNCHANGED others
  PROVE  IInv'
<1>1. lost \subseteq lost' /\ lost' \subseteq ProxyID /\ UNCHANGED <<rows, lastID, printer>>
  BY DEF IInv, Types, NothingStored, others
<1>2. Harmless(Own(req[c]))
  BY <1>1, QuietHarmless
<1> QED BY <1>1, <1>2, WorkerRow, FinishStep

\* What an accepted cancellation records is so.
LEMMA CancellationHarmless ==
  ASSUME IInv, NEW c \in Clients, req[c].pc = "answered", req[c].answer.ok,
         req[c].op \in {"cancel", "cancelMine"},
         rows' = MarkTerminal(rows, req[c].queue, req[c].job, "canceled", now),
         UNCHANGED <<lastID, printer>>
  PROVE  Harmless(Own(req[c]))
<1>1. Works(req[c])
  BY DEF Works
<1>2. /\ Found(rows, req[c].queue, req[c].job) =>
           /\ rows[req[c].job].upstreamID # NoID
           /\ Done(printer[req[c].queue][rows[req[c].job].upstreamID])
      /\ req[c].job \in ProxyID /\ rows[req[c].job].state # "reserved"
  BY <1>1, WorkerFacts DEF WorkerOK
<1> QED BY <1>2, FinalsAreTerminal, MarkTerminalHarmless

\* MappedJobOperationAnswered.
LEMMA MappedJobOperationAnsweredInv ==
  ASSUME IInv, NEW c \in Clients, MappedJobOperationAnswered(c)
  PROVE  IInv'
<1> DEFINE r == req[c]
<1>1. /\ r.pc = "answered" /\ r.op \in {"get", "cancel", "close"} /\ UNCHANGED others
      /\ req' = [req EXCEPT ![c] = Idle]
  BY DEF MappedJobOperationAnswered, Finish
<1>2. Works(r)
  BY <1>1 DEF Works
<1>3. CASE ~r.answer.ok
  BY <1>1, <1>2, <1>3, WorkerReturns DEF MappedJobOperationAnswered
<1>4. CASE r.answer.ok /\ r.op = "cancel"
  <2>1. Stored(r.job, MarkTerminal(rows, r.queue, r.job, "canceled", now))
    BY <1>4 DEF MappedJobOperationAnswered
  <2>2. ASSUME rows' = MarkTerminal(rows, r.queue, r.job, "canceled", now), UNCHANGED <<lastID, printer>>
        PROVE  Harmless(Own(r)) /\ rows'[r.job].state # "reserved"
    BY <1>1, <1>2, <1>4, <2>2, CancellationHarmless, WorkerRow
  <2> QED BY <1>1, <1>2, <2>1, <2>2, WorkerFacts, StoredFinish
<1>5. CASE r.answer.ok /\ r.op # "cancel"
  <2>1. Stored(r.job, syncObservedJob(rows, r.queue, r.job, r.answer.state))
    BY <1>5 DEF MappedJobOperationAnswered
  <2>2. r.answer.state \in {"", "active"} \cup Finals
    BY <1>2, WorkerFacts DEF Request, Answer
  <2>3. r.answer.state \in Finals /\ Found(rows, r.queue, r.job) =>
          rows[r.job].upstreamID # NoID /\ Done(printer[r.queue][rows[r.job].upstreamID])
    BY <1>1, <1>2, <1>5, WorkerFacts DEF WorkerOK
  <2>4. ASSUME rows' = syncObservedJob(rows, r.queue, r.job, r.answer.state), UNCHANGED <<lastID, printer>>
        PROVE  Harmless(Own(r)) /\ rows'[r.job].state # "reserved"
    <3>1. Harmless(Own(r))
      BY <1>2, <2>2, <2>3, <2>4, WorkerFacts, SyncHarmless
    <3> QED BY <1>2, <3>1, WorkerRow
  <2> QED BY <1>1, <1>2, <2>1, <2>4, WorkerFacts, StoredFinish
<1> QED BY <1>3, <1>4, <1>5

-----------------------------------------------------------------------------
(* Get-Jobs and Cancel-My-Jobs.                                            *)

\* What the invariant says of a handler that lists.
LEMMA ListerFacts ==
  ASSUME IInv, NEW c \in Clients, req[c].op = "list"
  PROVE  /\ req[c] \in Request /\ req[c].queue \in Queues /\ ListerOK(req[c], printer)
         /\ req[c].job = 0 /\ req[c].job \notin ProxyID
         /\ ~Submits(req[c]) /\ Own(req[c]) = 0
<1>1. req[c] \in Request /\ ListerOK(req[c], printer) /\ req[c].queue \in Queues
  BY DEF IInv, Types, RequestsOK, RequestOK, ListerOK
<1> QED BY <1>1, Numbers DEF ListerOK, Submits, Own

\* A lister that only moves on to s stays in order.
LEMMA ListerStep ==
  ASSUME IInv, NEW c \in Clients, req[c].op = "list", NEW s \in Request,
         req' = [req EXCEPT ![c] = s],
         s.op = "list" /\ s.queue = req[c].queue /\ s.job = 0 /\ s.id = NoID,
         s.pc = "joining" /\ s.answer = req[c].answer,
         Harmless(0), lost \subseteq lost', lost' \subseteq ProxyID, UNCHANGED others
  PROVE  IInv'
<1>1. Types' /\ req'[c] = s /\ \A d \in Clients \ {c} : req'[d] = req[d]
  BY ClientTypes DEF Harmless
<1>2. ListerOK(s, printer')
  BY ListerFacts DEF ListerOK, Harmless
<1>3. RequestOK(s, rows', lastID', printer', lost') /\ ~Submits(s)
  BY <1>2, ListerFacts, IdleRequest DEF RequestOK, Submits, Works
<1> QED BY <1>1, <1>3, ListerFacts, HarmlessClientStep DEF others

\* GetJobsAnswered.
LEMMA GetJobsAnsweredInv ==
  ASSUME IInv, NEW c \in Clients, GetJobsAnswered(c)
  PROVE  IInv'
<1> DEFINE r == req[c]
           todo == {x \in {0} \X UpstreamID : r.answer.list[x[2]] # ""}
           s == [r EXCEPT !.pc = "joining", !.todo = todo]
<1>1. /\ r.pc = "answered" /\ r.op = "list" /\ UNCHANGED <<rows, lastID, lost, printer>>
      /\ UNCHANGED others
  BY DEF GetJobsAnswered, others, store
<1>2. r \in Request /\ req \in [Clients -> Request] /\ lost \subseteq ProxyID
  BY DEF IInv, Types
<1>3. req' = [req EXCEPT ![c] = s]
  BY <1>2 DEF GetJobsAnswered
<1>4. todo \in SUBSET ((0..MaxJobs) \X UpstreamID)
  <2>1. 0 \in 0..MaxJobs
    BY Numbers
  <2>2. {0} \X UpstreamID \subseteq (0..MaxJobs) \X UpstreamID
    BY <2>1
  <2> QED BY <2>2
<1> HIDE DEF todo
<1>5. /\ s \in Request /\ s.op = r.op /\ s.queue = r.queue /\ s.job = r.job /\ s.id = r.id
      /\ s.pc = "joining" /\ s.answer = r.answer
  BY <1>2, <1>4 DEF Request, PC
<1> HIDE DEF s
<1>6. Harmless(0)
  BY <1>1, QuietHarmless
<1> QED BY <1>1, <1>2, <1>3, <1>5, <1>6, ListerFacts, ListerStep DEF ListerOK

\* JoinJob: the row is found by its number, so it is not a reserved one.
LEMMA JoinJobInv ==
  ASSUME IInv, NEW c \in Clients, NEW u \in UpstreamID, JoinJob(c, u)
  PROVE  IInv'
<1> DEFINE r == req[c]
           hits == {p \in ProxyID : Found(rows, r.queue, p) /\ rows[p].upstreamID = u}
           todo == r.todo \ {<<0, u>>}
           s == [r EXCEPT !.todo = todo]
<1>1. r.pc = "joining" /\ UNCHANGED others /\ printer' = printer /\ lost \subseteq ProxyID
  BY DEF JoinJob, others, IInv, Types
<1>2. r.op = "list"
  BY <1>1, RequestKinds, SubmitterFacts, WorkerFacts DEF SubmitterOK, WorkerOK
<1>3. r \in Request /\ req \in [Clients -> Request] /\ r.job = 0 /\ r.id = NoID /\ r.queue \in Queues
  BY <1>2, ListerFacts DEF IInv, Types, ListerOK
<1>4. req' = [req EXCEPT ![c] = s]
  BY <1>3 DEF JoinJob
<1>5. todo \in SUBSET ((0..MaxJobs) \X UpstreamID)
  BY <1>3 DEF Request
<1> HIDE DEF todo
<1>6. /\ s \in Request /\ s.op = r.op /\ s.queue = r.queue /\ s.job = r.job /\ s.id = r.id
      /\ s.pc = r.pc /\ s.answer = r.answer
  BY <1>3, <1>5 DEF Request
<1> HIDE DEF s
<1>7. Harmless(0) /\ lost \subseteq lost' /\ lost' \subseteq ProxyID
  <2>1. CASE NothingStored
    BY <1>1, <2>1, QuietHarmless DEF NothingStored
  <2>2. ASSUME NEW p \in hits, Stored(p, syncObservedJob(rows, r.queue, p, r.answer.list[u]))
        PROVE  Harmless(0) /\ lost \subseteq lost' /\ lost' \subseteq ProxyID
    <3>1. p \in ProxyID /\ Found(rows, r.queue, p) /\ rows[p].upstreamID = u /\ u # NoID
      BY Numbers
    <3>2. rows[p].state # "reserved"
      BY <3>1 DEF IInv, RowsOK, RowOK
    <3>3. r.answer.list[u] \in {"", "active"} \cup Finals
      BY <1>3 DEF Request, Answer
    <3>4. r.answer.list[u] \in Finals => Done(printer[r.queue][u])
      BY <1>2, ListerFacts DEF ListerOK
    <3>5. CASE rows' = syncObservedJob(rows, r.queue, p, r.answer.list[u]) /\ UNCHANGED lost
      <4>1. UNCHANGED <<lastID, printer>>
        BY <1>1, <2>2 DEF Stored
      <4> QED BY <1>1, <3>1, <3>2, <3>3, <3>4, <3>5, <4>1, SyncHarmless
    <3>6. CASE UNCHANGED rows /\ lost' = lost \cup {p}
      <4>1. UNCHANGED <<rows, lastID, printer>>
        BY <1>1, <2>2, <3>6 DEF Stored
      <4> QED BY <1>1, <3>1, <3>6, <4>1, QuietHarmless
    <3> QED BY <2>2, <3>5, <3>6 DEF Stored
  <2>3. ASSUME hits # {}
        PROVE  (CHOOSE p \in hits : TRUE) \in hits
    BY <2>3
  <2> QED BY <2>1, <2>2, <2>3 DEF JoinJob
<1> QED BY <1>1, <1>2, <1>3, <1>4, <1>6, <1>7, ListerStep

\* GetJobsDone.
LEMMA GetJobsDoneInv ==
  ASSUME IInv, NEW c \in Clients, GetJobsDone(c)
  PROVE  IInv'
<1>1. /\ req[c].pc = "joining" /\ req' = [req EXCEPT ![c] = Idle] /\ UNCHANGED others
      /\ UNCHANGED <<rows, lastID, printer, lost>> /\ lost \subseteq ProxyID
  BY DEF GetJobsDone, Finish, NothingStored, others, IInv, Types
<1>2. req[c].op = "list"
  BY <1>1, RequestKinds, SubmitterFacts, WorkerFacts DEF SubmitterOK, WorkerOK
<1>3. Harmless(Own(req[c]))
  BY <1>1, QuietHarmless
<1> QED BY <1>1, <1>2, <1>3, ListerFacts, FinishStep

\* The next Cancel-Job of Cancel-My-Jobs works on a row that was read.
LEMMA CancelNextOK ==
  ASSUME NEW T, NEW n, NEW P, NEW L, NEW r \in Request, NEW pairs, r.queue \in Queues,
         r.op = "cancelMine", pairs \in SUBSET ((0..MaxJobs) \X UpstreamID),
         \A x \in pairs : ReadOK(r.queue, x[1], x[2], T, n),
         NEW s \in CancelNext(r, pairs)
  PROVE  s \in Request /\ RequestOK(s, T, n, P, L) /\ ~Submits(s)
<1>1. CASE pairs = {}
  BY <1>1, IdleRequest DEF CancelNext, Submits
<1>2. CASE pairs # {}
  <2>1. PICK x \in pairs :
          s = [r EXCEPT !.pc = "sent", !.answer = NoAnswer, !.todo = pairs \ {x},
                        !.job = x[1], !.id = x[2]]
    BY <1>2 DEF CancelNext
  <2>2. ReadOK(r.queue, x[1], x[2], T, n) /\ x[1] \in 0..MaxJobs /\ x[2] \in 0..MaxJobs
    BY Numbers DEF ReadOK
  <2>3. pairs \ {x} \in SUBSET ((0..MaxJobs) \X UpstreamID)
    OBVIOUS
  <2>4. /\ s \in Request /\ s.pc = "sent" /\ s.op = "cancelMine" /\ s.queue = r.queue
        /\ s.job = x[1] /\ s.id = x[2] /\ s.todo = pairs \ {x} /\ s.answer = NoAnswer
    BY <2>1, <2>2, <2>3, IdleRequest DEF Request, PC
  <2>5. WorkerOK(s, T, n, P)
    BY <2>2, <2>4 DEF WorkerOK
  <2> QED BY <2>4, <2>5, IdleRequest DEF RequestOK, Submits
<1> QED BY <1>1, <1>2

\* CancelMyJobsAnswered.
LEMMA CancelMyJobsAnsweredInv ==
  ASSUME IInv, NEW c \in Clients, CancelMyJobsAnswered(c)
  PROVE  IInv'
<1> DEFINE r == req[c]
<1>1. /\ r.pc \in {"answered", "doubt"} /\ r.op = "cancelMine" /\ UNCHANGED others
      /\ printer' = printer /\ lost \subseteq ProxyID
  BY DEF CancelMyJobsAnswered, others, IInv, Types
<1>2. Works(r)
  BY <1>1 DEF Works
<1>3. PICK s \in CancelNext(r, r.todo) : req' = [req EXCEPT ![c] = s]
  BY DEF CancelMyJobsAnswered
<1>4. Harmless(Own(r)) /\ lost \subseteq lost' /\ lost' \subseteq ProxyID
  <2>1. CASE UNCHANGED <<rows, lastID>> /\ lost' \in {lost, lost \cup {r.job}}
    BY <1>1, <1>2, <2>1, QuietHarmless, WorkerFacts
  <2>2. CASE /\ rows' = MarkUncertain(rows, r.queue, r.job, now)
             /\ UNCHANGED <<lastID, lost>>
    BY <1>1, <1>2, <2>2, MarkUncertainHarmless, WorkerFacts
  <2>3. CASE /\ r.pc = "answered" /\ r.answer.ok
             /\ rows' = MarkTerminal(rows, r.queue, r.job, "canceled", now)
             /\ UNCHANGED <<lastID, lost>>
    BY <1>1, <2>3, CancellationHarmless
  <2> QED BY <1>1, <2>1, <2>2, <2>3 DEF CancelMyJobsAnswered, Stored, NothingStored
<1>5. rows'[r.job].state # "reserved"
  BY <1>2, <1>4, WorkerRow
<1>6. /\ r.todo \in SUBSET ((0..MaxJobs) \X UpstreamID) /\ r \in Request /\ r.queue \in Queues
      /\ \A x \in r.todo : ReadOK(r.queue, x[1], x[2], rows, lastID)
  BY <1>2, WorkerFacts DEF Request, WorkerOK
<1>7. s \in Request
  BY <1>1, <1>6, CancelNextOK
<1>8. Types' /\ req'[c] = s /\ \A d \in Clients \ {c} : req'[d] = req[d]
  BY <1>1, <1>3, <1>4, <1>7, ClientTypes DEF Harmless
<1>9. \A x \in r.todo : ReadOK(r.queue, x[1], x[2], rows', lastID')
  BY <1>4, <1>6, <1>8, ReadStable DEF IInv, Harmless, Stable
<1>10. RequestOK(s, rows', lastID', printer', lost') /\ ~Submits(s)
  BY <1>1, <1>6, <1>9, CancelNextOK
<1> QED BY <1>1, <1>4, <1>5, <1>8, <1>10, HarmlessClientStep DEF others

-----------------------------------------------------------------------------
(* New requests.                                                           *)

\* A client gets a handler that has not touched the registry yet.
LEMMA StartStep ==
  ASSUME IInv, NEW c \in Clients, req[c] = Idle, NEW s \in Request, req' = [req EXCEPT ![c] = s],
         UNCHANGED <<rows, lastID, lost>>, UNCHANGED others,
         RequestOK(s, rows, lastID, printer, lost), ~Submits(s)
  PROVE  IInv'
<1>1. lost \subseteq ProxyID /\ rows \in Tables
  BY DEF IInv, Types
<1>2. Types' /\ req'[c] = s /\ \A d \in Clients \ {c} : req'[d] = req[d]
  BY <1>1, ClientTypes
<1>3. RequestOK(req'[c], rows', lastID', printer', lost') /\ ~Submits(req'[c])
  BY <1>2 DEF others
<1>4. Harmless(Own(req[c]))
  BY QuietHarmless DEF others
<1>5. req[c].job \notin ProxyID
  BY IdleRequest, Numbers
<1> QED BY <1>2, <1>3, <1>4, <1>5, HarmlessClientStep DEF others

\* PrintJob.
LEMMA PrintJobInv ==
  ASSUME IInv, NEW c \in Clients, NEW q \in Queues, PrintJob(c, q)
  PROVE  IInv'
<1> DEFINE s == [Idle EXCEPT !.pc = "staging", !.op = "print", !.queue = q,
                             !.payload = TRUE, !.last = TRUE]
<1>1. req[c] = Idle /\ req' = [req EXCEPT ![c] = s] /\ UNCHANGED <<rows, lastID, lost>> /\ UNCHANGED others
  BY DEF PrintJob, store
<1>2. /\ s \in Request /\ s.pc = "staging" /\ s.op = "print" /\ s.queue = q
      /\ s.job = 0 /\ s.id = NoID
  BY IdleRequest, Numbers DEF Idle, Request, PC
<1> HIDE DEF s
<1>3. RequestOK(s, rows, lastID, printer, lost) /\ ~Submits(s)
  BY <1>2, IdleRequest DEF RequestOK, Submits, Works
<1> QED BY <1>1, <1>2, <1>3, StartStep

\* GetJobs.
LEMMA GetJobsInv ==
  ASSUME IInv, NEW c \in Clients, NEW q \in Queues, GetJobs(c, q)
  PROVE  IInv'
<1> DEFINE s == [Idle EXCEPT !.pc = "sent", !.op = "list", !.queue = q]
<1>1. req[c] = Idle /\ req' = [req EXCEPT ![c] = s] /\ UNCHANGED <<rows, lastID, lost>> /\ UNCHANGED others
  BY DEF GetJobs, store
<1>2. /\ s \in Request /\ s.pc = "sent" /\ s.op = "list" /\ s.queue = q
      /\ s.job = 0 /\ s.id = NoID /\ s.answer = NoAnswer
  BY IdleRequest, Numbers DEF Idle, Request, PC
<1> HIDE DEF s
<1>3. \A u \in UpstreamID : NoAnswer.list[u] = ""
  BY DEF NoAnswer, NoList
<1>4. ListerOK(s, printer)
  BY <1>2, <1>3, FinalsAreTerminal DEF ListerOK
<1>5. RequestOK(s, rows, lastID, printer, lost) /\ ~Submits(s)
  BY <1>2, <1>4, IdleRequest DEF RequestOK, Submits, Works
<1> QED BY <1>1, <1>2, <1>5, StartStep

\* What a handler reads of a mapped row it found.
LEMMA ReadRow ==
  ASSUME IInv, NEW q, NEW p \in ProxyID, Found(rows, q, p), rows[p].upstreamID # NoID
  PROVE  ReadOK(q, p, rows[p].upstreamID, rows, lastID)
<1>1. RowOK(p, rows[p], lastID, printer)
  BY RowFacts
<1> QED BY <1>1 DEF ReadOK, RowOK, Found, Present

\* A handler that goes by what it has just read is in order.
LEMMA ReaderOK ==
  ASSUME IInv, NEW s \in Request, s.queue \in Queues, Works(s), s.todo = {},
         s.op = "send" \/ s.pc = "sent", s.pc \in {"staging", "sent"},
         ReadOK(s.queue, s.job, s.id, rows, lastID)
  PROVE  RequestOK(s, rows, lastID, printer, lost) /\ ~Submits(s)
<1>1. WorkerOK(s, rows, lastID, printer)
  BY DEF WorkerOK
<1> QED BY <1>1, IdleRequest DEF RequestOK, Submits, Works

\* SendDocument.
LEMMA SendDocumentInv ==
  ASSUME IInv, NEW c \in Clients, NEW q \in Queues, NEW p \in ProxyID, SendDocument(c, q, p)
  PROVE  IInv'
<1> DEFINE s(payload, last) == [Idle EXCEPT
             !.pc = "staging", !.op = "send", !.queue = q, !.job = p, !.id = rows[p].upstreamID,
             !.payload = payload, !.last = last]
<1>1. /\ req[c] = Idle /\ UNCHANGED <<rows, lastID, lost>> /\ UNCHANGED others
      /\ Found(rows, q, p) /\ rows[p].upstreamID # NoID
  BY DEF SendDocument, store
<1>2. PICK payload \in BOOLEAN, last \in BOOLEAN : req' = [req EXCEPT ![c] = s(payload, last)]
  BY DEF SendDocument
<1>3. ReadOK(q, p, rows[p].upstreamID, rows, lastID)
  BY <1>1, ReadRow
<1>4. p \in 0..MaxJobs /\ rows[p].upstreamID \in 0..MaxJobs
  BY <1>3, Numbers DEF ReadOK
<1> DEFINE t == s(payload, last)
<1>5. /\ t \in Request /\ t.pc = "staging" /\ t.op = "send" /\ t.queue = q
      /\ t.job = p /\ t.id = rows[p].upstreamID /\ t.todo = {}
  BY <1>4, IdleRequest DEF Idle, Request, PC
<1>6. req' = [req EXCEPT ![c] = t]
  BY <1>2
<1> HIDE DEF t
<1>7. RequestOK(t, rows, lastID, printer, lost) /\ ~Submits(t)
  BY <1>3, <1>5, ReaderOK DEF Works
<1> QED BY <1>1, <1>5, <1>6, <1>7, StartStep

\* MappedJobOperation.
LEMMA MappedJobOperationInv ==
  ASSUME IInv, NEW c \in Clients, NEW q \in Queues, NEW p \in ProxyID,
         NEW op \in {"get", "cancel", "close"}, MappedJobOperation(c, q, p, op)
  PROVE  IInv'
<1> DEFINE s == [Idle EXCEPT
             !.pc = "sent", !.op = op, !.queue = q, !.job = p, !.id = rows[p].upstreamID]
<1>1. /\ req[c] = Idle /\ UNCHANGED <<rows, lastID, lost>> /\ UNCHANGED others
      /\ Found(rows, q, p) /\ rows[p].upstreamID # NoID /\ req' = [req EXCEPT ![c] = s]
  BY DEF MappedJobOperation, store
<1>2. ReadOK(q, p, rows[p].upstreamID, rows, lastID)
  BY <1>1, ReadRow
<1>3. p \in 0..MaxJobs /\ rows[p].upstreamID \in 0..MaxJobs
  BY <1>2, Numbers DEF ReadOK
<1>4. /\ s \in Request /\ s.pc = "sent" /\ s.op = op /\ s.queue = q
      /\ s.job = p /\ s.id = rows[p].upstreamID /\ s.todo = {}
  BY <1>3, IdleRequest DEF Idle, Request, PC
<1> HIDE DEF s
<1>5. RequestOK(s, rows, lastID, printer, lost) /\ ~Submits(s)
  BY <1>2, <1>4, ReaderOK DEF Works
<1> QED BY <1>1, <1>4, <1>5, StartStep

\* CancelMyJobs.
LEMMA CancelMyJobsInv ==
  ASSUME IInv, NEW c \in Clients, NEW q \in Queues, NEW user \in Users, CancelMyJobs(c, q, user)
  PROVE  IInv'
<1> DEFINE mine == {p \in ListOpenJobs(rows, q, user) : rows[p].upstreamID # NoID}
           pairs == {<<p, rows[p].upstreamID>> : p \in mine}
           r == [Idle EXCEPT !.op = "cancelMine", !.queue = q]
<1>1. req[c] = Idle /\ UNCHANGED <<rows, lastID, lost>> /\ UNCHANGED others
  BY DEF CancelMyJobs, store
<1>2. PICK s \in CancelNext(r, pairs) : req' = [req EXCEPT ![c] = s]
  BY DEF CancelMyJobs
<1>3. \A p \in mine : /\ p \in ProxyID /\ ReadOK(q, p, rows[p].upstreamID, rows, lastID)
                      /\ p \in 0..MaxJobs /\ rows[p].upstreamID \in UpstreamID
  <2>1. \A p \in mine : p \in ProxyID /\ Found(rows, q, p) /\ rows[p].upstreamID # NoID
    BY DEF ListOpenJobs
  <2> QED BY <2>1, ReadRow, Numbers DEF ReadOK
<1> HIDE DEF mine
<1>4. pairs \in SUBSET ((0..MaxJobs) \X UpstreamID)
  BY <1>3
<1>5. \A x \in pairs : ReadOK(q, x[1], x[2], rows, lastID)
  BY <1>3
<1>6. r \in Request /\ r.queue = q /\ r.op = "cancelMine"
  BY IdleRequest DEF Idle, Request
<1> HIDE DEF pairs, r
<1>7. s \in Request /\ RequestOK(s, rows, lastID, printer, lost) /\ ~Submits(s)
  BY <1>4, <1>5, <1>6, CancelNextOK
<1> QED BY <1>1, <1>2, <1>7, StartStep

\* A reservation takes a number that nothing refers to.
LEMMA ReserveStep ==
  ASSUME IInv, NEW c \in Clients, NEW q \in Queues, lastID < MaxJobs, lastID' = lastID + 1,
         rows' = Reserve(rows, lastID + 1, q, UserOf[lastID + 1], NameOf[lastID + 1]),
         ~Submits(req[c]), req[c].job = 0,
         NEW s \in Request, req' = [req EXCEPT ![c] = s],
         s.op \in {"print", "create"}, s.pc \in {"sent", "recorder"}, s.queue = q,
         s.job = lastID + 1, s.id = NoID,
         UNCHANGED lost, UNCHANGED others
  PROVE  IInv'
<1> DEFINE p == lastID + 1
<1>1. /\ lastID \in Nat /\ p \in Nat /\ p \in ProxyID /\ p # 0 /\ p \in 0..MaxJobs
      /\ lastID <= p
      /\ \A o \in 0..MaxJobs : o <= lastID => o # p
  <2>1. lastID \in 0..MaxJobs
    BY DEF IInv, Types
  <2> QED BY <2>1, MaxJobsAssumption DEF ProxyID
<1>2. /\ rows' = Reserve(rows, p, q, UserOf[p], NameOf[p]) /\ lastID' = p /\ s.job = p
      /\ UNCHANGED <<now, printer, late, maint, lost>>
  BY DEF others
<1>3. /\ rows' \in Tables
      /\ \A o \in ProxyID \ {p} : rows'[o] = rows[o]
      /\ rows'[p].state = "reserved" /\ rows'[p].queue = q /\ rows'[p].observed = ""
      /\ rows'[p].upstreamID = NoID /\ rows'[p].upstreamURI = NoID
  <2>1. UserOf[p] \in Users \cup {""} /\ NameOf[p] \in Names \cup {""} /\ rows \in Tables
    BY <1>1, LifecycleAssumption DEF IInv, Types
  <2>2. Reserves(rows, p, q, rows')
    BY <1>1, <1>2, <2>1, ReserveEffect
  <2> QED BY <2>2 DEF Reserves
<1> HIDE DEF p
<1>4. Types' /\ req'[c] = s /\ \A d \in Clients \ {c} : req'[d] = req[d]
  BY <1>1, <1>2, <1>3 DEF IInv, Types
<1>5. StableTable
  BY <1>1, <1>2, <1>3, Numbers DEF StableTable, Present
<1>6. StablePrinter
  BY <1>2, PrinterUnchanged
<1>7. Stable(p)
  BY <1>2, <1>3, <1>5, <1>6, PrinterUnchanged DEF Stable, Spares
<1>8. RowsOK'
  <2>1. ASSUME NEW o \in ProxyID, o # p PROVE RowOK(o, rows'[o], lastID', printer')
    <3>1. Types /\ RowOK(o, rows[o], lastID, printer)
      BY DEF IInv, RowsOK
    <3> QED BY <1>3, <1>4, <1>5, <1>6, <2>1, <3>1, RowStable
  <2>2. RowOK(p, rows'[p], lastID', printer')
    <3>1. p <= lastID'
      BY <1>1, <1>2
    <3>2. "" \notin Finals
      BY FinalsAreTerminal
    <3> QED BY <1>3, <3>1, <3>2 DEF RowOK
  <2> QED BY <2>1, <2>2 DEF RowsOK
<1>9. PrintersOK'
  <2>1. ASSUME NEW k \in Queues, NEW u \in UpstreamID
        PROVE  PrinterJobOK(printer[k][u], rows', lastID')
    <3>1. PrinterJobOK(printer[k][u], rows, lastID) /\ printer[k][u].origin \in 0..MaxJobs
      BY DEF IInv, PrintersOK, Types, PrinterJob
    <3>2. printer[k][u].origin # 0 =>
            printer[k][u].origin \in ProxyID \ {p} /\ printer[k][u].origin <= lastID'
      <4>1. printer[k][u].origin \in Nat
        BY <3>1, Numbers
      <4>2. printer[k][u].origin # 0 => printer[k][u].origin <= lastID
        BY <3>1 DEF PrinterJobOK
      <4>3. printer[k][u].origin # 0 => printer[k][u].origin \in ProxyID
        BY <3>1, Numbers
      <4> QED BY <1>1, <1>2, <3>1, <4>1, <4>2, <4>3
    <3> QED BY <1>3, <3>1, <3>2 DEF PrinterJobOK
  <2> QED BY <1>2, <2>1 DEF PrintersOK
<1>10. \A m \in late : m.op \in {"print", "create"} => m.job \in ProxyID \ {p}
  <2>1. ASSUME NEW m \in late, m.op \in {"print", "create"} PROVE m.job \in ProxyID \ {p}
    <3>1. m.job \in ProxyID /\ m.job <= lastID
      BY <2>1 DEF IInv, LatesOK, LateOK
    <3> QED BY <1>1, <3>1, Numbers
  <2> QED BY <2>1
<1>11. LatesOK'
  <2>1. ASSUME NEW m \in late PROVE LateOK(m, rows', lastID')
    <3>1. Types /\ m \in Request /\ LateOK(m, rows, lastID)
      BY DEF IInv, Types, LatesOK
    <3> QED BY <1>3, <1>4, <1>5, <1>10, <3>1, LateStable
  <2> QED BY <1>2, <2>1 DEF LatesOK
<1>12. \A d \in Clients : Submits(req[d]) => req[d].job # p
  <2>1. ASSUME NEW d \in Clients, Submits(req[d]) PROVE req[d].job # p
    <3>1. req[d].job \in ProxyID /\ req[d].job <= lastID
      BY <2>1, SubmitterFacts DEF SubmitterOK
    <3> QED BY <1>1, <3>1, Numbers
  <2> QED BY <2>1
<1>13. RequestsOK'
  <2>1. ASSUME NEW d \in Clients \ {c}
        PROVE  RequestOK(req[d], rows', lastID', printer', lost')
    <3>1. Types /\ PrintersOK /\ req[d] \in Request /\ RequestOK(req[d], rows, lastID, printer, lost)
      BY DEF IInv, Types, RequestsOK
    <3> QED BY <1>2, <1>4, <1>7, <1>12, <3>1, RequestStable
  <2>2. RequestOK(s, rows', lastID', printer', lost')
    <3>1. \A k \in Queues, u \in UpstreamID : printer'[k][u].origin # p
      <4>1. ASSUME NEW k \in Queues, NEW u \in UpstreamID PROVE printer[k][u].origin # p
        <5>1. PrinterJobOK(printer[k][u], rows, lastID) /\ printer[k][u].origin \in 0..MaxJobs
          BY DEF IInv, PrintersOK, Types, PrinterJob
        <5>2. printer[k][u].origin # 0 => printer[k][u].origin <= lastID
          BY <5>1 DEF PrinterJobOK
        <5> QED BY <1>1, <5>1, <5>2
      <4> QED BY <1>2, <4>1
    <3>2. p <= lastID'
      BY <1>1, <1>2
    <3>3. SubmitterOK(s, rows', lastID', printer', lost')
      BY <1>1, <1>2, <1>3, <3>1, <3>2 DEF SubmitterOK
    <3> QED BY <3>3, IdleRequest DEF RequestOK, Works
  <2> QED BY <1>4, <2>1, <2>2 DEF RequestsOK
<1>14. MaintOK'
  BY <1>2, <1>4, <1>5, <1>6, MaintStable DEF IInv
<1>15. OneSubmitter'
  <2>1. ASSUME NEW a \in Clients, NEW b \in Clients, a # b, Submits(req'[a]), Submits(req'[b])
        PROVE  req'[a].job # req'[b].job
    BY <1>2, <1>4, <1>12, <2>1 DEF IInv, OneSubmitter
  <2>2. ASSUME NEW a \in Clients, NEW m \in late, Submits(req'[a]), m.op \in {"print", "create"},
               m.job = req'[a].job
        PROVE  req'[a].pc = "doubt"
    BY <1>2, <1>4, <1>10, <2>2 DEF IInv, OneSubmitter
  <2> QED BY <1>2, <2>1, <2>2 DEF OneSubmitter
<1>16. ReservedIsOwned'
  <2> SUFFICES ASSUME NEW o \in ProxyID, rows'[o].state = "reserved"
               PROVE  o \in lost' \/ \E d \in Clients : req'[d].pc # "idle" /\ req'[d].job = o
    BY DEF ReservedIsOwned
  <2>1. CASE o = p
    BY <1>2, <1>4, <2>1
  <2>2. CASE o # p
    <3>1. o \in lost \/ \E d \in Clients : req[d].pc # "idle" /\ req[d].job = o
      <4>1. rows[o].state = "reserved" /\ ReservedIsOwned
        BY <1>3, <2>2 DEF IInv
      <4> QED BY <4>1 DEF ReservedIsOwned
    <3>2. req[c].job # o
      BY Numbers
    <3> QED BY <1>2, <1>4, <3>1, <3>2
  <2> QED BY <2>1, <2>2
<1> QED BY <1>4, <1>8, <1>9, <1>11, <1>13, <1>14, <1>15, <1>16 DEF IInv

\* CreateJob.
LEMMA CreateJobInv ==
  ASSUME IInv, NEW c \in Clients, NEW q \in Queues, CreateJob(c, q)
  PROVE  IInv'
<1> DEFINE s == [Idle EXCEPT !.pc = "sent", !.op = "create", !.queue = q, !.job = lastID + 1]
<1>1. /\ req[c] = Idle /\ lastID < MaxJobs /\ lastID' = lastID + 1 /\ UNCHANGED lost /\ UNCHANGED others
      /\ rows' = Reserve(rows, lastID + 1, q, UserOf[lastID + 1], NameOf[lastID + 1])
      /\ req' = [req EXCEPT ![c] = s]
  BY DEF CreateJob
<1>2. lastID + 1 \in 0..MaxJobs
  <2>1. lastID \in 0..MaxJobs
    BY DEF IInv, Types
  <2> QED BY <1>1, <2>1, MaxJobsAssumption
<1>3. /\ s \in Request /\ s.pc = "sent" /\ s.op = "create" /\ s.queue = q
      /\ s.job = lastID + 1 /\ s.id = NoID
  BY <1>2, IdleRequest DEF Idle, Request, PC
<1> HIDE DEF s
<1>4. ~Submits(req[c]) /\ req[c].job = 0
  BY <1>1, IdleRequest DEF Submits
<1> QED BY <1>1, <1>3, <1>4, ReserveStep

\* Staged.
LEMMA StagedInv ==
  ASSUME IInv, NEW c \in Clients, Staged(c)
  PROVE  IInv'
<1> DEFINE r == req[c]
           p == IF r.op = "print" THEN lastID + 1 ELSE r.job
           s(pc) == [r EXCEPT !.pc = pc, !.job = p]
<1>1. r.pc = "staging" /\ UNCHANGED lost /\ UNCHANGED others
  BY DEF Staged
<1>2. r \in Request /\ req \in [Clients -> Request] /\ r.queue \in Queues
  BY <1>1, RequestKinds DEF IInv, Types
<1>3. PICK pc \in {"sent", "recorder"} : req' = [req EXCEPT ![c] = s(pc)]
  BY <1>2 DEF Staged
<1>4. p \in 0..MaxJobs
  <2>1. lastID \in 0..MaxJobs /\ r.job \in 0..MaxJobs
    BY <1>2 DEF IInv, Types, Request
  <2> QED BY <2>1, MaxJobsAssumption DEF Staged
<1> DEFINE t == s(pc)
<1>5. /\ t \in Request /\ t.pc = pc /\ t.op = r.op /\ t.queue = r.queue /\ t.job = p /\ t.id = r.id
      /\ t.todo = r.todo /\ t.answer = r.answer
  BY <1>2, <1>4 DEF Request, PC
<1>6. req' = [req EXCEPT ![c] = t]
  BY <1>3
<1> HIDE DEF t
<1>7. CASE r.op = "print"
  <2>1. /\ lastID < MaxJobs /\ lastID' = lastID + 1
        /\ rows' = Reserve(rows, lastID + 1, r.queue, UserOf[lastID + 1], NameOf[lastID + 1])
    BY <1>7 DEF Staged
  <2>2. r.job = 0 /\ r.id = NoID /\ ~Submits(r)
    BY <1>1, <1>7 DEF IInv, RequestsOK, RequestOK, Submits
  <2> QED BY <1>1, <1>2, <1>5, <1>6, <1>7, <2>1, <2>2, ReserveStep
<1>8. CASE r.op # "print"
  <2>1. r.op = "send" /\ Works(r)
    BY <1>1, <1>8 DEF IInv, RequestsOK, RequestOK, Works
  <2>2. UNCHANGED <<rows, lastID, printer>> /\ rows \in Tables /\ lost \subseteq ProxyID
    BY <1>1, <1>8 DEF Staged, store, others, IInv, Types
  <2>3. Types' /\ req'[c] = t /\ \A d \in Clients \ {c} : req'[d] = req[d]
    BY <1>1, <1>5, <1>6, <2>2, ClientTypes
  <2>4. Works(t) /\ ~Submits(t) /\ t.pc # "idle" /\ t # Idle /\ t.job = r.job /\ t.op = "send"
    BY <1>5, <1>8, <2>1, IdleRequest DEF Works, Submits
  <2>5. WorkerOK(t, rows, lastID, printer)
    BY <1>5, <2>1, <2>4, WorkerFacts DEF WorkerOK
  <2>6. RequestOK(t, rows', lastID', printer', lost')
    BY <1>1, <1>2, <1>5, <2>2, <2>4, <2>5 DEF RequestOK
  <2>7. Harmless(Own(r))
    BY <2>2, QuietHarmless
  <2> QED BY <1>1, <2>1, <2>2, <2>3, <2>4, <2>6, <2>7, WorkerRow, HarmlessClientStep DEF others
<1> QED BY <1>7, <1>8

-----------------------------------------------------------------------------
(* The printers.                                                           *)

\* The job of printer q with number u becomes `job': a new one, submitted for
\* `own', or an old one that goes on.
Touches(q, u, job, own) ==
  /\ job \in PrinterJob /\ job.state # "none"
  /\ printer' = [printer EXCEPT ![q][u] = job]
  /\ IF printer[q][u].state = "none"
     THEN job.origin = own /\ own \in ProxyID /\ own <= lastID /\ ~Rejected(rows[own])
     ELSE job.origin = printer[q][u].origin /\ (Done(printer[q][u]) => Done(job))

\* What becomes of the printers.
LEMMA TouchedPrinter ==
  ASSUME IInv, NEW q \in Queues, NEW u \in UpstreamID, NEW job, NEW own, Touches(q, u, job, own)
  PROVE  /\ printer' \in [Queues -> [UpstreamID -> PrinterJob]]
         /\ printer'[q][u] = job
         /\ \A k \in Queues, v \in UpstreamID : <<k, v>> # <<q, u>> => printer'[k][v] = printer[k][v]
<1>1. printer \in [Queues -> [UpstreamID -> PrinterJob]] /\ job \in PrinterJob
  BY DEF IInv, Types, Touches
<1>2. printer' = [printer EXCEPT ![q][u] = job]
  BY DEF Touches
<1> QED BY <1>1, <1>2

\* The step is stable.
LEMMA TouchStable ==
  ASSUME IInv, Types', NEW q \in Queues, NEW u \in UpstreamID, NEW job, NEW own,
         Touches(q, u, job, own), UNCHANGED <<rows, lastID>>
  PROVE  Stable(own) /\ RowsOK' /\ PrintersOK'
<1>1. /\ printer'[q][u] = job
      /\ \A k \in Queues, v \in UpstreamID : <<k, v>> # <<q, u>> => printer'[k][v] = printer[k][v]
  BY TouchedPrinter
<1>2. \A k \in Queues, v \in UpstreamID : PrinterJobOK(printer[k][v], rows, lastID)
  BY DEF IInv, PrintersOK
<1>3. /\ job.state # "none"
      /\ IF printer[q][u].state = "none"
         THEN job.origin = own /\ own \in ProxyID /\ own <= lastID /\ ~Rejected(rows[own])
         ELSE job.origin = printer[q][u].origin /\ (Done(printer[q][u]) => Done(job))
  BY DEF Touches
<1>4. printer[q][u].state = "none" => ~Done(printer[q][u])
  BY FinalsAreTerminal DEF Done
<1>5. StablePrinter
  <2>1. ASSUME NEW k \in Queues, NEW v \in UpstreamID
        PROVE  /\ printer[k][v].state # "none" =>
                    printer'[k][v].state # "none" /\ printer'[k][v].origin = printer[k][v].origin
               /\ Done(printer[k][v]) => Done(printer'[k][v])
    <3>1. CASE <<k, v>> = <<q, u>>
      BY <1>1, <1>3, <1>4, <3>1
    <3>2. CASE <<k, v>> # <<q, u>>
      BY <1>1, <3>2
    <3> QED BY <3>1, <3>2
  <2> QED BY <2>1 DEF StablePrinter
<1>6. StableTable
  <2>1. lastID <= lastID'
    BY SameLastID DEF IInv
  <2> QED BY <2>1 DEF StableTable, Present
<1>7. Spares(own)
  <2>1. ASSUME NEW k \in Queues, NEW v \in UpstreamID
        PROVE  printer'[k][v].origin \in {printer[k][v].origin, own}
    <3>1. CASE <<k, v>> = <<q, u>>
      BY <1>1, <1>3, <3>1
    <3>2. CASE <<k, v>> # <<q, u>>
      BY <1>1, <3>2
    <3> QED BY <3>1, <3>2
  <2> QED BY <2>1 DEF Spares
<1>8. RowsOK'
  <2>1. ASSUME NEW p \in ProxyID PROVE RowOK(p, rows'[p], lastID', printer')
    BY <1>5, <1>6, RowStable DEF IInv, RowsOK
  <2> QED BY <2>1 DEF RowsOK
<1>9. PrintersOK'
  <2>1. PrinterJobOK(job, rows, lastID)
    <3>1. CASE printer[q][u].state = "none"
      <4>1. own # 0
        BY <1>3, <3>1, Numbers
      <4> QED BY <1>3, <3>1, <4>1 DEF PrinterJobOK
    <3>2. CASE printer[q][u].state # "none"
      <4>1. PrinterJobOK(printer[q][u], rows, lastID)
        BY <1>2
      <4> QED BY <1>3, <3>2, <4>1 DEF PrinterJobOK
    <3> QED BY <3>1, <3>2
  <2>2. ASSUME NEW k \in Queues, NEW v \in UpstreamID
        PROVE  PrinterJobOK(printer'[k][v], rows, lastID)
    <3>1. CASE <<k, v>> = <<q, u>>
      BY <1>1, <2>1, <3>1
    <3>2. CASE <<k, v>> # <<q, u>>
      BY <1>1, <1>2, <3>2
    <3> QED BY <3>1, <3>2
  <2> QED BY <2>2 DEF PrintersOK
<1> QED BY <1>5, <1>6, <1>7, <1>8, <1>9 DEF Stable

\* A step in which no handler takes part.
LEMMA BystanderStep ==
  ASSUME IInv, Types', NEW own, Stable(own), RowsOK', PrintersOK', LatesOK', MaintOK',
         UNCHANGED <<lastID, req, lost>>, late' \subseteq late,
         \A c \in Clients : Submits(req[c]) /\ req[c].pc # "doubt" => req[c].job # own
  PROVE  IInv'
<1>1. RequestsOK'
  <2>1. ASSUME NEW d \in Clients
        PROVE  RequestOK(req[d], rows', lastID', printer', lost')
    <3>1. req[d] \in Request /\ RequestOK(req[d], rows, lastID, printer, lost)
      BY DEF IInv, Types, RequestsOK
    <3> QED BY <3>1, RequestStable DEF IInv
  <2> QED BY <2>1 DEF RequestsOK
<1>2. OneSubmitter'
  BY DEF IInv, OneSubmitter
<1>3. ReservedIsOwned'
  <2> SUFFICES ASSUME NEW p \in ProxyID, rows'[p].state = "reserved"
               PROVE  p \in lost \/ \E d \in Clients : req[d].pc # "idle" /\ req[d].job = p
    BY DEF ReservedIsOwned
  <2>1. p <= lastID
    BY DEF RowsOK, RowOK
  <2>2. rows[p].state = "reserved"
    BY <2>1 DEF Stable, StableTable
  <2> QED BY <2>2 DEF IInv, ReservedIsOwned
<1> QED BY <1>1, <1>2, <1>3 DEF IInv

\* A printer acts on a job by itself, or because of a request nobody waits for.
LEMMA PrinterActs ==
  ASSUME IInv, NEW q \in Queues, NEW u \in UpstreamID, NEW job, NEW own, Touches(q, u, job, own),
         UNCHANGED <<rows, lastID, now, req, maint, lost>>, late' \subseteq late,
         \A c \in Clients : Submits(req[c]) /\ req[c].pc # "doubt" => req[c].job # own
  PROVE  IInv'
<1>1. Types'
  BY TouchedPrinter DEF IInv, Types
<1>2. Stable(own) /\ RowsOK' /\ PrintersOK'
  BY <1>1, TouchStable
<1>3. LatesOK'
  BY DEF IInv, LatesOK
<1>4. MaintOK'
  BY <1>1, <1>2, MaintStable DEF IInv, Stable
<1> QED BY <1>1, <1>2, <1>3, <1>4, BystanderStep

\* PrinterFinishes.
LEMMA PrinterFinishesInv ==
  ASSUME IInv, NEW q \in Queues, NEW u \in UpstreamID, NEW final \in FinalStates,
         PrinterFinishes(q, u, final)
  PROVE  IInv'
<1> DEFINE job == [printer[q][u] EXCEPT !.state = final]
<1>1. printer \in [Queues -> [UpstreamID -> PrinterJob]] /\ printer[q][u] \in PrinterJob
  BY DEF IInv, Types
<1>2. final \in Finals /\ final # "none"
  BY FinalsAreTerminal DEF Finals
<1>3. job \in PrinterJob /\ job.state = final /\ job.origin = printer[q][u].origin
  BY <1>1, <1>2 DEF PrinterJob
<1>4. printer' = [printer EXCEPT ![q][u] = job]
  BY <1>1 DEF PrinterFinishes
<1>5. printer[q][u].state # "none"
  BY DEF PrinterFinishes
<1> HIDE DEF job
<1>6. Touches(q, u, job, 0)
  BY <1>2, <1>3, <1>4, <1>5 DEF Touches, Done
<1>7. \A c \in Clients : Submits(req[c]) => req[c].job # 0
  BY SubmitterFacts, Numbers
<1>8. UNCHANGED <<rows, lastID, now, req, maint, lost>> /\ late' \subseteq late
  BY DEF PrinterFinishes, store
<1> QED BY <1>6, <1>7, <1>8, PrinterActs

\* PrinterForgets.
LEMMA PrinterForgetsInv ==
  ASSUME IInv, NEW q \in Queues, NEW u \in UpstreamID, PrinterForgets(q, u)
  PROVE  IInv'
<1> DEFINE job == [printer[q][u] EXCEPT !.state = "gone"]
<1>1. printer \in [Queues -> [UpstreamID -> PrinterJob]] /\ printer[q][u] \in PrinterJob
  BY DEF IInv, Types
<1>2. job \in PrinterJob /\ job.state = "gone" /\ job.origin = printer[q][u].origin
  BY <1>1 DEF PrinterJob
<1>3. printer' = [printer EXCEPT ![q][u] = job]
  BY <1>1 DEF PrinterForgets
<1>4. printer[q][u].state # "none"
  BY FinalsAreTerminal DEF PrinterForgets
<1> HIDE DEF job
<1>5. Touches(q, u, job, 0)
  BY <1>2, <1>3, <1>4 DEF Touches, Done
<1>6. \A c \in Clients : Submits(req[c]) => req[c].job # 0
  BY SubmitterFacts, Numbers
<1>7. UNCHANGED <<rows, lastID, now, req, maint, lost>> /\ late' \subseteq late
  BY DEF PrinterForgets, store
<1> QED BY <1>5, <1>6, <1>7, PrinterActs

\* The job-state attribute of a job that the printer still knows.
LEMMA Labels ==
  ASSUME NEW job \in PrinterJob, job.state \notin {"none", "gone"}
  PROVE  /\ Label(job) \in {"", "active"} \cup Finals
         /\ Label(job) # ""
         /\ Label(job) \in Finals => job.state \in Finals
  BY FinalsAreTerminal DEF Label, PrinterJob

\* A printer's list is true of its jobs.
LEMMA ListingOK ==
  ASSUME IInv, NEW q \in Queues
  PROVE  /\ Listing(q) \in [UpstreamID -> {"", "active"} \cup Finals]
         /\ ListOK(q, Listing(q), printer)
<1>1. ASSUME NEW u \in UpstreamID
      PROVE  /\ Listing(q)[u] \in {"", "active"} \cup Finals
             /\ Listing(q)[u] # "" => printer[q][u].state # "none"
             /\ Listing(q)[u] \in Finals => Done(printer[q][u])
  <2>1. printer[q][u] \in PrinterJob
    BY DEF IInv, Types
  <2>2. CASE Listed(printer[q][u])
    <3>1. Listing(q)[u] = Label(printer[q][u]) /\ printer[q][u].state \notin {"none", "gone"}
      BY <2>2 DEF Listing, Listed
    <3> QED BY <2>1, <3>1, Labels DEF Done
  <2>3. CASE ~Listed(printer[q][u])
    <3>1. Listing(q)[u] = ""
      BY <2>3 DEF Listing
    <3> QED BY <3>1, FinalsAreTerminal
  <2> QED BY <2>2, <2>3
<1>2. Listing(q) = [u \in UpstreamID |-> Listing(q)[u]]
  BY DEF Listing
<1> QED BY <1>1, <1>2 DEF ListOK

\* A request that a printer can make something of.
Sensible(m) ==
  /\ m.queue \in Queues
  /\ \/ m.op \in {"print", "create"} /\ m.job \in ProxyID
     \/ m.op \notin {"print", "create"} /\ m.id \in UpstreamID

\* What it makes of it.
Acted(m, e) ==
  /\ e.u \in UpstreamID /\ e.job \in PrinterJob /\ e.job.state \notin {"none", "gone"}
  /\ e.answer \in Answer /\ e.answer.ok /\ e.answer.state = Label(e.job)
  /\ IF m.op \in {"print", "create"}
     THEN /\ printer[m.queue][e.u].state = "none"
          /\ e.job.origin = m.job
          /\ e.answer.id = e.u \/ (e.answer.id = NoID /\ PrinterOmitsID)
     ELSE /\ e.u = m.id
          /\ printer[m.queue][e.u].state # "none"
          /\ e.job.origin = printer[m.queue][e.u].origin
          /\ Done(printer[m.queue][e.u]) => Done(e.job)
          /\ m.op \in {"cancel", "cancelMine"} => Done(e.job)

\* What a printer answers when it serves a request.
LEMMA ServedFacts ==
  ASSUME NEW u, NEW job \in PrinterJob, job.state \notin {"none", "gone"}, NEW id \in 0..MaxJobs
  PROVE  LET e == Served(u, job, id) IN
         /\ e.u = u /\ e.job = job
         /\ e.answer \in Answer /\ e.answer.ok /\ e.answer.id = id /\ e.answer.state = Label(job)
<1> DEFINE a == [NoAnswer EXCEPT !.ok = TRUE, !.id = id, !.state = Label(job)]
<1>1. a \in Answer /\ a.ok /\ a.id = id /\ a.state = Label(job)
  BY Labels, IdleRequest DEF Answer
<1> HIDE DEF a
<1>2. Served(u, job, id) = [u |-> u, job |-> job, answer |-> a]
  BY DEF Served, a
<1> QED BY <1>1, <1>2

\* A new job.
LEMMA SubmittedJob ==
  ASSUME NEW m, m.job \in ProxyID
  PROVE  Submitted(m) \in PrinterJob /\ Submitted(m).state \notin {"none", "gone"}
         /\ Submitted(m).origin = m.job
<1>1. m.job \in 0..MaxJobs
  BY Numbers
<1> QED BY <1>1 DEF PrinterJob, Submitted

\* A submission that is accepted becomes a new job.
LEMMA SubmissionActs ==
  ASSUME IInv, NEW m \in Request, Sensible(m), m.op \in {"print", "create"}, NEW e \in Accepts(m)
  PROVE  Acted(m, e)
<1> DEFINE job == Submitted(m)
<1>1. Accepts(m) = UNION {{Served(u, job, id) : id \in NamedAs(u)} : u \in Fresh(m.queue)}
  BY DEF Accepts
<1>2. PICK u \in Fresh(m.queue) : \E id \in NamedAs(u) : e = Served(u, job, id)
  BY <1>1
<1> PICK id \in NamedAs(u) : e = Served(u, job, id)
  BY <1>2
<1>3. u \in UpstreamID /\ u \in 0..MaxJobs /\ printer[m.queue][u].state = "none"
  BY Numbers DEF Fresh
<1>4. job \in PrinterJob /\ job.state \notin {"none", "gone"} /\ job.origin = m.job
  BY SubmittedJob DEF Sensible
<1> HIDE DEF job
<1>5. id \in 0..MaxJobs /\ (id = u \/ (id = NoID /\ PrinterOmitsID))
  BY <1>3, Numbers DEF NamedAs
<1>6. e = Served(u, job, id)
  OBVIOUS
<1>7. /\ e.u = u /\ e.job = job
      /\ e.answer \in Answer /\ e.answer.ok /\ e.answer.id = id /\ e.answer.state = Label(job)
  BY <1>4, <1>5, <1>6, ServedFacts
<1> QED BY <1>3, <1>4, <1>5, <1>7 DEF Acted

\* Documents are counted up to two.
LEMMA CountDocuments ==
  ASSUME NEW n \in 0..2, NEW b \in BOOLEAN
  PROVE  AtMostTwo(n + IF b THEN 1 ELSE 0) \in 0..2
  BY DEF AtMostTwo

\* A request that works on a mapped job and is accepted moves that job on.
LEMMA WorkActs ==
  ASSUME IInv, NEW m \in Request, Sensible(m), m.op \notin {"print", "create"}, NEW e \in Accepts(m)
  PROVE  Acted(m, e)
<1> DEFINE j == printer[m.queue][m.id]
           d == AtMostTwo(j.documents + IF m.payload THEN 1 ELSE 0)
           next(job) == job \in PrinterJob /\ job.state \notin {"none", "gone"} /\ job.origin = j.origin
<1>1. m.queue \in Queues /\ m.id \in UpstreamID /\ m.id \in 0..MaxJobs /\ m.id # NoID /\ j \in PrinterJob
  <2>1. m.queue \in Queues /\ m.id \in UpstreamID
    BY DEF Sensible
  <2>2. printer \in [Queues -> [UpstreamID -> PrinterJob]]
    BY DEF IInv, Types
  <2>3. j \in PrinterJob
    BY <2>1, <2>2
  <2> QED BY <2>1, <2>3, Numbers
<1>2. d \in 0..2
  BY <1>1, CountDocuments DEF PrinterJob, Request
<1>3. ASSUME NEW job, e = Served(m.id, job, m.id), next(job), j.state # "none",
             Done(j) => Done(job), m.op \in {"cancel", "cancelMine"} => Done(job)
      PROVE  Acted(m, e)
  <2>1. /\ e.u = m.id /\ e.job = job
        /\ e.answer \in Answer /\ e.answer.ok /\ e.answer.state = Label(job)
    BY <1>1, <1>3, ServedFacts
  <2> QED BY <1>1, <1>3, <2>1 DEF Acted
<1>4. CASE m.op = "send" /\ j.state \in {"open", "active"}
  <2> DEFINE job == [j EXCEPT !.state = "active", !.documents = d]
  <2>1. Accepts(m) = {Served(m.id, job, m.id)}
    BY <1>1, <1>4 DEF Accepts
  <2>2. next(job)
    BY <1>1, <1>2 DEF PrinterJob
  <2>3. ~Done(j)
    BY <1>4, FinalsAreTerminal DEF Done
  <2> HIDE DEF job, j
  <2> QED BY <1>3, <1>4, <2>1, <2>2, <2>3
<1>5. CASE m.op \in {"cancel", "cancelMine"} /\ j.state \in {"open", "active"}
  <2> DEFINE job == [j EXCEPT !.state = "canceled"]
  <2>1. Accepts(m) = {Served(m.id, job, m.id)}
    BY <1>1, <1>5 DEF Accepts
  <2>2. next(job) /\ Done(job)
    BY <1>1, FinalsAreTerminal DEF PrinterJob, Done
  <2> HIDE DEF job, j
  <2> QED BY <1>3, <1>5, <2>1, <2>2
<1>6. CASE m.op = "close" /\ j.state \in {"open", "active"}
  <2> DEFINE job == [j EXCEPT !.state = "active"]
  <2>1. Accepts(m) = {Served(m.id, job, m.id)}
    BY <1>1, <1>6 DEF Accepts
  <2>2. next(job)
    BY <1>1 DEF PrinterJob
  <2>3. ~Done(j)
    BY <1>6, FinalsAreTerminal DEF Done
  <2> HIDE DEF job, j
  <2> QED BY <1>3, <1>6, <2>1, <2>2, <2>3
<1>7. CASE m.op = "get" /\ Listed(j)
  <2>1. Accepts(m) = {Served(m.id, j, m.id)}
    BY <1>1, <1>7 DEF Accepts
  <2>2. next(j)
    BY <1>1, <1>7 DEF Listed
  <2> HIDE DEF j
  <2> QED BY <1>3, <1>7, <2>1, <2>2
<1>8. \/ m.op = "send" /\ j.state \in {"open", "active"}
      \/ m.op \in {"cancel", "cancelMine"} /\ j.state \in {"open", "active"}
      \/ m.op = "close" /\ j.state \in {"open", "active"}
      \/ m.op = "get" /\ Listed(j)
  BY <1>1 DEF Accepts
<1> QED BY <1>4, <1>5, <1>6, <1>7, <1>8

\* Any request that is accepted.
LEMMA AcceptActs ==
  ASSUME IInv, NEW m \in Request, Sensible(m), NEW e \in Accepts(m)
  PROVE  Acted(m, e)
  BY SubmissionActs, WorkActs

\* Everything a printer does to the job of an accepted request.
LEMMA ActedTouches ==
  ASSUME IInv, NEW m \in Request, Sensible(m), NEW e, Acted(m, e), NEW own,
         printer' = [printer EXCEPT ![m.queue][e.u] = e.job],
         m.op \in {"print", "create"} =>
           own = m.job /\ m.job <= lastID /\ ~Rejected(rows[m.job])
  PROVE  e.u \in UpstreamID /\ Touches(m.queue, e.u, e.job, own)
  BY DEF Touches, Acted, Sensible

\* The request of a handler that has its answer.
Answered(r, a) == [r EXCEPT !.pc = "answered", !.answer = a]

\* It keeps everything else.
LEMMA AnsweredRequest ==
  ASSUME NEW r \in Request, NEW a \in Answer
  PROVE  LET s == Answered(r, a) IN
         /\ s \in Request /\ s.pc = "answered" /\ s.op = r.op /\ s.job = r.job /\ s.id = r.id
         /\ s.queue = r.queue /\ s.todo = r.todo /\ s.answer = a
  BY DEF Answered, Request, PC

\* A handler that waits for its answer sent something sensible.
LEMMA SentFacts ==
  ASSUME IInv, NEW c \in Clients, req[c].pc = "sent", req[c].op # "list"
  PROVE  /\ req[c] \in Request /\ Sensible(req[c]) /\ (Submits(req[c]) \/ Works(req[c]))
         /\ Submits(req[c]) <=> req[c].op \in {"print", "create"}
         /\ Submits(req[c]) => /\ req[c].job \in ProxyID /\ req[c].job <= lastID
                               /\ rows[req[c].job].state = "reserved"
                               /\ ~Rejected(rows[req[c].job])
<1>1. req[c] \in Request /\ (Submits(req[c]) \/ Works(req[c]))
  BY RequestKinds
<1>2. Submits(req[c]) <=> req[c].op \in {"print", "create"}
  BY DEF Submits
<1>3. Submits(req[c]) => /\ req[c].job \in ProxyID /\ req[c].job <= lastID /\ req[c].queue \in Queues
                         /\ rows[req[c].job].state = "reserved"
  BY SubmitterFacts DEF SubmitterOK
<1>4. Works(req[c]) => req[c].id \in UpstreamID /\ req[c].queue \in Queues
  BY WorkerFacts
<1> QED BY <1>1, <1>2, <1>3, <1>4 DEF Sensible, Rejected

\* The printer accepts a submission: the answer names the new job, if it names one.
LEMMA SubmitterAccepted ==
  ASSUME IInv, Types', NEW c \in Clients, req[c].pc = "sent", Submits(req[c]), NEW e, Acted(req[c], e),
         UNCHANGED <<rows, lastID>>, UNCHANGED lost, printer'[req[c].queue][e.u] = e.job
  PROVE  RequestOK(Answered(req[c], e.answer), rows', lastID', printer', lost')
<1> DEFINE r == req[c]
           s == Answered(r, e.answer)
<1>1. /\ r \in Request /\ r.queue \in Queues /\ SubmitterOK(r, rows, lastID, printer, lost)
      /\ r.op \in {"print", "create"}
  BY SubmitterFacts DEF Submits
<1>2. /\ e.answer \in Answer /\ e.answer.ok /\ e.job.origin = r.job
      /\ e.answer.id = e.u \/ (e.answer.id = NoID /\ PrinterOmitsID)
  BY <1>1 DEF Acted
<1>3. /\ s \in Request /\ s.pc = "answered" /\ s.op = r.op /\ s.job = r.job /\ s.id = r.id
      /\ s.queue = r.queue /\ s.answer = e.answer
  BY <1>1, <1>2, AnsweredRequest
<1> HIDE DEF s
<1>4. IF s.answer.id = NoID THEN PrinterOmitsID ELSE printer'[s.queue][s.answer.id].origin = s.job
  <2>1. CASE e.answer.id = e.u
    <3>1. e.u # NoID
      BY Numbers DEF Acted
    <3> QED BY <1>2, <1>3, <2>1, <3>1
  <2>2. CASE e.answer.id = NoID /\ PrinterOmitsID
    BY <1>3, <2>2
  <2> QED BY <1>2, <2>1, <2>2
<1>5. SubmitterOK(s, rows', lastID', printer', lost')
  BY <1>1, <1>2, <1>3, <1>4 DEF SubmitterOK
<1>6. RequestOK(s, rows', lastID', printer', lost')
  BY <1>1, <1>3, <1>5, IdleRequest DEF RequestOK, Submits, Works
<1> QED BY <1>6 DEF s

\* The printer accepts work on a mapped job.
LEMMA WorkerAccepted ==
  ASSUME IInv, Types', NEW c \in Clients, req[c].pc = "sent", Works(req[c]), NEW e, Acted(req[c], e),
         UNCHANGED <<rows, lastID>>, UNCHANGED lost, printer'[req[c].queue][e.u] = e.job
  PROVE  RequestOK(Answered(req[c], e.answer), rows', lastID', printer', lost')
<1> DEFINE r == req[c]
           s == Answered(r, e.answer)
<1>1. /\ r \in Request /\ r.queue \in Queues /\ WorkerOK(r, rows, lastID, printer)
      /\ r.op \in {"send", "get", "cancel", "close", "cancelMine"}
  BY WorkerFacts DEF Works
<1>2. /\ e.answer \in Answer /\ e.answer.ok /\ e.answer.state = Label(e.job) /\ e.u = r.id
      /\ e.job \in PrinterJob /\ e.job.state \notin {"none", "gone"}
      /\ r.op \in {"cancel", "cancelMine"} => Done(e.job)
  BY <1>1 DEF Acted
<1>3. /\ s \in Request /\ s.pc = "answered" /\ s.op = r.op /\ s.job = r.job /\ s.id = r.id
      /\ s.queue = r.queue /\ s.answer = e.answer /\ s.todo = r.todo
  BY <1>1, <1>2, AnsweredRequest
<1> HIDE DEF s
<1>4. e.answer.state \in Finals => Done(e.job)
  BY <1>2, Labels DEF Done
<1>5. printer'[s.queue][s.id] = e.job
  BY <1>2, <1>3
<1>6. WorkerOK(s, rows', lastID', printer')
  BY <1>1, <1>2, <1>3, <1>4, <1>5 DEF WorkerOK
<1>7. RequestOK(s, rows', lastID', printer', lost')
  BY <1>1, <1>3, <1>6, IdleRequest DEF RequestOK, Submits, Works
<1> QED BY <1>7 DEF s

\* PrinterAccepts, for a request that is not Get-Jobs.
LEMMA AcceptedInv ==
  ASSUME IInv, NEW c \in Clients, req[c].pc = "sent", req[c].op # "list", NEW e \in Accepts(req[c]),
         printer' = [printer EXCEPT ![req[c].queue][e.u] = e.job],
         req' = [req EXCEPT ![c] = Answered(req[c], e.answer)],
         UNCHANGED <<rows, lastID, now, late, maint, lost>>
  PROVE  IInv'
<1> DEFINE r == req[c]
           s == Answered(r, e.answer)
           own == Own(r)
<1>1. /\ r \in Request /\ Sensible(r) /\ (Submits(r) \/ Works(r))
      /\ Submits(r) <=> r.op \in {"print", "create"}
      /\ Submits(r) => r.job <= lastID /\ ~Rejected(rows[r.job])
  BY SentFacts
<1>2. Acted(r, e)
  BY <1>1, AcceptActs
<1>3. r.queue \in Queues /\ e.u \in UpstreamID /\ Touches(r.queue, e.u, e.job, own)
  BY <1>1, <1>2, ActedTouches DEF Own, Sensible
<1>4. /\ printer' \in [Queues -> [UpstreamID -> PrinterJob]]
      /\ printer'[r.queue][e.u] = e.job
  BY <1>3, TouchedPrinter
<1>5. s \in Request /\ s.pc = "answered" /\ s.op = r.op /\ s.job = r.job
  BY <1>1, <1>2, AnsweredRequest DEF Acted
<1> HIDE DEF s
<1>6. req' = [req EXCEPT ![c] = s]
  BY DEF s
<1>7. Types' /\ req'[c] = s /\ \A d \in Clients \ {c} : req'[d] = req[d]
  BY <1>4, <1>5, <1>6 DEF IInv, Types
<1>8. Stable(own) /\ RowsOK' /\ PrintersOK'
  BY <1>3, <1>7, TouchStable
<1>9. LatesOK'
  BY DEF IInv, LatesOK
<1>10. RequestOK(s, rows', lastID', printer', lost')
  BY <1>1, <1>2, <1>4, <1>7, SubmitterAccepted, WorkerAccepted DEF s
<1>11. Submits(s) => Submits(r)
  BY <1>5 DEF Submits
<1>12. r.pc # "doubt" /\ s.pc # "idle"
  BY <1>5
<1> QED BY <1>5, <1>7, <1>8, <1>9, <1>10, <1>11, <1>12, ClientStep

\* PrinterAccepts, for Get-Jobs.
LEMMA ListedInv ==
  ASSUME IInv, NEW c \in Clients, req[c].pc = "sent", req[c].op = "list",
         req' = [req EXCEPT ![c] = Answered(req[c], [NoAnswer EXCEPT !.ok = TRUE,
                                                             !.list = Listing(req[c].queue)])],
         UNCHANGED <<rows, lastID, lost>>, UNCHANGED others
  PROVE  IInv'
<1> DEFINE r == req[c]
           a == [NoAnswer EXCEPT !.ok = TRUE, !.list = Listing(r.queue)]
           s == Answered(r, a)
<1>1. r \in Request /\ r.queue \in Queues /\ r.job = 0 /\ r.id = NoID /\ r.job \notin ProxyID
  BY ListerFacts DEF ListerOK
<1>2. /\ Listing(r.queue) \in [UpstreamID -> {"", "active"} \cup Finals]
      /\ ListOK(r.queue, Listing(r.queue), printer)
  BY <1>1, ListingOK
<1>3. a \in Answer /\ a.list = Listing(r.queue)
  BY <1>2, IdleRequest DEF Answer
<1> HIDE DEF a
<1>4. /\ s \in Request /\ s.pc = "answered" /\ s.op = r.op /\ s.job = r.job /\ s.id = r.id
      /\ s.queue = r.queue /\ s.answer = a
  BY <1>1, <1>3, AnsweredRequest
<1>5. req' = [req EXCEPT ![c] = s]
  BY DEF a
<1> HIDE DEF s
<1>6. UNCHANGED <<rows, lastID, lost, printer>> /\ lost \subseteq ProxyID /\ rows \in Tables
  BY DEF others, IInv, Types
<1>7. Types' /\ req'[c] = s /\ \A d \in Clients \ {c} : req'[d] = req[d]
  BY <1>4, <1>5, <1>6, ClientTypes
<1>8. ListerOK(s, printer')
  BY <1>1, <1>2, <1>3, <1>4, <1>6 DEF ListerOK, ListOK
<1>9. RequestOK(s, rows', lastID', printer', lost') /\ ~Submits(s)
  BY <1>1, <1>4, <1>8, IdleRequest DEF RequestOK, Submits, Works
<1>10. Harmless(Own(r))
  BY <1>6, QuietHarmless
<1> QED BY <1>1, <1>6, <1>7, <1>9, <1>10, HarmlessClientStep DEF others

\* PrinterAccepts.
LEMMA PrinterAcceptsInv ==
  ASSUME IInv, NEW c \in Clients, PrinterAccepts(c)
  PROVE  IInv'
<1>1. /\ req[c].pc = "sent" /\ UNCHANGED <<rows, lastID, now, late, maint, lost, crashes>>
      /\ req \in [Clients -> Request] /\ req[c] \in Request
  BY DEF PrinterAccepts, store, IInv, Types
<1>2. CASE req[c].op = "list"
  <2> DEFINE a == [NoAnswer EXCEPT !.ok = TRUE, !.list = Listing(req[c].queue)]
  <2>1. /\ req' = [req EXCEPT ![c].pc = "answered", ![c].answer = a]
        /\ UNCHANGED printer
    BY <1>2 DEF PrinterAccepts
  <2> HIDE DEF a
  <2>2. req' = [req EXCEPT ![c] = Answered(req[c], a)]
    BY <1>1, <2>1 DEF Answered
  <2> QED BY <1>1, <1>2, <2>1, <2>2, ListedInv DEF others, a
<1>3. CASE req[c].op # "list"
  <2>1. PICK e \in Accepts(req[c]) :
          /\ printer' = [printer EXCEPT ![req[c].queue][e.u] = e.job]
          /\ req' = [req EXCEPT ![c].pc = "answered", ![c].answer = e.answer]
    BY <1>3 DEF PrinterAccepts
  <2>2. req' = [req EXCEPT ![c] = Answered(req[c], e.answer)]
    BY <1>1, <2>1 DEF Answered
  <2> QED BY <1>1, <1>3, <2>1, <2>2, AcceptedInv
<1> QED BY <1>2, <1>3

\* PrinterRefuses.
LEMMA PrinterRefusesInv ==
  ASSUME IInv, NEW c \in Clients, PrinterRefuses(c)
  PROVE  IInv'
<1> DEFINE r == req[c]
           s == Answered(r, NoAnswer)
<1>1. /\ r.pc = "sent" /\ r.op # "list" /\ UNCHANGED <<rows, lastID, lost>> /\ UNCHANGED others
      /\ req \in [Clients -> Request] /\ r \in Request /\ lost \subseteq ProxyID /\ rows \in Tables
  BY DEF PrinterRefuses, store, IInv, Types
<1>2. req' = [req EXCEPT ![c] = s]
  BY <1>1 DEF PrinterRefuses, Answered
<1>3. /\ s \in Request /\ s.pc = "answered" /\ s.op = r.op /\ s.job = r.job /\ s.id = r.id
      /\ s.queue = r.queue /\ s.answer = NoAnswer /\ s.todo = r.todo
  BY <1>1, IdleRequest, AnsweredRequest
<1> HIDE DEF s
<1>4. Types' /\ req'[c] = s /\ \A d \in Clients \ {c} : req'[d] = req[d]
  BY <1>1, <1>2, <1>3, ClientTypes
<1>5. Submits(r) \/ Works(r)
  BY <1>1, SentFacts
<1>6. RequestOK(s, rows, lastID, printer, lost)
  <2>1. CASE Submits(r)
    <3>1. r.queue \in Queues /\ SubmitterOK(r, rows, lastID, printer, lost)
      BY <2>1, SubmitterFacts
    <3>2. SubmitterOK(s, rows, lastID, printer, lost)
      BY <1>1, <1>3, <3>1, IdleRequest DEF SubmitterOK
    <3> QED BY <1>3, <2>1, <3>1, <3>2, IdleRequest DEF RequestOK, Submits, Works
  <2>2. CASE Works(r)
    <3>1. r.queue \in Queues /\ WorkerOK(r, rows, lastID, printer)
      BY <2>2, WorkerFacts
    <3>2. WorkerOK(s, rows, lastID, printer)
      BY <1>1, <1>3, <3>1, IdleRequest DEF WorkerOK
    <3> QED BY <1>3, <2>2, <3>1, <3>2, IdleRequest DEF RequestOK, Submits, Works
  <2> QED BY <1>5, <2>1, <2>2
<1>7. Harmless(Own(r))
  BY <1>1, QuietHarmless DEF others
<1>8. (Submits(s) => Submits(r)) /\ r.pc # "doubt" /\ s.pc # "idle"
  BY <1>1, <1>3 DEF Submits
<1>9. RequestOK(req'[c], rows', lastID', printer', lost')
  BY <1>1, <1>4, <1>6 DEF others
<1> QED BY <1>1, <1>3, <1>4, <1>7, <1>8, <1>9, HarmlessClientStep DEF others

\* A request that may still be delivered is a sensible one.
LEMMA LateRequest ==
  ASSUME IInv, NEW c \in Clients, req[c].pc = "sent", req[c].op \notin {"get", "list"}
  PROVE  LET m == [req[c] EXCEPT !.todo = {}] IN
         /\ m \in Request /\ LateOK(m, rows, lastID) /\ m.job = req[c].job
         /\ m.op \in {"print", "create"} => Submits(req[c])
<1> DEFINE m == [req[c] EXCEPT !.todo = {}]
<1>1. /\ req[c] \in Request /\ Sensible(req[c]) /\ (Submits(req[c]) \/ Works(req[c]))
      /\ Submits(req[c]) <=> req[c].op \in {"print", "create"}
      /\ Submits(req[c]) => /\ req[c].job \in ProxyID /\ req[c].job <= lastID
                            /\ ~Rejected(rows[req[c].job])
  BY SentFacts
<1>2. m \in Request /\ m.op = req[c].op /\ m.queue = req[c].queue /\ m.job = req[c].job /\ m.id = req[c].id
  BY <1>1 DEF Request
<1> HIDE DEF m
<1>3. Works(req[c]) => m.op \in {"send", "cancel", "close", "cancelMine"} /\ m.id \in UpstreamID
  BY <1>2, WorkerFacts DEF Works
<1>4. LateOK(m, rows, lastID)
  BY <1>1, <1>2, <1>3 DEF LateOK, Sensible
<1>5. /\ m \in Request /\ LateOK(m, rows, lastID) /\ m.job = req[c].job
      /\ m.op \in {"print", "create"} => Submits(req[c])
  BY <1>1, <1>2, <1>4
<1> QED BY <1>5 DEF m

\* DoFails.
LEMMA DoFailsInv ==
  ASSUME IInv, NEW c \in Clients, DoFails(c)
  PROVE  IInv'
<1> DEFINE r == req[c]
<1>1. /\ r.pc \in {"sent", "answered"} /\ UNCHANGED <<rows, lastID, lost, now, printer, maint, crashes>>
      /\ req \in [Clients -> Request] /\ r \in Request /\ lost \subseteq ProxyID /\ rows \in Tables
  BY DEF DoFails, NothingStored, IInv, Types
<1>2. Harmless(Own(r))
  BY <1>1, QuietHarmless
<1>3. CASE r.op \in {"get", "list"}
  <2>1. req' = [req EXCEPT ![c] = Idle] /\ UNCHANGED others
    BY <1>1, <1>3 DEF DoFails, Finish, others
  <2>2. r.job \in ProxyID => rows'[r.job].state # "reserved"
    <3>1. CASE r.op = "get"
      BY <1>1, <1>2, <3>1, WorkerRow DEF Works
    <3>2. CASE r.op = "list"
      BY <3>2, ListerFacts
    <3> QED BY <1>3, <3>1, <3>2
  <2> QED BY <1>1, <1>2, <2>1, <2>2, FinishStep
<1>4. CASE r.op \notin {"get", "list"}
  <2>1. Goto(c, "doubt")
    BY <1>4 DEF DoFails
  <2>2. Submits(r) \/ Works(r)
    BY <1>1, <1>4, RequestKinds
  <2>3. CASE UNCHANGED late
    BY <1>1, <1>2, <2>1, <2>2, <2>3, GotoStep DEF others
  <2>4. CASE r.pc = "sent" /\ late' = late \cup {[r EXCEPT !.todo = {}]}
    <3> DEFINE m == [r EXCEPT !.todo = {}]
               s == GoesTo(r, "doubt")
    <3>1. /\ m \in Request /\ LateOK(m, rows, lastID) /\ m.job = r.job
          /\ m.op \in {"print", "create"} => Submits(r)
      BY <1>4, <2>4, LateRequest
    <3>2. late' = late \cup {m}
      BY <2>4
    <3> HIDE DEF m
    <3>3. req' = [req EXCEPT ![c] = s]
      BY <1>1, <2>1 DEF Goto, GoesTo
    <3>4. s \in Request /\ s.pc = "doubt" /\ s.op = r.op /\ s.job = r.job
      BY <1>1, GotoRequest
    <3> HIDE DEF s
    <3>5. Types' /\ req'[c] = s /\ \A d \in Clients \ {c} : req'[d] = req[d]
      BY <1>1, <3>1, <3>2, <3>3, <3>4 DEF IInv, Types
    <3>6. Stable(Own(r)) /\ StableTable /\ RowsOK'
      BY <1>2 DEF Harmless, Stable
    <3>7. RequestOK(s, rows', lastID', printer', lost')
      BY <1>1, <2>2, <3>5, <3>6, GotoOK DEF s
    <3>8. PrintersOK' /\ LatesOK'
      BY <1>1, <3>1, <3>2 DEF IInv, PrintersOK, LatesOK
    <3>9. \A x \in late' : x \in late \/
            (x.op \in {"print", "create"} => Submits(r) /\ x.job = r.job /\ req'[c].pc = "doubt")
      BY <3>1, <3>2, <3>4, <3>5
    <3>10. Submits(s) => Submits(r) /\ r.pc # "doubt" /\ s.job = r.job
      BY <1>1, <3>4 DEF Submits
    <3> QED BY <1>1, <3>4, <3>5, <3>6, <3>7, <3>8, <3>9, <3>10, ClientStep
  <2> QED BY <2>3, <2>4 DEF DoFails
<1> QED BY <1>3, <1>4

\* PrinterActsLate.
LEMMA PrinterActsLateInv ==
  ASSUME IInv, NEW m \in late, PrinterActsLate(m)
  PROVE  IInv'
<1> DEFINE own == IF m.op \in {"print", "create"} THEN m.job ELSE 0
<1>1. /\ UNCHANGED <<rows, lastID, now, req, maint, lost>> /\ late' \subseteq late
      /\ m \in Request /\ LateOK(m, rows, lastID) /\ Types
  BY DEF PrinterActsLate, store, IInv, Types, LatesOK
<1>2. Sensible(m)
  BY <1>1 DEF Sensible, LateOK
<1>3. \A c \in Clients : Submits(req[c]) /\ req[c].pc # "doubt" => req[c].job # own
  <2>1. ASSUME NEW c \in Clients, Submits(req[c]), req[c].pc # "doubt" PROVE req[c].job # own
    <3>1. req[c].job # 0
      BY <2>1, SubmitterFacts, Numbers
    <3> QED BY <2>1, <3>1 DEF IInv, OneSubmitter
  <2> QED BY <2>1
<1>4. CASE UNCHANGED printer
  <2>1. Types' /\ Harmless(own)
    BY <1>1, <1>4, QuietHarmless DEF Types
  <2>2. PrintersOK' /\ LatesOK'
    BY <1>1, <2>1, HarmlessRest
  <2>3. MaintOK'
    BY <1>1, <2>1, MaintStable DEF Harmless, Stable, IInv
  <2> QED BY <1>1, <1>3, <2>1, <2>2, <2>3, BystanderStep DEF Harmless
<1>5. ASSUME NEW e \in Accepts(m), printer' = [printer EXCEPT ![m.queue][e.u] = e.job]
      PROVE  IInv'
  <2>1. Acted(m, e)
    BY <1>1, <1>2, AcceptActs
  <2>2. m.op \in {"print", "create"} => own = m.job /\ m.job <= lastID /\ ~Rejected(rows[m.job])
    BY <1>1 DEF LateOK
  <2> HIDE DEF own
  <2>3. e.u \in UpstreamID /\ Touches(m.queue, e.u, e.job, own) /\ m.queue \in Queues
    BY <1>1, <1>2, <1>5, <2>1, <2>2, ActedTouches DEF Sensible
  <2> QED BY <1>1, <1>3, <2>3, PrinterActs
<1> QED BY <1>4, <1>5 DEF PrinterActsLate

-----------------------------------------------------------------------------
(* The maintenance goroutine.                                              *)

\* A step of the pass: its registry call is harmless, and the pass it leaves
\* behind is in order.
LEMMA PassStep ==
  ASSUME IInv, Harmless(0), maint' \in Pass, MaintenanceOK(maint', rows', lastID', printer'),
         UNCHANGED <<now, req, late, lost>>
  PROVE  IInv'
<1>1. Types'
  BY DEF Harmless, IInv, Types
<1>2. PrintersOK' /\ LatesOK'
  BY <1>1, HarmlessRest
<1>3. MaintOK'
  BY DEF MaintOK
<1>4. \A c \in Clients : Submits(req[c]) => req[c].job # 0
  BY SubmitterFacts, Numbers
<1> QED BY <1>1, <1>2, <1>3, <1>4, BystanderStep DEF Harmless

\* The same for a pass that is in order by what the tables were before the call.
LEMMA PassMoves ==
  ASSUME IInv, Harmless(0), maint' \in Pass, MaintenanceOK(maint', rows, lastID, printer),
         UNCHANGED <<now, req, late, lost>>
  PROVE  IInv'
<1>1. Types'
  BY DEF Harmless, IInv, Types
<1>2. MaintenanceOK(maint', rows', lastID', printer')
  BY <1>1, PassStable DEF Harmless, Stable, IInv
<1> QED BY <1>2, PassStep

\* The pass between two runs.
LEMMA NoPass ==
  MaintIdle \in Pass /\ \A T, n, P : MaintenanceOK(MaintIdle, T, n, P)
<1>1. MaintIdle \in Pass
  BY IdleRequest, Numbers DEF MaintIdle, Pass
<1>2. MaintIdle.pc = "idle" /\ \A q \in Queues : MaintIdle.todo[q] = {}
  BY DEF MaintIdle
<1> QED BY <1>1, <1>2 DEF MaintenanceOK

\* What the pass selects is in order.
LEMMA SelectOK ==
  ASSUME IInv, NEW S, S \subseteq ProxyID, NEW part \in 1..3, NEW q \in Queues,
         \A p \in S : rows[p].state \in {"uncertain", "mapped", "canceled"}
  PROVE  \A j \in Select(S, q, part) : j \in Snapshots /\ SnapshotOK(q, j, rows, lastID, printer)
<1> SUFFICES ASSUME NEW j \in Select(S, q, part)
             PROVE  j \in Snapshots /\ SnapshotOK(q, j, rows, lastID, printer)
  OBVIOUS
<1>1. PICK p \in S :
        /\ rows[p].queue = q
        /\ j = [job |-> p, state |-> rows[p].state, id |-> rows[p].upstreamID,
                uri |-> rows[p].upstreamURI, part |-> part,
                due |-> IF part = 1 THEN rows[p].nextAt ELSE NoTime]
  BY DEF Select
<1>2. p \in ProxyID /\ rows[p] \in Row /\ RowOK(p, rows[p], lastID, printer)
  BY RowFacts
<1>3. /\ rows[p].state \in {"uncertain", "mapped", "canceled"}
      /\ rows[p].upstreamID \in Nat /\ rows[p].upstreamURI \in Nat /\ rows[p].nextAt \in Nat \cup {NoTime}
  BY <1>2 DEF Row
<1>4. j \in Snapshots
  BY <1>1, <1>2, <1>3 DEF Snapshots
<1>5. j.job = p /\ j.id = rows[p].upstreamID /\ j.uri = rows[p].upstreamURI
  BY <1>1
<1>6. SnapshotOK(q, j, rows, lastID, printer)
  BY <1>1, <1>2, <1>3, <1>5 DEF SnapshotOK, RowOK, Present
<1> QED BY <1>4, <1>6

\* MaintenanceStarts.
LEMMA MaintenanceStartsInv ==
  ASSUME IInv, MaintenanceStarts
  PROVE  IInv'
<1> DEFINE S == ReconciliationCandidates(rows, now)
           todo == [q \in Queues |-> Select(S, q, 1)]
<1>1. /\ maint' = [maint EXCEPT !.pc = "list", !.todo = todo]
      /\ rows' = CleanupExpired(rows, now) \/ rows' = rows
      /\ UNCHANGED <<lastID, now, req, printer, late, lost>>
  BY DEF MaintenanceStarts, MayFail
<1>2. Harmless(0)
  BY <1>1, QuietHarmless, SweepHarmless
<1>3. S \subseteq ProxyID /\ \A p \in S : rows[p].state \in {"uncertain", "mapped", "canceled"}
  BY DEF ReconciliationCandidates
<1> HIDE DEF S
<1>4. \A q \in Queues : \A j \in Select(S, q, 1) :
        j \in Snapshots /\ SnapshotOK(q, j, rows, lastID, printer)
  <2>1. 1 \in 1..3
    OBVIOUS
  <2> QED BY <1>3, <2>1, SelectOK
<1>5. /\ todo \in [Queues -> SUBSET Snapshots]
      /\ \A q \in Queues : \A j \in todo[q] : SnapshotOK(q, j, rows, lastID, printer)
  BY <1>4
<1> HIDE DEF todo
<1>6. maint' \in Pass /\ maint'.pc = "list" /\ maint'.todo = todo
  <2>1. maint \in Pass
    BY DEF IInv, Types
  <2> QED BY <1>1, <1>5, <2>1 DEF Pass
<1>7. MaintenanceOK(maint', rows, lastID, printer)
  BY <1>5, <1>6 DEF MaintenanceOK
<1> QED BY <1>1, <1>2, <1>6, <1>7, PassMoves

\* MaintenanceLists.
LEMMA MaintenanceListsInv ==
  ASSUME IInv, MaintenanceLists
  PROVE  IInv'
<1> DEFINE mapped == ListJobsInState(rows, "mapped")
           canceled == {p \in ListJobsInState(rows, "canceled") :
                          rows[p].terminalAt > now - FollowUpWindow}
           more(q) == Select(mapped, q, 2) \cup Select(canceled, q, 3)
           todo == [q \in Queues |-> maint.todo[q] \cup more(q)]
<1>1. /\ UNCHANGED <<rows, lastID, now, req, printer, late, lost>>
      /\ \/ maint' = [maint EXCEPT !.pc = "query", !.followed = canceled, !.todo = todo]
         \/ maint' = MaintIdle
  BY DEF MaintenanceLists, store
<1>2. Harmless(0)
  BY <1>1, QuietHarmless
<1>3. maint \in Pass /\ \A q \in Queues : \A j \in maint.todo[q] : SnapshotOK(q, j, rows, lastID, printer)
  BY DEF IInv, Types, MaintOK, MaintenanceOK
<1>4. /\ mapped \subseteq ProxyID /\ canceled \subseteq ProxyID
      /\ \A p \in mapped : rows[p].state = "mapped"
      /\ \A p \in canceled : rows[p].state = "canceled"
  BY DEF ListJobsInState
<1> HIDE DEF mapped, canceled
<1>5. \A q \in Queues : \A j \in more(q) : j \in Snapshots /\ SnapshotOK(q, j, rows, lastID, printer)
  <2>1. 2 \in 1..3 /\ 3 \in 1..3
    OBVIOUS
  <2>2. ASSUME NEW q \in Queues
        PROVE  /\ \A j \in Select(mapped, q, 2) : j \in Snapshots /\ SnapshotOK(q, j, rows, lastID, printer)
               /\ \A j \in Select(canceled, q, 3) : j \in Snapshots /\ SnapshotOK(q, j, rows, lastID, printer)
    BY <1>4, <2>1, SelectOK
  <2> QED BY <2>2
<1> HIDE DEF more
<1>6. /\ todo \in [Queues -> SUBSET Snapshots]
      /\ \A q \in Queues : \A j \in todo[q] : SnapshotOK(q, j, rows, lastID, printer)
  BY <1>3, <1>5 DEF Pass
<1> HIDE DEF todo
<1>7. maint' \in Pass /\ MaintenanceOK(maint', rows, lastID, printer)
  <2>1. CASE maint' = MaintIdle
    BY <2>1, NoPass
  <2>2. CASE maint' = [maint EXCEPT !.pc = "query", !.followed = canceled, !.todo = todo]
    <3>1. maint' \in Pass /\ maint'.pc = "query" /\ maint'.todo = todo
      BY <1>3, <1>4, <1>6, <2>2 DEF Pass
    <3> QED BY <1>6, <3>1 DEF MaintenanceOK
  <2> QED BY <1>1, <2>1, <2>2
<1> QED BY <1>1, <1>2, <1>7, PassMoves

\* MaintenanceQueries.
LEMMA MaintenanceQueriesInv ==
  ASSUME IInv, NEW q \in Queues, MaintenanceQueries(q)
  PROVE  IInv'
<1>1. /\ UNCHANGED <<rows, lastID, now, req, printer, late, lost>> /\ maint.pc = "query"
      /\ \/ maint' = [maint EXCEPT !.pc = "apply", !.queue = q, !.list = Listing(q)]
         \/ maint' = [maint EXCEPT !.todo[q] = {}]
  BY DEF MaintenanceQueries, store
<1>2. Harmless(0)
  BY <1>1, QuietHarmless
<1>3. maint \in Pass /\ \A k \in Queues : \A j \in maint.todo[k] : SnapshotOK(k, j, rows, lastID, printer)
  BY DEF IInv, Types, MaintOK, MaintenanceOK
<1>4. CASE maint' = [maint EXCEPT !.pc = "apply", !.queue = q, !.list = Listing(q)]
  <2> DEFINE l == Listing(q)
  <2>1. l \in [UpstreamID -> {"", "active"} \cup Finals] /\ ListOK(q, l, printer)
    BY ListingOK
  <2>2. maint' = [maint EXCEPT !.pc = "apply", !.queue = q, !.list = l]
    BY <1>4
  <2> HIDE DEF l
  <2>3. /\ maint' \in Pass /\ maint'.pc = "apply" /\ maint'.queue = q /\ maint'.list = l
        /\ maint'.todo = maint.todo
    BY <1>3, <2>1, <2>2 DEF Pass
  <2>4. MaintenanceOK(maint', rows, lastID, printer)
    BY <1>3, <2>1, <2>3 DEF MaintenanceOK
  <2> QED BY <1>1, <1>2, <2>3, <2>4, PassMoves
<1>5. CASE maint' = [maint EXCEPT !.todo[q] = {}]
  <2>1. /\ maint' \in Pass /\ maint'.pc = "query"
        /\ \A k \in Queues : maint'.todo[k] \subseteq maint.todo[k]
    BY <1>1, <1>3, <1>5 DEF Pass
  <2>2. MaintenanceOK(maint', rows, lastID, printer)
    BY <1>3, <2>1 DEF MaintenanceOK
  <2> QED BY <1>1, <1>2, <2>1, <2>2, PassMoves
<1> QED BY <1>1, <1>4, <1>5

\* MaintenanceAttempts.
LEMMA MaintenanceAttemptsInv ==
  ASSUME IInv, MaintenanceAttempts
  PROVE  IInv'
<1> DEFINE q == maint.queue
<1>1. /\ UNCHANGED <<lastID, now, req, printer, late, lost>> /\ maint.pc = "apply" /\ maint \in Pass
  BY DEF MaintenanceAttempts, IInv, Types
<1>2. PICK j \in maint.todo[q] :
        /\ rows' = rows \/ rows' = MarkReconcileAttempt(rows, j.job, now)
        /\ maint' = [maint EXCEPT !.pc = "match", !.job = j, !.todo[q] = @ \ {j}]
  BY DEF MaintenanceAttempts, MayFail
<1>3. /\ q \in Queues /\ ListOK(q, maint.list, printer)
      /\ \A k \in Queues : \A o \in maint.todo[k] : SnapshotOK(k, o, rows, lastID, printer)
  BY <1>1 DEF IInv, MaintOK, MaintenanceOK
<1>4. j \in Snapshots /\ j.job \in ProxyID /\ SnapshotOK(q, j, rows, lastID, printer)
  <2>1. maint.todo[q] \subseteq Snapshots
    BY <1>1, <1>3 DEF Pass
  <2>2. j \in Snapshots
    BY <2>1
  <2> QED BY <1>3, <2>2 DEF Snapshots
<1>5. Harmless(0)
  <2>1. rows[j.job].state # "reserved"
    BY <1>4 DEF SnapshotOK
  <2> QED BY <1>1, <1>2, <1>4, <2>1, QuietHarmless, AttemptHarmless
<1>6. /\ maint' \in Pass /\ maint'.pc = "match" /\ maint'.job = j /\ maint'.queue = q
      /\ maint'.list = maint.list
      /\ \A k \in Queues : maint'.todo[k] \subseteq maint.todo[k]
  BY <1>1, <1>2, <1>3, <1>4 DEF Pass
<1>7. MaintenanceOK(maint', rows, lastID, printer)
  BY <1>3, <1>4, <1>6 DEF MaintenanceOK
<1> QED BY <1>1, <1>5, <1>6, <1>7, PassMoves

\* The printer job that a snapshot is matched with looks like the snapshot's own.
LEMMA MatchIsAlike ==
  ASSUME IInv, maint.pc = "match", NEW u \in Match(maint.job, maint.queue)
  PROVE  /\ u \in UpstreamID
         /\ printer[maint.queue][u].state # "none"
         /\ Alike(maint.job.job, printer[maint.queue][u].origin)
<1> DEFINE j == maint.job
           q == maint.queue
<1>1. q \in Queues /\ ListOK(q, maint.list, printer) /\ SnapshotOK(q, j, rows, lastID, printer)
  BY DEF IInv, MaintOK, MaintenanceOK
<1>2. u \in UpstreamID /\ maint.list[u] # "" /\ sameReconciledJob(j, q, u) /\ (j.id # NoID => u = j.id)
  BY DEF Match
<1>3. printer[q][u].state # "none"
  BY <1>1, <1>2 DEF ListOK
<1>4. Alike(j.job, printer[q][u].origin)
  <2>1. CASE j.id # NoID
    BY <1>1, <1>2, <2>1 DEF SnapshotOK
  <2>2. CASE j.id = NoID
    <3>1. j.uri = NoID
      BY <1>1, <2>2 DEF SnapshotOK
    <3> QED BY <1>2, <2>2, <3>1 DEF sameReconciledJob, Alike
  <2> QED BY <2>1, <2>2
<1> QED BY <1>2, <1>3, <1>4

\* MaintenanceMatches.
LEMMA MaintenanceMatchesInv ==
  ASSUME IInv, MaintenanceMatches
  PROVE  IInv'
<1> DEFINE q == maint.queue
           j == maint.job
           p == maint.job.job
           uri(u) == IF j.id # NoID THEN j.uri ELSE URI(u)
<1>1. /\ UNCHANGED <<lastID, now, req, printer, late, lost>> /\ maint.pc = "match" /\ maint \in Pass
  BY DEF MaintenanceMatches, IInv, Types
<1>2. /\ q \in Queues /\ ListOK(q, maint.list, printer)
      /\ \A k \in Queues : \A o \in maint.todo[k] : SnapshotOK(k, o, rows, lastID, printer)
      /\ j \in Snapshots /\ SnapshotOK(q, j, rows, lastID, printer)
  BY <1>1 DEF IInv, MaintOK, MaintenanceOK
<1>3. p \in ProxyID /\ j.uri \in Nat /\ rows[p].state # "reserved"
  BY <1>2 DEF Snapshots, SnapshotOK
<1>4. ASSUME NEW u \in Match(j, q), MarkMappedOK(rows, q, p, u, uri(u)),
             rows' = MarkMapped(rows, q, p, u, uri(u)),
             maint' = [maint EXCEPT !.pc = "sync", !.sync = u]
      PROVE  IInv'
  <2>1. u \in UpstreamID /\ u \in 0..MaxJobs /\ printer[q][u].state # "none" /\ Alike(p, printer[q][u].origin)
    BY <1>1, <1>4, MatchIsAlike, Numbers
  <2> DEFINE w == uri(u)
  <2>2. w \in Nat
    BY <1>3, <2>1, Numbers, URIs
  <2>3. MarkMappedOK(rows, q, p, u, w) /\ rows' = MarkMapped(rows, q, p, u, w)
    BY <1>4
  <2> HIDE DEF w
  <2>4. Harmless(0) /\ rows'[p].upstreamID = u
    <3> HIDE DEF p, q
    <3> QED BY <1>1, <1>2, <1>3, <2>1, <2>2, <2>3, MarkMappedHarmless
  <2>5. /\ maint' \in Pass /\ maint'.pc = "sync" /\ maint'.sync = u /\ maint'.job = j
        /\ maint'.queue = q /\ maint'.list = maint.list /\ maint'.todo = maint.todo
    BY <1>1, <1>4, <2>1 DEF Pass
  <2>6. Types'
    BY <1>1, <2>4, <2>5 DEF Harmless, IInv, Types
  <2>7. MaintenanceOK(maint, rows', lastID', printer')
    BY <1>1, <2>4, <2>6, PassStable DEF IInv, MaintOK, Harmless, Stable
  <2>8. MaintenanceOK(maint', rows', lastID', printer')
    BY <1>1, <2>1, <2>4, <2>5, <2>7 DEF MaintenanceOK
  <2> QED BY <1>1, <2>4, <2>5, <2>8, PassStep
<1>5. CASE UNCHANGED rows /\ maint' = [maint EXCEPT !.pc = "apply", !.job = NoSnapshot]
  <2>1. Harmless(0)
    BY <1>1, <1>5, QuietHarmless
  <2>2. /\ maint' \in Pass /\ maint'.pc = "apply" /\ maint'.queue = q /\ maint'.list = maint.list
        /\ maint'.todo = maint.todo
    BY <1>1, <1>5 DEF Pass
  <2>3. MaintenanceOK(maint', rows, lastID, printer)
    BY <1>2, <2>2 DEF MaintenanceOK
  <2> QED BY <1>1, <2>1, <2>2, <2>3, PassMoves
<1> QED BY <1>4, <1>5 DEF MaintenanceMatches

\* MaintenanceSyncs.
LEMMA MaintenanceSyncsInv ==
  ASSUME IInv, MaintenanceSyncs
  PROVE  IInv'
<1> DEFINE q == maint.queue
           p == maint.job.job
           x == maint.list[maint.sync]
<1>1. /\ UNCHANGED <<lastID, now, req, printer, late, lost>> /\ maint.pc = "sync" /\ maint \in Pass
      /\ rows' = syncObservedJob(rows, q, p, x) \/ rows' = rows
      /\ maint' = [maint EXCEPT !.pc = "apply", !.sync = 0, !.job = NoSnapshot]
  BY DEF MaintenanceSyncs, MayFail, IInv, Types
<1>2. /\ q \in Queues /\ ListOK(q, maint.list, printer)
      /\ \A k \in Queues : \A o \in maint.todo[k] : SnapshotOK(k, o, rows, lastID, printer)
      /\ maint.job \in Snapshots /\ SnapshotOK(q, maint.job, rows, lastID, printer)
      /\ maint.sync \in UpstreamID /\ (Present(rows, p) => rows[p].upstreamID = maint.sync)
  BY <1>1 DEF IInv, MaintOK, MaintenanceOK
<1>3. p \in ProxyID /\ rows[p].state # "reserved" /\ maint.sync # NoID
  BY <1>2, Numbers DEF Snapshots, SnapshotOK
<1>4. x \in {"", "active"} \cup Finals
  BY <1>1, <1>2 DEF Pass
<1>5. x \in Finals /\ Found(rows, q, p) =>
        rows[p].upstreamID # NoID /\ Done(printer[q][rows[p].upstreamID])
  BY <1>2, <1>3 DEF ListOK, Found
<1> HIDE DEF x, p
<1>6. Harmless(0)
  BY <1>1, <1>3, <1>4, <1>5, QuietHarmless, SyncHarmless
<1>7. /\ maint' \in Pass /\ maint'.pc = "apply" /\ maint'.queue = q /\ maint'.list = maint.list
      /\ maint'.todo = maint.todo
  <2>1. 0 \in 0..MaxJobs
    BY Numbers
  <2> QED BY <1>1, <2>1 DEF Pass
<1>8. MaintenanceOK(maint', rows, lastID, printer)
  BY <1>2, <1>7 DEF MaintenanceOK
<1> QED BY <1>1, <1>6, <1>7, <1>8, PassMoves

\* MaintenanceAdvances.
LEMMA MaintenanceAdvancesInv ==
  ASSUME IInv, MaintenanceAdvances
  PROVE  IInv'
<1>1. /\ UNCHANGED <<rows, lastID, now, req, printer, late, lost>> /\ maint \in Pass
      /\ \A k \in Queues : \A o \in maint.todo[k] : SnapshotOK(k, o, rows, lastID, printer)
      /\ \/ maint' = [maint EXCEPT !.pc = "query", !.queue = "", !.list = NoList]
         \/ maint' = MaintIdle
  BY DEF MaintenanceAdvances, store, IInv, Types, MaintOK, MaintenanceOK
<1>2. Harmless(0)
  BY <1>1, QuietHarmless
<1>3. maint' \in Pass /\ MaintenanceOK(maint', rows, lastID, printer)
  <2>1. CASE maint' = MaintIdle
    BY <2>1, NoPass
  <2>2. CASE maint' = [maint EXCEPT !.pc = "query", !.queue = "", !.list = NoList]
    <3>1. maint' \in Pass /\ maint'.pc = "query" /\ maint'.todo = maint.todo
      BY <1>1, <2>2, IdleRequest DEF Pass
    <3> QED BY <1>1, <3>1 DEF MaintenanceOK
  <2> QED BY <1>1, <2>1, <2>2
<1> QED BY <1>1, <1>2, <1>3, PassMoves

-----------------------------------------------------------------------------
(* The clock and the process.                                              *)

\* Tick.
LEMMA TickInv ==
  ASSUME IInv, Tick
  PROVE  IInv'
<1>1. UNCHANGED <<rows, lastID, req, printer, late, maint, lost>>
  BY DEF Tick, store
<1>2. Types'
  BY <1>1 DEF Tick, IInv, Types
<1>3. Harmless(0)
  BY <1>1, QuietHarmless
<1>4. PrintersOK' /\ LatesOK' /\ MaintOK'
  BY <1>1, <1>2, <1>3, HarmlessRest, MaintStable DEF IInv, Harmless, Stable
<1>5. \A c \in Clients : Submits(req[c]) => req[c].job # 0
  BY SubmitterFacts, Numbers
<1> QED BY <1>1, <1>2, <1>3, <1>4, <1>5, BystanderStep DEF Harmless

\* Crash: what is left behind reserved counts as lost.
LEMMA CrashInv ==
  ASSUME IInv, Crash
  PROVE  IInv'
<1> DEFINE busy == {c \in Clients : req[c].pc # "idle"}
           left == {req[c].job : c \in busy} \ {0}
<1>1. /\ UNCHANGED <<rows, lastID, now, printer, late>> /\ maint' = MaintIdle
      /\ req' = [c \in Clients |-> Idle] /\ lost' = lost \cup left
  BY DEF Crash, store
<1>2. left \subseteq ProxyID
  <2>1. \A c \in Clients : req[c].job \in 0..MaxJobs
    BY DEF IInv, Types, Request
  <2> QED BY <2>1, Numbers
<1>3. Types'
  <2>1. lost' \subseteq ProxyID /\ req' \in [Clients -> Request] /\ maint' \in Pass
    BY <1>1, <1>2, NoPass, IdleRequest DEF IInv, Types
  <2> QED BY <1>1, <2>1 DEF IInv, Types
<1>4. RowsOK' /\ PrintersOK' /\ LatesOK'
  BY <1>1 DEF IInv, RowsOK, PrintersOK, LatesOK
<1>5. RequestsOK'
  BY <1>1, IdleRequest DEF RequestsOK
<1>6. MaintOK'
  BY <1>1, NoPass DEF MaintOK
<1>7. OneSubmitter'
  BY <1>1, IdleRequest DEF OneSubmitter, Submits
<1>8. ReservedIsOwned'
  <2> SUFFICES ASSUME NEW p \in ProxyID, rows[p].state = "reserved" PROVE p \in lost'
    BY <1>1 DEF ReservedIsOwned
  <2>1. p \in lost \/ \E c \in Clients : req[c].pc # "idle" /\ req[c].job = p
    BY DEF IInv, ReservedIsOwned
  <2>2. p # 0
    BY Numbers
  <2> QED BY <1>1, <2>1, <2>2
<1> QED BY <1>3, <1>4, <1>5, <1>6, <1>7, <1>8 DEF IInv

-----------------------------------------------------------------------------
(* The invariant.                                                          *)

\* It holds at the start.
LEMMA InitInv ==
  ASSUME Init
  PROVE  IInv
<1>1. /\ \A p \in ProxyID : rows[p] = NoRow
      /\ \A q \in Queues, u \in UpstreamID : printer[q][u] = NoPrinterJob
      /\ \A c \in Clients : req[c] = Idle
      /\ late = {} /\ maint = MaintIdle /\ lastID = 0
  BY DEF Init
<1>2. NoPrinterJob \in PrinterJob /\ NoPrinterJob.state = "none" /\ NoPrinterJob.origin = 0
  BY Numbers DEF NoPrinterJob, PrinterJob
<1>3. Types
  <2>1. rows \in Tables
    BY BlankRow DEF Init, Tables
  <2>2. lastID \in 0..MaxJobs /\ now \in Nat /\ late \subseteq Request /\ lost \subseteq ProxyID
    BY Numbers DEF Init
  <2>3. req \in [Clients -> Request] /\ maint \in Pass
    BY IdleRequest, NoPass DEF Init
  <2>4. printer \in [Queues -> [UpstreamID -> PrinterJob]]
    BY <1>2 DEF Init
  <2> QED BY <2>1, <2>2, <2>3, <2>4 DEF Types
<1>4. RowsOK
  BY <1>1, BlankRow, FinalsAreTerminal DEF RowsOK, RowOK
<1>5. PrintersOK
  BY <1>1, <1>2 DEF PrintersOK, PrinterJobOK
<1>6. RequestsOK /\ LatesOK /\ MaintOK
  BY <1>1, IdleRequest, NoPass DEF RequestsOK, LatesOK, MaintOK
<1>7. OneSubmitter
  BY <1>1, IdleRequest DEF OneSubmitter, Submits
<1>8. ReservedIsOwned
  BY <1>1, BlankRow DEF ReservedIsOwned
<1> QED BY <1>3, <1>4, <1>5, <1>6, <1>7, <1>8 DEF IInv

\* Every step preserves it.
LEMMA StepInv ==
  ASSUME IInv, [Next]_vars
  PROVE  IInv'
<1>1. CASE UNCHANGED vars
  <2>1. UNCHANGED <<rows, lastID, now, req, printer, late, maint, lost>>
    BY <1>1 DEF vars
  <2>2. Harmless(0) /\ maint' \in Pass /\ MaintenanceOK(maint', rows, lastID, printer)
    BY <2>1, QuietHarmless DEF IInv, Types, MaintOK
  <2> QED BY <2>1, <2>2, PassMoves
<1>2. ASSUME NEW c \in Clients, ClientStarts(c) PROVE IInv'
  BY <1>2, PrintJobInv, CreateJobInv, GetJobsInv, SendDocumentInv, MappedJobOperationInv,
     CancelMyJobsInv DEF ClientStarts
<1>3. ASSUME NEW c \in Clients, HandlerStep(c) PROVE IInv'
  BY <1>3, StagingFailedInv, StagedInv, RecorderFailedInv, SubmissionAnsweredInv, MappingFailedInv,
     RecordDocumentInv, LeaveInDoubtInv, SendDocumentAnsweredInv, MappedJobOperationAnsweredInv,
     GetJobsAnsweredInv, JoinJobInv, GetJobsDoneInv, CancelMyJobsAnsweredInv DEF HandlerStep
<1>4. CASE PrinterStep
  BY <1>4, PrinterAcceptsInv, PrinterRefusesInv, PrinterActsLateInv, PrinterFinishesInv,
     PrinterForgetsInv DEF PrinterStep
<1>5. CASE MaintenanceStep
  BY <1>5, MaintenanceStartsInv, MaintenanceListsInv, MaintenanceQueriesInv, MaintenanceAttemptsInv,
     MaintenanceMatchesInv, MaintenanceSyncsInv, MaintenanceAdvancesInv DEF MaintenanceStep
<1> QED BY <1>1, <1>2, <1>3, <1>4, <1>5, DoFailsInv, TickInv, CrashInv DEF Next

\* IInv is an invariant of the whole system.
THEOREM Invariance == Spec => []IInv
<1>1. Init => IInv
  BY InitInv
<1>2. IInv /\ [Next]_vars => IInv'
  BY StepInv
<1> QED BY <1>1, <1>2, PTL DEF Spec

-----------------------------------------------------------------------------
(* What the invariant implies.                                             *)

\* A reservation is never forgotten by the handler that made it.
THEOREM ReservationsAreOwned == Spec => []ReservedIsOwned
<1>1. IInv => ReservedIsOwned
  BY DEF IInv
<1> QED BY <1>1, Invariance, PTL

\* A submission the printer accepted is never recorded as a rejected one.
THEOREM AcceptedStaysAccepted == Spec => []AcceptedIsNotRejected
<1>1. IInv => AcceptedIsNotRejected
  BY DEF IInv, PrintersOK, PrinterJobOK, Rejected, AcceptedIsNotRejected
<1> QED BY <1>1, Invariance, PTL

\* The registry reports a job finished only when the printer is done with it.
THEOREM FinishedIsFinished == Spec => []FinishedAtPrinter
<1>1. IInv => FinishedAtPrinter
  BY DEF IInv, RowsOK, RowOK, Done, FinishedAtPrinter
<1> QED BY <1>1, Invariance, PTL

\* A job is attached to a printer job that was submitted for it or that its name and
\* its user do not tell from it, with any names, clients, late requests and crashes.
THEOREM MappingsAreAlike == Spec => []MappedToAlike
<1>1. IInv => MappedToAlike
  BY DEF IInv, RowsOK, RowOK, MappedToAlike
<1> QED BY <1>1, Invariance, PTL

-----------------------------------------------------------------------------
(* Slots, and how a request moves on.                                      *)

\* A client's handler goes on and holds a payload slot if it did before.
Keeps(c) ==
  /\ slots' = slots
  /\ \A d \in Clients \ {c} : req'[d] = req[d]
  /\ HoldsSlot(req'[c]) <=> HoldsSlot(req[c])
  /\ HoldsSlot(req[c]) => req'[c].queue = req[c].queue
  /\ req'[c].pc = "unmapped" => req[c].pc = "unmapped" \/ SubmissionAnswered(c)

\* A client's handler takes a payload slot.
Takes(c) ==
  \E q \in Queues :
    /\ slots[q] < PayloadSlots
    /\ slots' = [slots EXCEPT ![q] = @ + 1]
    /\ \A d \in Clients \ {c} : req'[d] = req[d]
    /\ ~HoldsSlot(req[c]) /\ HoldsSlot(req'[c]) /\ req'[c].queue = q
    /\ req'[c].pc = "staging"

\* A handler that goes on with the same operation on the same queue.
LEMMA SameOperation ==
  ASSUME NEW c \in Clients, req \in [Clients -> Request], NEW s, req' = [req EXCEPT ![c] = s],
         slots' = slots, s.pc # "idle", req[c].pc # "idle",
         s.op = req[c].op, s.queue = req[c].queue,
         s.pc = "unmapped" => req[c].pc = "unmapped" \/ SubmissionAnswered(c)
  PROVE  Keeps(c)
  BY DEF Keeps, HoldsSlot

\* A handler that needs no slot.
LEMMA NoSlotNeeded ==
  ASSUME NEW c \in Clients, req \in [Clients -> Request], NEW s, req' = [req EXCEPT ![c] = s],
         slots' = slots, ~HoldsSlot(s), ~HoldsSlot(req[c]), s.pc # "unmapped"
  PROVE  Keeps(c)
  BY DEF Keeps

\* A handler that goes on without the printer's answer.
LEMMA GotoKeeps ==
  ASSUME NEW c \in Clients, req \in [Clients -> Request], NEW pc \in {"unmapped", "document", "doubt"},
         Goto(c, pc), req[c].pc # "idle", pc = "unmapped" => SubmissionAnswered(c)
  PROVE  Keeps(c)
<1>1. req' = [req EXCEPT ![c] = GoesTo(req[c], pc)] /\ slots' = slots
  BY DEF Goto, GoesTo
<1>2. LET s == GoesTo(req[c], pc) IN s.pc = pc /\ s.op = req[c].op /\ s.queue = req[c].queue
  BY GotoRequest
<1> QED BY <1>1, <1>2, SameOperation

\* New requests.
LEMMA StartMoves ==
  ASSUME Types, NEW c \in Clients, ClientStarts(c)
  PROVE  Keeps(c) \/ Takes(c)
<1>1. req \in [Clients -> Request]
  BY DEF Types
<1>2. PICK q \in Queues :
        \/ PrintJob(c, q) \/ CreateJob(c, q) \/ GetJobs(c, q)
        \/ \E p \in ProxyID :
             \/ SendDocument(c, q, p)
             \/ \E op \in {"get", "cancel", "close"} : MappedJobOperation(c, q, p, op)
        \/ \E user \in Users : CancelMyJobs(c, q, user)
  BY DEF ClientStarts
<1>3. req[c] = Idle
  BY <1>2 DEF PrintJob, CreateJob, GetJobs, SendDocument, MappedJobOperation, CancelMyJobs
<1>4. ~HoldsSlot(req[c])
  BY <1>3, IdleRequest DEF HoldsSlot
<1>5. CASE PrintJob(c, q)
  <2> DEFINE s == [Idle EXCEPT !.pc = "staging", !.op = "print", !.queue = q,
                               !.payload = TRUE, !.last = TRUE]
  <2>1. /\ req' = [req EXCEPT ![c] = s] /\ s.pc = "staging" /\ s.op = "print" /\ s.queue = q
    BY <1>5 DEF PrintJob, Idle
  <2> HIDE DEF s
  <2> QED BY <1>1, <1>4, <1>5, <2>1 DEF PrintJob, Takes, HoldsSlot
<1>6. CASE CreateJob(c, q)
  <2>1. PICK s : /\ req' = [req EXCEPT ![c] = s] /\ s.pc = "sent" /\ s.op = "create" /\ slots' = slots
    BY <1>6 DEF CreateJob, Idle
  <2> QED BY <1>1, <1>4, <2>1, NoSlotNeeded DEF HoldsSlot
<1>7. CASE GetJobs(c, q)
  <2>1. PICK s : /\ req' = [req EXCEPT ![c] = s] /\ s.pc = "sent" /\ s.op = "list" /\ slots' = slots
    BY <1>7 DEF GetJobs, Idle
  <2> QED BY <1>1, <1>4, <2>1, NoSlotNeeded DEF HoldsSlot
<1>8. ASSUME NEW p \in ProxyID, SendDocument(c, q, p) PROVE Takes(c)
  <2> DEFINE t(payload, last) == [Idle EXCEPT
               !.pc = "staging", !.op = "send", !.queue = q, !.job = p, !.id = rows[p].upstreamID,
               !.payload = payload, !.last = last]
  <2>0. PICK payload \in BOOLEAN, last \in BOOLEAN : req' = [req EXCEPT ![c] = t(payload, last)]
    BY <1>8 DEF SendDocument
  <2> DEFINE s == t(payload, last)
  <2>1. /\ req' = [req EXCEPT ![c] = s] /\ s.pc = "staging" /\ s.op = "send" /\ s.queue = q
    BY <2>0 DEF Idle
  <2> HIDE DEF s
  <2> QED BY <1>1, <1>4, <1>8, <2>1 DEF SendDocument, Takes, HoldsSlot
<1>9. ASSUME NEW p \in ProxyID, NEW op \in {"get", "cancel", "close"}, MappedJobOperation(c, q, p, op)
      PROVE  Keeps(c)
  <2> DEFINE s == [Idle EXCEPT
               !.pc = "sent", !.op = op, !.queue = q, !.job = p, !.id = rows[p].upstreamID]
  <2>1. /\ req' = [req EXCEPT ![c] = s] /\ s.pc = "sent" /\ s.op = op /\ slots' = slots
    BY <1>9 DEF MappedJobOperation, Idle
  <2> HIDE DEF s
  <2> QED BY <1>1, <1>4, <2>1, NoSlotNeeded DEF HoldsSlot
<1>10. ASSUME NEW user \in Users, CancelMyJobs(c, q, user) PROVE Keeps(c)
  <2> DEFINE mine == {p \in ListOpenJobs(rows, q, user) : rows[p].upstreamID # NoID}
             pairs == {<<p, rows[p].upstreamID>> : p \in mine}
             r == [Idle EXCEPT !.op = "cancelMine", !.queue = q]
  <2>1. PICK s \in CancelNext(r, pairs) : req' = [req EXCEPT ![c] = s]
    BY <1>10 DEF CancelMyJobs
  <2>3. s.pc # "unmapped" /\ ~HoldsSlot(s)
    <3>0. r \in Request /\ r.op = "cancelMine"
      BY IdleRequest DEF Idle, Request
    <3> HIDE DEF r, pairs
    <3>1. s = Idle \/ (s.pc = "sent" /\ s.op = "cancelMine")
      BY <3>0 DEF CancelNext, Request
    <3> QED BY <3>1, IdleRequest DEF HoldsSlot
  <2> QED BY <1>1, <1>4, <1>10, <2>1, <2>3, NoSlotNeeded DEF CancelMyJobs
<1> QED BY <1>2, <1>5, <1>6, <1>7, <1>8, <1>9, <1>10

\* A request in flight goes on under the same name.
LEMMA GoesOn ==
  ASSUME NEW r \in Request, NEW pc, NEW job, NEW answer, NEW todo
  PROVE  /\ LET s == [r EXCEPT !.pc = pc, !.job = job]
            IN s.pc = pc /\ s.op = r.op /\ s.queue = r.queue
         /\ LET s == [r EXCEPT !.pc = pc, !.answer = answer]
            IN s.pc = pc /\ s.op = r.op /\ s.queue = r.queue
         /\ LET s == [r EXCEPT !.pc = pc, !.todo = todo]
            IN s.pc = pc /\ s.op = r.op /\ s.queue = r.queue
         /\ LET s == [r EXCEPT !.todo = todo]
            IN s.pc = r.pc /\ s.op = r.op /\ s.queue = r.queue
  BY DEF Request

\* Steps of a handler, and of the network on its behalf.
LEMMA HandlerMoves ==
  ASSUME IInv, NEW c \in Clients,
         HandlerStep(c) \/ DoFails(c) \/ PrinterAccepts(c) \/ PrinterRefuses(c)
  PROVE  Keeps(c) \/ Finish(c)
<1>1. req \in [Clients -> Request] /\ req[c] \in Request /\ RequestOK(req[c], rows, lastID, printer, lost)
  BY DEF IInv, Types, RequestsOK
<1>2. ASSUME StagingFailed(c) \/ RecorderFailed(c) \/ LeaveInDoubt(c) \/ MappedJobOperationAnswered(c)
             \/ GetJobsDone(c)
      PROVE  Finish(c)
  BY <1>2 DEF StagingFailed, RecorderFailed, LeaveInDoubt, MappedJobOperationAnswered, GetJobsDone
<1>3. CASE Staged(c)
  <2>0. \E pc \in {"sent", "recorder"} : \E job :
          req' = [req EXCEPT ![c] = [req[c] EXCEPT !.pc = pc, !.job = job]]
    BY <1>3, <1>1 DEF Staged
  <2>4. PICK pc \in {"sent", "recorder"} : \E job :
          req' = [req EXCEPT ![c] = [req[c] EXCEPT !.pc = pc, !.job = job]]
    BY <2>0
  <2>1. PICK job : req' = [req EXCEPT ![c] = [req[c] EXCEPT !.pc = pc, !.job = job]]
    BY <2>4
  <2>2. slots' = slots /\ req[c].pc # "idle"
    BY <1>3 DEF Staged
  <2> DEFINE s == [req[c] EXCEPT !.pc = pc, !.job = job]
  <2>3. s.pc = pc /\ s.op = req[c].op /\ s.queue = req[c].queue /\ req' = [req EXCEPT ![c] = s]
    BY <1>1, <2>1, GoesOn
  <2> HIDE DEF s
  <2> QED BY <1>1, <2>2, <2>3, SameOperation
<1>4. CASE SubmissionAnswered(c)
  <2>1. req[c].pc # "idle" /\ (Finish(c) \/ Goto(c, "document") \/ Goto(c, "unmapped"))
    BY <1>4 DEF SubmissionAnswered, AfterMapping
  <2> QED BY <1>1, <1>4, <2>1, GotoKeeps
<1>5. CASE MappingFailed(c) \/ RecordDocument(c) \/ SendDocumentAnswered(c)
  <2>1. req[c].pc # "idle" /\ (Finish(c) \/ Goto(c, "document") \/ Goto(c, "doubt"))
    BY <1>5 DEF MappingFailed, RecordDocument, SendDocumentAnswered, AfterMapping
  <2> QED BY <1>1, <2>1, GotoKeeps
<1>6. CASE GetJobsAnswered(c)
  <2>1. PICK todo : req' = [req EXCEPT ![c] = [req[c] EXCEPT !.pc = "joining", !.todo = todo]]
    BY <1>6, <1>1 DEF GetJobsAnswered
  <2>2. slots' = slots /\ req[c].pc # "idle"
    BY <1>6 DEF GetJobsAnswered
  <2> DEFINE s == [req[c] EXCEPT !.pc = "joining", !.todo = todo]
  <2>3. s.pc = "joining" /\ s.op = req[c].op /\ s.queue = req[c].queue /\ req' = [req EXCEPT ![c] = s]
    BY <1>1, <2>1, GoesOn
  <2> HIDE DEF s
  <2> QED BY <1>1, <2>2, <2>3, SameOperation
<1>7. ASSUME NEW u \in UpstreamID, JoinJob(c, u) PROVE Keeps(c)
  <2>1. PICK todo : req' = [req EXCEPT ![c] = [req[c] EXCEPT !.todo = todo]]
    BY <1>7, <1>1 DEF JoinJob
  <2>2. slots' = slots /\ req[c].pc # "idle"
    BY <1>7 DEF JoinJob
  <2> DEFINE s == [req[c] EXCEPT !.todo = todo]
  <2>3. s.pc = req[c].pc /\ s.op = req[c].op /\ s.queue = req[c].queue /\ req' = [req EXCEPT ![c] = s]
    BY <1>1, <2>1, GoesOn
  <2> HIDE DEF s
  <2> QED BY <1>1, <2>2, <2>3, SameOperation
<1>8. CASE CancelMyJobsAnswered(c)
  <2>1. PICK s \in CancelNext(req[c], req[c].todo) : req' = [req EXCEPT ![c] = s]
    BY <1>8 DEF CancelMyJobsAnswered
  <2>2. slots' = slots /\ req[c].op = "cancelMine"
    BY <1>8 DEF CancelMyJobsAnswered
  <2>3. s = Idle \/ (s.pc = "sent" /\ s.op = "cancelMine")
    BY <1>1, <2>1, <2>2 DEF CancelNext, Request
  <2>4. s.pc # "unmapped" /\ ~HoldsSlot(s) /\ ~HoldsSlot(req[c])
    BY <2>2, <2>3, IdleRequest DEF HoldsSlot
  <2> QED BY <1>1, <2>1, <2>2, <2>4, NoSlotNeeded
<1>9. CASE PrinterAccepts(c) \/ PrinterRefuses(c)
  <2>1. PICK a : req' = [req EXCEPT ![c] = Answered(req[c], a)]
    BY <1>9, <1>1 DEF PrinterAccepts, PrinterRefuses, Answered
  <2>2. slots' = slots /\ req[c].pc # "idle"
    BY <1>9 DEF PrinterAccepts, PrinterRefuses
  <2> DEFINE s == Answered(req[c], a)
  <2>3. s.pc = "answered" /\ s.op = req[c].op /\ s.queue = req[c].queue /\ req' = [req EXCEPT ![c] = s]
    BY <1>1, <2>1, GoesOn DEF Answered
  <2> HIDE DEF s
  <2> QED BY <1>1, <2>2, <2>3, SameOperation
<1>10. CASE DoFails(c)
  <2>1. req[c].pc # "idle" /\ (Finish(c) \/ Goto(c, "doubt"))
    BY <1>10 DEF DoFails
  <2> QED BY <1>1, <2>1, GotoKeeps
<1> QED BY <1>2, <1>3, <1>4, <1>5, <1>6, <1>7, <1>8, <1>9, <1>10 DEF HandlerStep

\* Every step, as far as requests and slots are concerned.
LEMMA StepMoves ==
  ASSUME IInv, [Next]_vars
  PROVE  \/ \E c \in Clients : Keeps(c) \/ Takes(c) \/ Finish(c)
         \/ Crash
         \/ UNCHANGED <<req, slots>>
<1>1. CASE UNCHANGED vars
  BY <1>1 DEF vars
<1>2. ASSUME NEW c \in Clients, ClientStarts(c) PROVE Keeps(c) \/ Takes(c)
  BY <1>2, StartMoves DEF IInv
<1>3. ASSUME NEW c \in Clients,
             HandlerStep(c) \/ DoFails(c) \/ PrinterAccepts(c) \/ PrinterRefuses(c)
      PROVE  Keeps(c) \/ Finish(c)
  BY <1>3, HandlerMoves
<1>4. ASSUME NEW m \in late, PrinterActsLate(m) PROVE UNCHANGED <<req, slots>>
  BY <1>4 DEF PrinterActsLate
<1>5. ASSUME NEW q \in Queues, NEW u \in UpstreamID, NEW final \in FinalStates,
             PrinterFinishes(q, u, final)
      PROVE  UNCHANGED <<req, slots>>
  BY <1>5 DEF PrinterFinishes
<1>6. ASSUME NEW q \in Queues, NEW u \in UpstreamID, PrinterForgets(q, u)
      PROVE  UNCHANGED <<req, slots>>
  BY <1>6 DEF PrinterForgets
<1>7. CASE MaintenanceStep
  BY <1>7 DEF MaintenanceStep, MaintenanceStarts, MaintenanceLists, MaintenanceQueries,
     MaintenanceAttempts, MaintenanceMatches, MaintenanceSyncs, MaintenanceAdvances
<1>8. CASE Tick
  BY <1>8 DEF Tick
<1> QED BY <1>1, <1>2, <1>3, <1>4, <1>5, <1>6, <1>7, <1>8 DEF Next, PrinterStep

\* The payload handlers of a queue, and that its slots count them.
Holders(q) == {c \in Clients : HoldsSlot(req[c]) /\ req[c].queue = q}

SlotInv ==
  /\ slots \in [Queues -> Nat]
  /\ \A q \in Queues :
       /\ IsFiniteSet(Holders(q))
       /\ slots[q] = Cardinality(Holders(q))
       /\ slots[q] <= PayloadSlots

\* A handler that goes on leaves the count alone.
LEMMA KeepsCount ==
  ASSUME SlotInv, NEW c \in Clients, Keeps(c)
  PROVE  SlotInv'
<1>1. \A q \in Queues : Holders(q)' = Holders(q)
  BY DEF Keeps, Holders
<1>2. slots' = slots
  BY DEF Keeps
<1> QED BY <1>1, <1>2 DEF SlotInv

\* A handler that takes a slot is counted.
LEMMA TakesCount ==
  ASSUME SlotInv, NEW c \in Clients, Takes(c)
  PROVE  SlotInv'
<1>1. PICK q \in Queues :
        /\ slots[q] < PayloadSlots
        /\ slots' = [slots EXCEPT ![q] = @ + 1]
        /\ \A d \in Clients \ {c} : req'[d] = req[d]
        /\ ~HoldsSlot(req[c]) /\ HoldsSlot(req'[c]) /\ req'[c].queue = q
  BY DEF Takes
<1>2. Holders(q)' = Holders(q) \cup {c} /\ c \notin Holders(q)
  BY <1>1 DEF Holders
<1>3. IsFiniteSet(Holders(q)') /\ Cardinality(Holders(q)') = Cardinality(Holders(q)) + 1
  BY <1>2, FS_AddElement DEF SlotInv
<1>4. \A o \in Queues \ {q} : Holders(o)' = Holders(o) /\ slots'[o] = slots[o]
  BY <1>1 DEF Holders, SlotInv
<1>5. slots[q] \in Nat /\ PayloadSlots \in Nat
  BY LifecycleAssumption DEF SlotInv
<1>6. slots[q] + 1 \in Nat /\ slots[q] + 1 <= PayloadSlots
  BY <1>1, <1>5
<1>7. slots' \in [Queues -> Nat] /\ slots'[q] = slots[q] + 1
  BY <1>1, <1>6 DEF SlotInv
<1>8. /\ IsFiniteSet(Holders(q)') /\ slots'[q] = Cardinality(Holders(q)')
      /\ slots'[q] <= PayloadSlots
  BY <1>3, <1>6, <1>7 DEF SlotInv
<1> QED BY <1>4, <1>7, <1>8 DEF SlotInv

\* A handler that returns gives its slot back, and no other.
LEMMA FinishCount ==
  ASSUME IInv, SlotInv, NEW c \in Clients, Finish(c)
  PROVE  SlotInv'
<1>1. req \in [Clients -> Request] /\ RequestOK(req[c], rows, lastID, printer, lost)
  BY DEF IInv, Types, RequestsOK
<1>2. req'[c] = Idle /\ \A d \in Clients \ {c} : req'[d] = req[d]
  BY <1>1 DEF Finish
<1>3. ~HoldsSlot(req'[c])
  BY <1>2, IdleRequest DEF HoldsSlot
<1>4. CASE ~HoldsSlot(req[c])
  <2>1. slots' = slots /\ \A q \in Queues : Holders(q)' = Holders(q)
    BY <1>2, <1>3, <1>4 DEF Finish, Holders
  <2> QED BY <2>1 DEF SlotInv
<1>5. CASE HoldsSlot(req[c])
  <2>1. PICK q \in Queues : q = req[c].queue
    BY <1>1, <1>5 DEF RequestOK, HoldsSlot
  <2>2. slots' = [slots EXCEPT ![q] = @ - 1]
    BY <1>5, <2>1 DEF Finish
  <2>3. Holders(q)' = Holders(q) \ {c} /\ c \in Holders(q)
    BY <1>2, <1>3, <1>5, <2>1 DEF Holders
  <2>4. \A o \in Queues \ {q} : Holders(o)' = Holders(o) /\ slots'[o] = slots[o]
    BY <1>2, <1>3, <2>1, <2>2 DEF Holders, SlotInv
  <2>5. IsFiniteSet(Holders(q)') /\ Cardinality(Holders(q)') = Cardinality(Holders(q)) - 1
    BY <2>1, <2>3, FS_RemoveElement DEF SlotInv
  <2>6. Cardinality(Holders(q)') \in Nat
    BY <2>5, FS_CardinalityType
  <2>7. slots'[q] = slots[q] - 1
    BY <2>1, <2>2 DEF SlotInv
  <2>8. slots'[q] = Cardinality(Holders(q)') /\ slots'[q] \in Nat
    BY <2>1, <2>5, <2>6, <2>7 DEF SlotInv
  <2>9. slots[q] \in Nat /\ slots[q] <= PayloadSlots /\ PayloadSlots \in Nat
    BY <2>1, LifecycleAssumption DEF SlotInv
  <2>10. slots'[q] <= PayloadSlots
    BY <2>7, <2>8, <2>9
  <2>11. slots' \in [Queues -> Nat]
    BY <2>1, <2>2, <2>7, <2>8 DEF SlotInv
  <2> QED BY <2>4, <2>5, <2>8, <2>10, <2>11 DEF SlotInv
<1> QED BY <1>4, <1>5

\* Nobody holds a slot when the process starts.
LEMMA NoHolders ==
  ASSUME req = [c \in Clients |-> Idle], slots = [q \in Queues |-> 0]
  PROVE  SlotInv
<1>1. \A q \in Queues : Holders(q) = {}
  BY IdleRequest DEF Holders, HoldsSlot
<1>2. PayloadSlots \in Nat
  BY LifecycleAssumption
<1>3. slots \in [Queues -> Nat] /\ \A q \in Queues : slots[q] = 0 /\ slots[q] <= PayloadSlots
  BY <1>2
<1> QED BY <1>1, <1>3, FS_EmptySet DEF SlotInv

\* Nobody holds a slot after a restart.
LEMMA NoHoldersNext ==
  ASSUME req' = [c \in Clients |-> Idle], slots' = [q \in Queues |-> 0]
  PROVE  SlotInv'
<1>1. \A q \in Queues : Holders(q)' = {}
  BY IdleRequest DEF Holders, HoldsSlot
<1>2. PayloadSlots \in Nat
  BY LifecycleAssumption
<1>3. slots' \in [Queues -> Nat] /\ \A q \in Queues : slots'[q] = 0 /\ slots'[q] <= PayloadSlots
  BY <1>2
<1> QED BY <1>1, <1>3, FS_EmptySet DEF SlotInv

\* The slots taken are those of the running payload handlers.
LEMMA SlotInvariance == Spec => []SlotInv
<1>1. Init => SlotInv
  BY NoHolders DEF Init
<1>2. IInv /\ SlotInv /\ [Next]_vars => SlotInv'
  <2> SUFFICES ASSUME IInv, SlotInv, [Next]_vars PROVE SlotInv'
    OBVIOUS
  <2>1. CASE Crash
    <3>1. req' = [c \in Clients |-> Idle] /\ slots' = [q \in Queues |-> 0]
      BY <2>1 DEF Crash
    <3> QED BY <3>1, NoHoldersNext
  <2>2. CASE UNCHANGED <<req, slots>>
    <3>1. \A q \in Queues : Holders(q)' = Holders(q)
      BY <2>2 DEF Holders
    <3> QED BY <2>2, <3>1 DEF SlotInv
  <2> QED BY <2>1, <2>2, StepMoves, KeepsCount, TakesCount, FinishCount
<1> QED BY <1>1, <1>2, Invariance, PTL DEF Spec

\* withPayloadSlot counts exactly the running payload handlers and never exceeds
\* the configured number, whatever way through a handler is taken.
THEOREM SlotsAreCounted == Spec => []SlotsMatchHandlers
<1>1. SlotInv => SlotsMatchHandlers
  BY DEF SlotInv, SlotsMatchHandlers, Holders
<1> QED BY <1>1, SlotInvariance, PTL

-----------------------------------------------------------------------------
(* Types.                                                                  *)

\* The model's own bounds.
Bounded == now \in 0..MaxTime /\ crashes \in 0..MaxCrashes

\* Only the clock and a crash move them, up to the bound.
LEMMA BoundsStep ==
  ASSUME Bounded, [Next]_vars
  PROVE  Bounded'
<1>1. MaxTime \in Nat /\ MaxCrashes \in Nat
  BY LifecycleAssumption
<1>2. CASE Tick
  <2>1. now < MaxTime /\ now' = now + 1 /\ crashes' = crashes
    BY <1>2 DEF Tick
  <2> QED BY <1>1, <2>1 DEF Bounded
<1>3. CASE Crash
  <2>1. crashes < MaxCrashes /\ crashes' = crashes + 1 /\ now' = now
    BY <1>3 DEF Crash
  <2> QED BY <1>1, <2>1 DEF Bounded
<1>4. ASSUME NEW c \in Clients, ClientStarts(c) \/ HandlerStep(c) \/ DoFails(c)
      PROVE  now' = now /\ crashes' = crashes
  <2>1. ASSUME ClientStarts(c) PROVE now' = now /\ crashes' = crashes
    BY <2>1 DEF ClientStarts, PrintJob, CreateJob, GetJobs, SendDocument, MappedJobOperation,
       CancelMyJobs, others
  <2>2. ASSUME HandlerStep(c) PROVE now' = now /\ crashes' = crashes
    BY <2>2 DEF HandlerStep, StagingFailed, Staged, RecorderFailed, SubmissionAnswered, MappingFailed,
       RecordDocument, LeaveInDoubt, SendDocumentAnswered, MappedJobOperationAnswered,
       GetJobsAnswered, JoinJob, GetJobsDone, CancelMyJobsAnswered, others
  <2>3. ASSUME DoFails(c) PROVE now' = now /\ crashes' = crashes
    BY <2>3 DEF DoFails
  <2> QED BY <1>4, <2>1, <2>2, <2>3
<1>5. CASE PrinterStep
  <2>1. now' = now /\ crashes' = crashes
    BY <1>5 DEF PrinterStep, PrinterAccepts, PrinterRefuses, PrinterActsLate, PrinterFinishes,
       PrinterForgets, others
  <2> QED BY <2>1 DEF Bounded
<1>6. CASE MaintenanceStep
  <2>1. now' = now /\ crashes' = crashes
    BY <1>6 DEF MaintenanceStep, MaintenanceStarts, MaintenanceLists, MaintenanceQueries,
       MaintenanceAttempts, MaintenanceMatches, MaintenanceSyncs, MaintenanceAdvances
  <2> QED BY <2>1 DEF Bounded
<1>7. CASE UNCHANGED vars
  BY <1>7 DEF vars, Bounded
<1>8. ASSUME NEW c \in Clients, ClientStarts(c) \/ HandlerStep(c) \/ DoFails(c) PROVE Bounded'
  BY <1>4, <1>8 DEF Bounded
<1> QED BY <1>2, <1>3, <1>5, <1>6, <1>7, <1>8 DEF Next

\* Every variable keeps its type; that a slot count never drops below zero is
\* SlotInv's doing.
THEOREM TypeCorrect == Spec => []TypeOK
<1>1. Init => Bounded
  <2>1. MaxTime \in Nat /\ MaxCrashes \in Nat
    BY LifecycleAssumption
  <2> QED BY <2>1 DEF Init, Bounded
<1>2. Bounded /\ [Next]_vars => Bounded'
  BY BoundsStep
<1>3. IInv /\ SlotInv /\ Bounded => TypeOK
  BY DEF IInv, SlotInv, Bounded, Types, Tables, TypeOK
<1> QED BY <1>1, <1>2, <1>3, Invariance, SlotInvariance, PTL DEF Spec

-----------------------------------------------------------------------------
(* Which job numbers collide.                                              *)

\* A row's printer job is one that its name and user fit.
LEMMA HeldIsAlike ==
  ASSUME IInv, NEW o \in ProxyID, rows[o].upstreamID # NoID
  PROVE  Alike(o, printer[rows[o].queue][rows[o].upstreamID].origin)
BY DEF IInv, RowsOK, RowOK

\* An accepted submission whose number the printer gave can be mapped, unless another
\* row of the queue holds that number; the printer job fits that row too.
LEMMA AcceptedIsMappable ==
  ASSUME IInv, NEW c \in Clients, Submits(req[c]),
         req[c].pc = "answered", req[c].answer.ok, req[c].answer.id # NoID
  PROVE  \/ MarkMappedOK(rows, req[c].queue, req[c].job, req[c].answer.id, URI(req[c].answer.id))
         \/ \E o \in ProxyID \ {req[c].job} :
              /\ Found(rows, req[c].queue, o) /\ rows[o].upstreamID = req[c].answer.id
              /\ Alike(o, req[c].job)
<1> DEFINE r == req[c]
           p == r.job
           u == r.answer.id
<1>1. r \in Request /\ SubmitterOK(r, rows, lastID, printer, lost)
  BY DEF IInv, Types, RequestsOK, RequestOK
<1>2. p \in ProxyID /\ rows[p].state = "reserved" /\ printer[r.queue][u].origin = p
  BY <1>1 DEF SubmitterOK
<1>3. rows[p].queue = r.queue
  BY <1>1, <1>2 DEF SubmitterOK, Present
<1>4. rows[p].upstreamID = NoID /\ rows[p].upstreamURI = NoID
  BY <1>2 DEF IInv, RowsOK, RowOK
<1>5. ASSUME NEW o \in ProxyID \ {p}, Found(rows, r.queue, o), rows[o].upstreamID = u
      PROVE  Alike(o, p)
  <2>1. Alike(o, printer[rows[o].queue][rows[o].upstreamID].origin)
    BY <1>5, HeldIsAlike
  <2>2. rows[o].queue = r.queue
    BY <1>5 DEF Found
  <2> QED BY <1>2, <1>5, <2>1, <2>2
<1>6. ~IsTerminalState(rows[p].state)
  BY <1>2, OpenStates
<1> QED BY <1>2, <1>3, <1>4, <1>5, <1>6 DEF MarkMappedOK, Found, Present

\* Printers number their jobs independently, and maintenance maps jobs too; still the
\* number of an accepted submission is refused only when a row of the same queue that
\* does not tell itself from it was attached to its printer job first.
THEOREM OnlyAlikeCollide == Spec => CollisionsAreAlike
<1> DEFINE TakenByAlike(c) ==
             \E o \in ProxyID \ {req[c].job} :
               /\ Found(rows, req[c].queue, o) /\ rows[o].upstreamID = req[c].answer.id
               /\ Alike(o, req[c].job)
           Refused(c) == /\ req[c].pc = "answered" /\ req'[c].pc = "unmapped"
                         /\ ~StoreMayFail /\ ~PrinterOmitsID
           Collides == \A c \in Clients : Refused(c) => TakenByAlike(c)
<1>1. ASSUME IInv, [Next]_vars PROVE Collides
  <2> SUFFICES ASSUME NEW d \in Clients, Refused(d)
               PROVE  TakenByAlike(d)
    OBVIOUS
  <2>1. req \in [Clients -> Request] /\ req'[d] # req[d]
    BY <1>1 DEF IInv, Types
  <2>2. ASSUME SubmissionAnswered(d) PROVE TakenByAlike(d)
    <3>1. Submits(req[d])
      BY <2>2 DEF SubmissionAnswered, Submits
    <3>2. req[d].answer.ok => req[d].answer.id # NoID
      BY <1>1, <3>1 DEF IInv, RequestsOK, RequestOK, SubmitterOK
    <3>3. ASSUME Finish(d) PROVE FALSE
      BY <2>1, <3>3, IdleRequest DEF Finish
    <3>4. ASSUME Goto(d, "document") PROVE FALSE
      <4>1. req' = [req EXCEPT ![d] = GoesTo(req[d], "document")]
        BY <3>4, <2>1 DEF Goto, GoesTo
      <4> QED BY <2>1, <4>1, GotoRequest
    <3>5. /\ req[d].answer.ok
          /\ ~MarkMappedOK(rows, req[d].queue, req[d].job, req[d].answer.id, URI(req[d].answer.id))
      BY <2>2, <3>2, <3>3, <3>4 DEF SubmissionAnswered, AfterMapping
    <3> QED BY <1>1, <3>1, <3>2, <3>5, AcceptedIsMappable
  <2>3. ASSUME NEW c \in Clients, Keeps(c) PROVE SubmissionAnswered(d)
    BY <2>1, <2>3 DEF Keeps
  <2>4. ASSUME NEW c \in Clients, Takes(c) PROVE FALSE
    BY <2>1, <2>4 DEF Takes
  <2>5. ASSUME NEW c \in Clients, Finish(c) PROVE FALSE
    BY <2>1, <2>5, IdleRequest DEF Finish
  <2>6. CASE Crash
    BY <2>6, IdleRequest DEF Crash
  <2>7. CASE UNCHANGED <<req, slots>>
    BY <2>1, <2>7
  <2> QED BY <1>1, <2>2, <2>3, <2>4, <2>5, <2>6, <2>7, StepMoves
<1> HIDE DEF Collides
<1>2. IInv /\ [Next]_vars => [Collides]_vars
  BY <1>1
<1>3. Spec => [][Collides]_vars
  BY <1>2, Invariance, PTL DEF Spec
<1> QED BY <1>3 DEF Collides, CollisionsAreAlike

-----------------------------------------------------------------------------
(* Refinement.  What a step does to the registry is a call that reserves,  *)
(* notes, doubts, closes, binds or sweeps, whoever makes it and whatever   *)
(* became of the row since it was read; and each of these is a step in the *)
(* life of a job.                                                          *)

\* One row is written.
RowStep(p) ==
  /\ Writes(rows, p, rows') /\ lastID' = lastID
  /\ \/ Noted(rows[p], rows'[p])
     \/ Doubted(rows[p], rows'[p])
     \/ \E state \in TerminalStates : \E x : Closed(rows[p], rows'[p], state, x)
     \/ \E u \in UpstreamID : \E uri :
          Bound(rows[p], rows'[p], u, uri) /\ MarkMappedOK(rows, rows[p].queue, p, u, uri)

ReserveRow ==
  /\ lastID < MaxJobs /\ lastID' = lastID + 1
  /\ \E q \in Queues : Reserves(rows, lastID + 1, q, rows')

SweepRows == rows' = CleanupExpired(rows, now) /\ lastID' = lastID

TableStep ==
  \/ UNCHANGED <<rows, lastID>>
  \/ \E p \in ProxyID : RowStep(p)
  \/ ReserveRow
  \/ SweepRows

\* The registry calls.
LEMMA CallSteps ==
  ASSUME IInv, lastID' = lastID, NEW q, NEW p \in ProxyID,
         \/ rows' = rows
         \/ rows' = MarkUncertain(rows, q, p, now)
         \/ \E x \in ObservedStates : rows' = MarkTerminal(rows, q, p, x, now)
         \/ rows' = UpdateState(rows, q, p, "failed", now)
         \/ \E x \in {"", "active"} \cup Finals : rows' = syncObservedJob(rows, q, p, x)
         \/ \E a, b \in BOOLEAN : rows' = UpdateDocument(rows, q, p, a, b)
         \/ rows' = MarkReconcileAttempt(rows, p, now)
         \/ \E u \in UpstreamID, uri \in Nat : rows' = MarkMapped(rows, q, p, u, uri)
  PROVE  TableStep
<1>1. rows \in Tables /\ now \in Nat
  BY RowFacts
<1>2. CASE rows' = rows
  BY <1>2 DEF TableStep
<1>3. ASSUME Writes(rows, p, rows'),
             Noted(rows[p], rows'[p]) \/ Doubted(rows[p], rows'[p])
      PROVE  TableStep
  BY <1>3 DEF TableStep, RowStep
<1>4. CASE rows' = MarkUncertain(rows, q, p, now)
  BY <1>1, <1>2, <1>3, <1>4, MarkUncertainEffect
<1>5. ASSUME NEW state \in TerminalStates, NEW x,
             Writes(rows, p, rows'), Closed(rows[p], rows'[p], state, x)
      PROVE  TableStep
  BY <1>5 DEF TableStep, RowStep
<1>6. ASSUME NEW x \in ObservedStates, rows' = MarkTerminal(rows, q, p, x, now)
      PROVE  TableStep
  <2>1. "terminal" \in TerminalStates
    BY DEF TerminalStates
  <2>2. rows' = rows \/ (Writes(rows, p, rows') /\ Closed(rows[p], rows'[p], "terminal", x))
    BY <1>1, <1>6, MarkTerminalEffect
  <2> QED BY <1>2, <1>5, <2>1, <2>2
<1>7. CASE rows' = UpdateState(rows, q, p, "failed", now)
  <2>1. "failed" \in TerminalStates
    BY DEF TerminalStates
  <2>2. rows' = rows \/ (Writes(rows, p, rows') /\ Closed(rows[p], rows'[p], "failed", "failed"))
    BY <1>1, <1>7, <2>1, UpdateStateEffect
  <2> QED BY <1>2, <1>5, <2>1, <2>2
<1>8. ASSUME NEW x \in {"", "active"} \cup Finals, rows' = syncObservedJob(rows, q, p, x)
      PROVE  TableStep
  <2>1. CASE x = ""
    BY <1>2, <1>8, <2>1 DEF syncObservedJob
  <2>2. CASE x \in Finals
    BY <1>6, <1>8, <2>2, FinalsAreTerminal DEF syncObservedJob
  <2>3. CASE x = "active"
    <3>1. rows' = UpdateObserved(rows, q, p, "active", now)
      BY <1>8, <2>3, OpenStates DEF syncObservedJob
    <3> QED BY <1>1, <1>2, <1>3, <3>1, UpdateObservedEffect
  <2> QED BY <2>1, <2>2, <2>3
<1>9. ASSUME NEW a \in BOOLEAN, NEW b \in BOOLEAN, rows' = UpdateDocument(rows, q, p, a, b)
      PROVE  TableStep
  BY <1>1, <1>2, <1>3, <1>9, UpdateDocumentEffect
<1>10. CASE rows' = MarkReconcileAttempt(rows, p, now)
  BY <1>1, <1>2, <1>3, <1>10, MarkReconcileAttemptEffect
<1>11. ASSUME NEW u \in UpstreamID, NEW uri \in Nat, rows' = MarkMapped(rows, q, p, u, uri)
       PROVE  TableStep
  <2>1. u \in Nat
    BY Numbers
  <2>2. CASE MarkMappedOK(rows, q, p, u, uri)
    <3>1. Writes(rows, p, rows') /\ Bound(rows[p], rows'[p], u, uri)
      BY <1>1, <1>11, <2>1, <2>2, MarkMappedEffect
    <3>2. rows[p].queue = q
      BY <2>2 DEF MarkMappedOK, Found
    <3> QED BY <2>2, <3>1, <3>2 DEF TableStep, RowStep
  <2>3. CASE ~MarkMappedOK(rows, q, p, u, uri)
    BY <1>1, <1>2, <1>11, <2>1, <2>3, MarkMappedEffect
  <2> QED BY <2>2, <2>3
<1> QED BY <1>2, <1>4, <1>6, <1>7, <1>8, <1>9, <1>10, <1>11

\* A job is reserved under the next number.
LEMMA ReserveSteps ==
  ASSUME IInv, NEW q \in Queues, lastID < MaxJobs, lastID' = lastID + 1,
         rows' = Reserve(rows, lastID + 1, q, UserOf[lastID + 1], NameOf[lastID + 1])
  PROVE  TableStep
<1>1. rows \in Tables
  BY DEF IInv, Types
<1>2. lastID + 1 \in ProxyID
  <2>1. lastID \in 0..MaxJobs
    BY DEF IInv, Types
  <2> QED BY <2>1, MaxJobsAssumption DEF ProxyID
<1>3. UserOf[lastID + 1] \in Users \cup {""} /\ NameOf[lastID + 1] \in Names \cup {""}
  BY <1>2, LifecycleAssumption
<1>4. Reserves(rows, lastID + 1, q, rows')
  BY <1>1, <1>2, <1>3, ReserveEffect
<1> QED BY <1>4 DEF TableStep, ReserveRow

\* The job of a handler that records an outcome.
LEMMA RecordsOwnJob ==
  ASSUME IInv, NEW c \in Clients,
         Submits(req[c]) \/ Works(req[c])
  PROVE  req[c].job \in ProxyID /\ req[c] \in Request
  BY SubmitterFacts, WorkerFacts

\* What a handler does to the registry.
LEMMA HandlerCalls ==
  ASSUME IInv, NEW c \in Clients, HandlerStep(c)
  PROVE  TableStep
<1> DEFINE r == req[c]
           q == r.queue
           p == r.job
<1>1. CASE StagingFailed(c) \/ GetJobsAnswered(c) \/ GetJobsDone(c)
  BY <1>1 DEF StagingFailed, GetJobsAnswered, GetJobsDone, NothingStored, store, TableStep
<1>2. CASE Staged(c)
  <2>1. q \in Queues
    BY <1>2, RequestKinds DEF Staged
  <2> QED BY <1>2, <2>1, ReserveSteps DEF Staged, store, TableStep
<1>3. ASSUME r.pc \in {"recorder", "unmapped", "document", "doubt"} \/ (r.pc = "answered" /\ r.op # "list")
      PROVE  p \in ProxyID /\ r \in Request
  <2>1. r.op # "list"
    BY <1>3, ListerFacts DEF ListerOK
  <2>2. Submits(r) \/ Works(r)
    BY <1>3, <2>1, RequestKinds
  <2> QED BY <2>2, RecordsOwnJob
<1>4. CASE RecorderFailed(c)
  <2>1. p \in ProxyID
    BY <1>3, <1>4 DEF RecorderFailed
  <2>2. "failed" \in ObservedStates
    BY DEF ObservedStates, TerminalStates
  <2> QED BY <1>4, <2>1, <2>2, CallSteps DEF RecorderFailed, Stored
<1>5. CASE SubmissionAnswered(c)
  <2>1. p \in ProxyID /\ r \in Request
    BY <1>3, <1>5 DEF SubmissionAnswered
  <2>2. "rejected" \in ObservedStates
    BY DEF ObservedStates
  <2>3. r.answer.id \in 0..MaxJobs
    BY <2>1 DEF Request, Answer
  <2>4. r.answer.id # NoID => r.answer.id \in UpstreamID /\ URI(r.answer.id) \in Nat
    BY <2>3, Numbers, URIs
  <2> QED BY <1>5, <2>1, <2>2, <2>4, CallSteps DEF SubmissionAnswered, Stored, NothingStored
<1>6. CASE MappingFailed(c)
  <2>1. p \in ProxyID
    BY <1>3, <1>6 DEF MappingFailed
  <2> QED BY <1>6, <2>1, CallSteps DEF MappingFailed, Stored
<1>7. CASE RecordDocument(c)
  <2>1. p \in ProxyID /\ r.payload \in BOOLEAN /\ r.last \in BOOLEAN
    BY <1>3, <1>7 DEF RecordDocument, Request
  <2> QED BY <1>7, <2>1, CallSteps DEF RecordDocument, NothingStored
<1>8. CASE LeaveInDoubt(c)
  <2>1. p \in ProxyID
    BY <1>3, <1>8 DEF LeaveInDoubt
  <2> QED BY <1>8, <2>1, CallSteps DEF LeaveInDoubt, Stored
<1>9. CASE SendDocumentAnswered(c)
  <2>1. p \in ProxyID
    BY <1>3, <1>9 DEF SendDocumentAnswered
  <2> QED BY <1>9, <2>1, CallSteps DEF SendDocumentAnswered, Stored, NothingStored
<1>10. CASE MappedJobOperationAnswered(c)
  <2>1. p \in ProxyID /\ r.answer.state \in {"", "active"} \cup Finals
    BY <1>3, <1>10 DEF MappedJobOperationAnswered, Request, Answer
  <2>2. "canceled" \in ObservedStates
    BY DEF ObservedStates, TerminalStates
  <2> QED BY <1>10, <2>1, <2>2, CallSteps DEF MappedJobOperationAnswered, Stored, NothingStored
<1>11. ASSUME NEW u \in UpstreamID, JoinJob(c, u) PROVE TableStep
  <2> DEFINE hits == {o \in ProxyID : Found(rows, q, o) /\ rows[o].upstreamID = u}
  <2>1. r.answer.list[u] \in {"", "active"} \cup Finals
    BY <1>11, RequestKinds DEF JoinJob, Request, Answer
  <2>2. ASSUME NEW o \in hits, Stored(o, syncObservedJob(rows, q, o, r.answer.list[u])) PROVE TableStep
    BY <2>1, <2>2, CallSteps DEF Stored
  <2>3. ASSUME hits # {}
        PROVE  (CHOOSE o \in hits : TRUE) \in hits
    BY <2>3
  <2> QED BY <1>11, <2>2, <2>3 DEF JoinJob, NothingStored, TableStep
<1>12. CASE CancelMyJobsAnswered(c)
  <2>1. p \in ProxyID
    BY <1>3, <1>12 DEF CancelMyJobsAnswered
  <2>2. "canceled" \in ObservedStates
    BY DEF ObservedStates, TerminalStates
  <2> QED BY <1>12, <2>1, <2>2, CallSteps DEF CancelMyJobsAnswered, Stored, NothingStored
<1> QED BY <1>1, <1>2, <1>4, <1>5, <1>6, <1>7, <1>8, <1>9, <1>10, <1>11, <1>12 DEF HandlerStep

\* What the maintenance pass does to it.
LEMMA PassCalls ==
  ASSUME IInv, MaintenanceStep
  PROVE  TableStep
<1>1. CASE MaintenanceStarts
  BY <1>1 DEF MaintenanceStarts, MayFail, TableStep, SweepRows
<1>2. CASE MaintenanceLists \/ (\E q \in Queues : MaintenanceQueries(q)) \/ MaintenanceAdvances
  BY <1>2 DEF MaintenanceLists, MaintenanceQueries, MaintenanceAdvances, store, TableStep
<1>3. CASE MaintenanceAttempts
  <2>1. PICK j \in maint.todo[maint.queue] : rows' = rows \/ rows' = MarkReconcileAttempt(rows, j.job, now)
    BY <1>3 DEF MaintenanceAttempts, MayFail
  <2>2. maint \in Pass /\ maint.queue \in Queues
    BY <1>3 DEF MaintenanceAttempts, IInv, Types, MaintOK, MaintenanceOK
  <2>3. maint.todo[maint.queue] \subseteq Snapshots
    BY <2>2 DEF Pass
  <2>4. j.job \in ProxyID
    BY <2>3 DEF Snapshots
  <2>5. lastID' = lastID
    BY <1>3 DEF MaintenanceAttempts
  <2> QED BY <2>1, <2>4, <2>5, CallSteps
<1>4. CASE MaintenanceMatches
  <2> DEFINE q == maint.queue
             j == maint.job
             p == maint.job.job
             uri(u) == IF j.id # NoID THEN j.uri ELSE URI(u)
  <2>1. maint.pc = "match" /\ lastID' = lastID
    BY <1>4 DEF MaintenanceMatches
  <2>2. j \in Snapshots
    BY <2>1 DEF IInv, MaintOK, MaintenanceOK
  <2>3. p \in ProxyID /\ j.uri \in Nat
    BY <2>2 DEF Snapshots
  <2>4. ASSUME NEW u \in Match(j, q), rows' = MarkMapped(rows, q, p, u, uri(u)) PROVE TableStep
    <3>1. u \in UpstreamID
      BY <2>1, <2>4, MatchIsAlike
    <3> DEFINE w == uri(u)
    <3>2. w \in Nat
      BY <2>3, <3>1, Numbers, URIs
    <3>3. rows' = MarkMapped(rows, q, p, u, w)
      BY <2>4
    <3> HIDE DEF w, p, q
    <3> QED BY <2>1, <2>3, <3>1, <3>2, <3>3, CallSteps
  <2> QED BY <1>4, <2>4 DEF MaintenanceMatches, TableStep
<1>5. CASE MaintenanceSyncs
  <2> DEFINE q == maint.queue
             p == maint.job.job
             x == maint.list[maint.sync]
  <2>1. lastID' = lastID /\ (rows' = syncObservedJob(rows, q, p, x) \/ rows' = rows) /\ maint.pc = "sync"
    BY <1>5 DEF MaintenanceSyncs, MayFail
  <2>2. maint \in Pass /\ maint.job \in Snapshots /\ maint.sync \in UpstreamID
    BY <2>1 DEF IInv, Types, MaintOK, MaintenanceOK
  <2>3. p \in ProxyID /\ x \in {"", "active"} \cup Finals
    BY <2>2 DEF Snapshots, Pass
  <2> HIDE DEF p, q, x
  <2> QED BY <2>1, <2>3, CallSteps
<1> QED BY <1>1, <1>2, <1>3, <1>4, <1>5 DEF MaintenanceStep

\* Every step, as far as the registry is concerned.
LEMMA RegistrySteps ==
  ASSUME IInv, [Next]_vars
  PROVE  TableStep
<1>1. CASE UNCHANGED vars
  BY <1>1 DEF vars, TableStep
<1>2. ASSUME NEW c \in Clients, ClientStarts(c) PROVE TableStep
  <2>1. ASSUME NEW q \in Queues, CreateJob(c, q) PROVE TableStep
    BY <2>1, ReserveSteps DEF CreateJob
  <2>2. CASE UNCHANGED <<rows, lastID>>
    BY <2>2 DEF TableStep
  <2> QED BY <1>2, <2>1, <2>2 DEF ClientStarts, PrintJob, GetJobs, SendDocument, MappedJobOperation,
       CancelMyJobs, store
<1>3. ASSUME NEW c \in Clients, HandlerStep(c) PROVE TableStep
  BY <1>3, HandlerCalls
<1>4. ASSUME NEW c \in Clients, DoFails(c) PROVE TableStep
  BY <1>4 DEF DoFails, NothingStored, TableStep
<1>5. CASE PrinterStep
  BY <1>5 DEF PrinterStep, PrinterAccepts, PrinterRefuses, PrinterActsLate, PrinterFinishes,
     PrinterForgets, store, TableStep
<1>6. CASE Tick \/ Crash
  BY <1>6 DEF Tick, Crash, store, TableStep
<1> QED BY <1>1, <1>2, <1>3, <1>4, <1>5, <1>6, PassCalls DEF Next

stageNow == [p \in ProxyID |-> StageOf(rows[p], p <= lastID)]
homeNow  == [p \in ProxyID |-> rows[p].queue]
boundNow == [p \in ProxyID |-> rows[p].upstreamID]

\* The stage that a row is in.
LEMMA Stages ==
  ASSUME NEW r \in Row, NEW allocated
  PROVE  /\ r.state \in {"reserved", "mapped", "uncertain"} => StageOf(r, allocated) = r.state
         /\ IsTerminalState(r.state) => StageOf(r, allocated) = "terminal"
         /\ r.state = "absent" =>
              StageOf(r, allocated) = IF allocated THEN "forgotten" ELSE "free"
         /\ ~IsTerminalState(r.state) /\ r.state # "absent" =>
              r.state \in {"reserved", "mapped", "uncertain"}
  BY DEF StageOf, Row, IsTerminalState, TerminalStates

\* Before the first submission every job is free.
LEMMA FreeAtFirst == Init => Ledger!Init
<1> SUFFICES ASSUME Init PROVE Ledger!Init
  OBVIOUS
<1>1. \A p \in ProxyID : rows[p] = NoRow /\ ~(p <= lastID)
  BY MaxJobsAssumption DEF Init, ProxyID
<1>2. ASSUME NEW p \in ProxyID PROVE StageOf(rows[p], p <= lastID) = "free"
  BY <1>1, BlankRow DEF StageOf, IsTerminalState, TerminalStates
<1> QED BY <1>1, <1>2, BlankRow DEF Ledger!Init, NoID

\* Reserve submits a job that was free.
LEMMA ReserveSubmits ==
  ASSUME IInv, ReserveRow
  PROVE  Ledger!Next
<1> DEFINE n == lastID + 1
<1>1. PICK q \in Queues : Reserves(rows, n, q, rows')
  BY DEF ReserveRow
<1>2. lastID \in 0..MaxJobs /\ lastID < MaxJobs /\ lastID' = n /\ rows \in Tables
  BY DEF IInv, Types, ReserveRow
<1>3. n \in ProxyID /\ ~(n <= lastID) /\ n <= lastID'
  BY <1>2, MaxJobsAssumption DEF ProxyID
<1>4. \A p \in ProxyID : p # n => ((p <= lastID') <=> (p <= lastID))
  BY <1>2, MaxJobsAssumption DEF ProxyID
<1> HIDE DEF n
<1>5. rows[n] = NoRow
  BY <1>3 DEF IInv, RowsOK, RowOK
<1>6. /\ rows'[n].state = "reserved" /\ rows'[n].queue = q /\ rows'[n].upstreamID = NoID
      /\ \A p \in ProxyID \ {n} : rows'[p] = rows[p]
      /\ rows'[n] \in Row
  BY <1>1, <1>3 DEF Reserves, Tables
<1>7. StageOf(rows[n], n <= lastID) = "free"
  BY <1>3, <1>5, BlankRow, Stages
<1>8. StageOf(rows'[n], n <= lastID') = "reserved"
  BY <1>6, Stages
<1>9. \A p \in ProxyID \ {n} : StageOf(rows'[p], p <= lastID') = StageOf(rows[p], p <= lastID)
  BY <1>4, <1>6 DEF StageOf
<1>10. stageNow' = [stageNow EXCEPT ![n] = "reserved"]
  BY <1>8, <1>9 DEF stageNow
<1>11. homeNow' = [homeNow EXCEPT ![n] = q]
  BY <1>6 DEF homeNow
<1>12. boundNow' = boundNow
  BY <1>5, <1>6, BlankRow DEF boundNow
<1>13. Ledger!Submit(n, q)
  BY <1>3, <1>7, <1>10, <1>11, <1>12 DEF Ledger!Submit, stageNow, homeNow, boundNow
<1> QED BY <1>3, <1>13 DEF Ledger!Next

\* A written row is bound, in doubt or concluded, or nobody can tell.
LEMMA RowStepInLedger ==
  ASSUME IInv, NEW p \in ProxyID, RowStep(p)
  PROVE  Ledger!Next \/ UNCHANGED <<stageNow, homeNow, boundNow>>
<1> DEFINE a == p <= lastID
           s == rows'[p]
<1>1. /\ rows \in Tables /\ rows' \in Tables /\ rows[p] \in Row /\ s \in Row
      /\ rows[p].state # "absent" /\ s.queue = rows[p].queue /\ lastID' = lastID
      /\ \A o \in ProxyID \ {p} : rows'[o] = rows[o]
  BY DEF RowStep, Writes, Present, IInv, Types, Tables
<1>2. stageNow' = [stageNow EXCEPT ![p] = StageOf(s, a)]
  BY <1>1 DEF stageNow
<1>3. homeNow' = homeNow
  BY <1>1 DEF homeNow
<1>4. boundNow' = [boundNow EXCEPT ![p] = s.upstreamID]
  BY <1>1 DEF boundNow
<1>5. /\ stageNow[p] = StageOf(rows[p], a) /\ boundNow[p] = rows[p].upstreamID
      /\ stageNow = [o \in ProxyID |-> stageNow[o]]
      /\ boundNow = [o \in ProxyID |-> boundNow[o]]
  BY DEF stageNow, boundNow
<1>6. ~IsTerminalState(rows[p].state) => Ledger!Open(p)
  <2>1. ~IsTerminalState(rows[p].state) => StageOf(rows[p], a) \in {"reserved", "mapped", "uncertain"}
    BY <1>1, Stages
  <2> QED BY <1>5, <2>1 DEF Ledger!Open, stageNow
<1> HIDE DEF s
<1>7. ASSUME NEW u \in UpstreamID, NEW uri, Bound(rows[p], s, u, uri),
             MarkMappedOK(rows, rows[p].queue, p, u, uri)
      PROVE  Ledger!Next
  <2>1. StageOf(s, a) = "mapped" /\ s.upstreamID = u
    BY <1>1, <1>7, Stages DEF Bound
  <2>2. u # NoID /\ NoID = 0
    BY Numbers
  <2>3. boundNow[p] \in {0, u} /\ Ledger!Open(p)
    BY <1>5, <1>6, <1>7, <2>2 DEF MarkMappedOK
  <2>4. ASSUME NEW o \in ProxyID \ {p}, stageNow[o] \notin {"free", "forgotten"},
               homeNow[o] = homeNow[p]
        PROVE  boundNow[o] # u
    <3>1. rows[o] \in Row /\ rows[o].queue = rows[p].queue
      BY <1>1, <2>4 DEF homeNow, Tables
    <3>2. rows[o].state # "absent"
      BY <2>4, <3>1, Stages DEF stageNow
    <3> QED BY <1>7, <2>2, <3>1, <3>2 DEF MarkMappedOK, Found, Present, boundNow
  <2>5. Ledger!Bind(p, u)
    BY <1>2, <1>3, <1>4, <2>1, <2>3, <2>4 DEF Ledger!Bind, Ledger!Open, stageNow, homeNow, boundNow
  <2> QED BY <2>5 DEF Ledger!Next
<1>8. ASSUME SameMapping(rows[p], s) PROVE boundNow' = boundNow
  BY <1>4, <1>5, <1>8 DEF SameMapping
<1>9. ASSUME Doubted(rows[p], s) PROVE Ledger!Next
  <2>1. StageOf(s, a) = "uncertain" /\ Ledger!Open(p) /\ boundNow' = boundNow
    BY <1>1, <1>6, <1>8, <1>9, Stages DEF Doubted
  <2>2. Ledger!Doubt(p)
    BY <1>2, <1>3, <2>1 DEF Ledger!Doubt, stageNow, homeNow, boundNow
  <2> QED BY <2>2 DEF Ledger!Next
<1>10. ASSUME NEW state \in TerminalStates, NEW x, Closed(rows[p], s, state, x)
       PROVE  Ledger!Next \/ UNCHANGED <<stageNow, homeNow, boundNow>>
  <2>1. StageOf(s, a) = "terminal" /\ boundNow' = boundNow
    BY <1>1, <1>8, <1>10, Stages DEF Closed, IsTerminalState
  <2>2. CASE ~IsTerminalState(rows[p].state)
    <3>1. Ledger!Conclude(p)
      BY <1>2, <1>3, <1>6, <2>1, <2>2 DEF Ledger!Conclude, stageNow, homeNow, boundNow
    <3> QED BY <3>1 DEF Ledger!Next
  <2>3. CASE IsTerminalState(rows[p].state)
    <3>1. StageOf(rows[p], a) = "terminal"
      BY <1>1, <2>3, Stages
    <3> QED BY <1>2, <1>3, <1>5, <2>1, <3>1
  <2> QED BY <2>2, <2>3
<1>11. ASSUME Noted(rows[p], s) PROVE UNCHANGED <<stageNow, homeNow, boundNow>>
  <2>1. StageOf(s, a) = StageOf(rows[p], a) /\ boundNow' = boundNow
    BY <1>8, <1>11 DEF Noted, StageOf
  <2> QED BY <1>2, <1>3, <1>5, <2>1
<1> QED BY <1>7, <1>9, <1>10, <1>11 DEF RowStep, s

\* The retention sweep forgets concluded jobs.
LEMMA SweepForgets ==
  ASSUME IInv, SweepRows
  PROVE  Ledger!Next
<1> DEFINE S == {p \in ProxyID : Expired(rows[p], now)}
<1>1. /\ \A p \in ProxyID : rows'[p] = IF p \in S THEN NoRow ELSE rows[p]
      /\ lastID' = lastID
  BY DEF SweepRows, CleanupExpired
<1>2. \A p \in S : IsTerminalState(rows[p].state) /\ p <= lastID
  <2>1. ASSUME NEW p \in S PROVE IsTerminalState(rows[p].state) /\ rows[p].state # "absent"
    BY <2>1, OpenStates DEF Expired
  <2> QED BY <2>1, RowFacts DEF RowOK
<1> HIDE DEF S
<1>3. S \in SUBSET ProxyID
  BY DEF S
<1>4. \A p \in S : stageNow[p] = "terminal"
  BY <1>2, <1>3, RowFacts, Stages DEF stageNow
<1>5. \A p \in ProxyID : StageOf(rows'[p], p <= lastID') = IF p \in S THEN "forgotten" ELSE stageNow[p]
  <2>1. ASSUME NEW p \in S PROVE StageOf(rows'[p], p <= lastID') = "forgotten"
    BY <1>1, <1>2, <1>3, BlankRow, Stages
  <2>2. ASSUME NEW p \in ProxyID \ S PROVE StageOf(rows'[p], p <= lastID') = stageNow[p]
    BY <1>1 DEF stageNow
  <2> QED BY <2>1, <2>2
<1>6. stageNow' = [p \in ProxyID |-> IF p \in S THEN "forgotten" ELSE stageNow[p]]
  BY <1>5 DEF stageNow
<1>7. homeNow' = [p \in ProxyID |-> IF p \in S THEN "" ELSE homeNow[p]]
  BY <1>1, BlankRow DEF homeNow
<1>8. boundNow' = [p \in ProxyID |-> IF p \in S THEN 0 ELSE boundNow[p]]
  BY <1>1, BlankRow DEF boundNow, NoID
<1>9. PICK D \in SUBSET ProxyID : D = S
  BY <1>3
<1>10. Ledger!Forget(D)
  BY <1>4, <1>6, <1>7, <1>8, <1>9 DEF Ledger!Forget, stageNow, homeNow, boundNow
<1> QED BY <1>10 DEF Ledger!Next

\* Handlers that apply stale answers, lost replies, late deliveries, the
\* reconciliation and restarts together never take a job off the life that
\* JobLedger describes.
THEOREM ProxyImplementsLedger == Spec => ImplementsLedger
<1>1. Init => Ledger!Init
  BY FreeAtFirst
<1>2. IInv /\ [Next]_vars => [Ledger!Next]_Ledger!ledger
  <2> SUFFICES ASSUME IInv, [Next]_vars PROVE [Ledger!Next]_Ledger!ledger
    OBVIOUS
  <2>1. UNCHANGED <<stageNow, homeNow, boundNow>> => UNCHANGED Ledger!ledger
    BY DEF Ledger!ledger, stageNow, homeNow, boundNow
  <2>2. UNCHANGED <<rows, lastID>> => UNCHANGED <<stageNow, homeNow, boundNow>>
    BY DEF stageNow, homeNow, boundNow
  <2> QED BY <2>1, <2>2, RegistrySteps, RowStepInLedger, ReserveSubmits, SweepForgets DEF TableStep
<1> QED BY <1>1, <1>2, Invariance, PTL DEF Spec, ImplementsLedger, Ledger!Spec
=============================================================================
