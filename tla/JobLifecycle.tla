---------------------------- MODULE JobLifecycle ----------------------------
(***************************************************************************)
(* The IPP handlers (internal/proxy/service.go), the registry, the         *)
(* printers and the maintenance loop together.                             *)
(*                                                                         *)
(* A handler is split where other goroutines can run: before and after     *)
(* upstream.Do, and between two registry calls.  What it read before the   *)
(* split it keeps in req[c], and it applies the printer's answer to        *)
(* whatever the registry has become by then.  Every reply may be lost      *)
(* after the printer acted on the request, a registry write may fail, and  *)
(* the process may die at any point.                                       *)
(*                                                                         *)
(* The printer is external: it is modelled by what upstream.Do can return. *)
(***************************************************************************)
EXTENDS JobStore

CONSTANTS
  Clients,            \* concurrent HTTP requests
  PayloadSlots,       \* max concurrent payload submissions per queue
  UserOf, NameOf,     \* what the client of the p-th submission calls itself and the job
  Operations,         \* IPP operations the clients use
  FinalStates,        \* final states a printer gives a job by itself
  PrinterReportsURI,  \* whether the printers report job-uri
  PrinterOmitsID,     \* whether a printer may accept a job without naming it
  LateDelivery,       \* whether a request may reach the printer after Do gave up
  StoreMayFail,       \* whether a registry write may fail (persistence timeout)
  MaxCrashes,         \* bound on process deaths
  FollowUpWindow,     \* how long an accepted cancellation is followed up
  MaxTime             \* bound on the clock

ASSUME LifecycleAssumption ==
  /\ PayloadSlots \in Nat \ {0}
  /\ UserOf \in [ProxyID -> Users \cup {""}]
  /\ NameOf \in [ProxyID -> Names \cup {""}]
  /\ FinalStates \subseteq {"canceled", "aborted", "completed"}
  /\ {PrinterReportsURI, PrinterOmitsID, LateDelivery, StoreMayFail} \subseteq BOOLEAN
  /\ MaxCrashes \in Nat /\ MaxTime \in Nat /\ FollowUpWindow \in Nat

VARIABLES
  rows, lastID,  \* the registry
  now,           \* the clock
  req,           \* req[c]: the request that client c has in progress
  slots,         \* slots[q]: payload slots taken (s.payloadSlots)
  printer,       \* printer[q][u]: the printer's own job number u
  late,          \* requests still on their way after Do gave up on them
  maint,         \* the maintenance goroutine
  lost,          \* history: jobs whose handler died or could not record its outcome
  crashes        \* history: process deaths so far

vars == <<rows, lastID, now, req, slots, printer, late, maint, lost, crashes>>
store == <<rows, lastID>>
others == <<now, printer, late, maint, crashes>>

-----------------------------------------------------------------------------
(* The printer's side.                                                     *)

\* A submission reaches the printer at most once, so numbers up to MaxJobs suffice.
UpstreamID == 1..MaxJobs

\* States in which a printer is done with a job.
Finals == FinalStates \cup {"canceled"}

PrinterJob == [state     : {"none", "open", "active", "gone"} \cup Finals,
               origin    : 0..MaxJobs,   \* the proxy job it was submitted for
               documents : 0..2]         \* two stands for "more than one"

NoPrinterJob == [state |-> "none", origin |-> 0, documents |-> 0]

Listed(j) == j.state \notin {"none", "gone"}

\* The job-state attribute as syncObservedJob labels it.
Label(j) == IF j.state \in {"open", "active"} THEN "active" ELSE j.state

\* A printer numbers its jobs in order.
Fresh(q) == {u \in UpstreamID :
  /\ printer[q][u].state = "none"
  /\ \A v \in UpstreamID : v < u => printer[q][v].state # "none"}

Answer == [ok    : BOOLEAN,
           id    : 0..MaxJobs,                               \* job-id
           state : {"", "active"} \cup Finals,          \* job-state
           list  : [UpstreamID -> {"", "active"} \cup Finals]]  \* Get-Jobs

NoList == [u \in UpstreamID |-> ""]
NoAnswer == [ok |-> FALSE, id |-> NoID, state |-> "", list |-> NoList]
Listing(q) == [u \in UpstreamID |-> IF Listed(printer[q][u]) THEN Label(printer[q][u]) ELSE ""]

URI(u) == IF PrinterReportsURI THEN u ELSE NoID

AtMostTwo(n) == IF n > 2 THEN 2 ELSE n

\* The job that a submission becomes.
Submitted(m) ==
  [state     |-> IF m.op = "print" THEN "active" ELSE "open",
   origin    |-> m.job,
   documents |-> IF m.op = "print" THEN 1 ELSE 0]

\* A request served: the job it touched, that job afterwards, and the answer.
Served(u, job, id) ==
  [u |-> u, job |-> job,
   answer |-> [NoAnswer EXCEPT !.ok = TRUE, !.id = id, !.state = Label(job)]]

\* The job-id attribute in the answer to a submission.
NamedAs(u) == {u} \cup IF PrinterOmitsID THEN {NoID} ELSE {}

\* What a printer may do with request m.  Refusing without acting is always possible.
Accepts(m) ==
  LET q == m.queue
      j == IF m.id = NoID THEN NoPrinterJob ELSE printer[q][m.id]
  IN CASE m.op \in {"print", "create"} ->
            UNION {{Served(u, Submitted(m), id) : id \in NamedAs(u)} : u \in Fresh(q)}
       [] m.op = "send" /\ j.state \in {"open", "active"} ->
            {Served(m.id, [j EXCEPT !.state = "active",
                                    !.documents = AtMostTwo(@ + IF m.payload THEN 1 ELSE 0)],
                    m.id)}
       [] m.op \in {"cancel", "cancelMine"} /\ j.state \in {"open", "active"} ->
            {Served(m.id, [j EXCEPT !.state = "canceled"], m.id)}
       [] m.op = "close" /\ j.state \in {"open", "active"} ->
            {Served(m.id, [j EXCEPT !.state = "active"], m.id)}
       [] m.op = "get" /\ Listed(j) -> {Served(m.id, j, m.id)}
       [] OTHER -> {}

-----------------------------------------------------------------------------
(* Requests.                                                               *)

Idle == [pc |-> "idle", op |-> "", queue |-> "", job |-> 0, id |-> NoID,
         payload |-> FALSE, last |-> FALSE, answer |-> NoAnswer, todo |-> {}]

PC == {"idle", "staging", "sent", "answered", "recorder", "unmapped", "document", "doubt", "joining"}

Request == [pc      : PC,
            op      : {"", "print", "create", "send", "get", "cancel", "close",
                       "list", "cancelMine"},
            queue   : Queues \cup {""},
            job     : 0..MaxJobs,       \* proxy job id
            id      : 0..MaxJobs,       \* upstream id read from the row
            payload : BOOLEAN,          \* hasPayload
            last    : BOOLEAN,          \* last-document
            answer  : Answer,
            todo    : SUBSET ((0..MaxJobs) \X UpstreamID)]  \* (proxy id, upstream id) left to do

\* What a pass remembers of a row it selected, and its place in the order.
Snapshots == [job : ProxyID, state : {"uncertain", "mapped", "canceled"}, id : Nat, uri : Nat,
              part : 1..3, due : Nat \cup {NoTime}]

NoSnapshot == [job |-> 0, state |-> "", id |-> NoID, uri |-> NoID, part |-> 0, due |-> NoTime]

Pass == [pc       : {"idle", "list", "query", "apply", "match", "sync"},
         todo     : [Queues -> SUBSET Snapshots],   \* per queue, what is left to do
         queue    : Queues \cup {""},               \* the queue being worked on
         list     : [UpstreamID -> {"", "active"} \cup Finals],   \* its printer's jobs
         job      : Snapshots \cup {NoSnapshot},
         sync     : 0..MaxJobs,                     \* the printer's job it was mapped to
         followed : SUBSET ProxyID]                 \* history: cancellations followed up

MaintIdle == [pc |-> "idle", todo |-> [q \in Queues |-> {}], queue |-> "",
              list |-> NoList, job |-> NoSnapshot, sync |-> 0, followed |-> {}]

TypeOK ==
  /\ rows \in [ProxyID -> Row]
  /\ lastID \in 0..MaxJobs
  /\ now \in 0..MaxTime
  /\ req \in [Clients -> Request]
  /\ slots \in [Queues -> Nat]
  /\ printer \in [Queues -> [UpstreamID -> PrinterJob]]
  /\ late \subseteq Request
  /\ maint \in Pass
  /\ lost \subseteq ProxyID
  /\ crashes \in 0..MaxCrashes

Init ==
  /\ rows = [p \in ProxyID |-> NoRow]
  /\ lastID = 0
  /\ now = 0
  /\ req = [c \in Clients |-> Idle]
  /\ slots = [q \in Queues |-> 0]
  /\ printer = [q \in Queues |-> [u \in UpstreamID |-> NoPrinterJob]]
  /\ late = {}
  /\ maint = MaintIdle
  /\ lost = {}
  /\ crashes = 0

-----------------------------------------------------------------------------
(* Helpers of the handlers.                                                *)

HoldsSlot(r) == r.pc # "idle" /\ r.op \in {"print", "send"}

\* withPayloadSlot's deferred release, on every return path.
Finish(c) ==
  /\ req' = [req EXCEPT ![c] = Idle]
  /\ slots' = IF HoldsSlot(req[c]) THEN [slots EXCEPT ![req[c].queue] = @ - 1] ELSE slots

Goto(c, pc) ==
  /\ req' = [req EXCEPT ![c].pc = pc, ![c].answer = NoAnswer]
  /\ UNCHANGED slots

\* A registry write of the request's own outcome; it may fail.
Stored(p, new) ==
  /\ UNCHANGED lastID
  /\ \/ rows' = new /\ UNCHANGED lost
     \/ StoreMayFail /\ UNCHANGED rows /\ lost' = lost \cup {p}

NothingStored == UNCHANGED <<rows, lastID, lost>>

syncObservedJob(table, q, p, state) ==
  IF state = "" THEN table
  ELSE IF IsTerminalState(state) THEN MarkTerminal(table, q, p, state, now)
  ELSE UpdateObserved(table, q, p, state, now)

-----------------------------------------------------------------------------
(* Print-Job and Create-Job.                                               *)

\* A payload slot is taken first; the body is read and, on a translating route,
\* translated before anything is recorded.
PrintJob(c, q) ==
  /\ "print" \in Operations
  /\ req[c] = Idle
  /\ slots[q] < PayloadSlots
  /\ lastID < MaxJobs
  /\ slots' = [slots EXCEPT ![q] = @ + 1]
  /\ req' = [req EXCEPT ![c] = [Idle EXCEPT !.pc = "staging", !.op = "print", !.queue = q,
                                            !.payload = TRUE, !.last = TRUE]]
  /\ UNCHANGED <<store, lost, others>>

\* The translation fails, or, for Print-Job, the reservation does.
StagingFailed(c) ==
  /\ req[c].pc = "staging"
  /\ Finish(c)
  /\ NothingStored /\ UNCHANGED others

\* Print-Job reserves its job, then both go on to upstream.Do, unless the
\* temporary file of the payload recorder cannot be made (`ready' is false).
Staged(c) ==
  LET r == req[c]
      p == IF r.op = "print" THEN lastID + 1 ELSE r.job
  IN
  /\ r.pc = "staging"
  /\ IF r.op = "print"
     THEN /\ lastID < MaxJobs
          /\ lastID' = p
          /\ rows' = Reserve(rows, p, r.queue, UserOf[p], NameOf[p])
     ELSE UNCHANGED store
  /\ \E ready \in BOOLEAN :
       req' = [req EXCEPT ![c].pc = IF ready THEN "sent" ELSE "recorder", ![c].job = p]
  /\ UNCHANGED <<slots, lost, others>>

CreateJob(c, q) ==
  /\ "create" \in Operations
  /\ req[c] = Idle
  /\ lastID < MaxJobs
  /\ lastID' = lastID + 1
  /\ rows' = Reserve(rows, lastID', q, UserOf[lastID'], NameOf[lastID'])
  /\ req' = [req EXCEPT ![c] = [Idle EXCEPT
               !.pc = "sent", !.op = "create", !.queue = q, !.job = lastID']]
  /\ UNCHANGED <<slots, lost, others>>

\* Mutant: the early return misses the release of the payload slot.
RecorderFailed_KeepsSlot(c) ==
  LET r == req[c] IN
  /\ r.pc = "recorder"
  /\ Stored(r.job, MarkUncertain(rows, r.queue, r.job, now))
  /\ req' = [req EXCEPT ![c] = Idle]
  /\ UNCHANGED <<slots, others>>

\* Print-Job gives the job up, Send-Document leaves it in doubt.
RecorderFailed(c) ==
  LET r == req[c] IN
  /\ r.pc = "recorder"
  /\ Stored(r.job, IF r.op = "print"
                   THEN MarkTerminal(rows, r.queue, r.job, "failed", now)
                   ELSE MarkUncertain(rows, r.queue, r.job, now))
  /\ Finish(c)
  /\ UNCHANGED others

\* Print-Job goes on to record the document; Create-Job is done.
AfterMapping(c) ==
  IF req[c].op = "print" THEN Goto(c, "document") ELSE Finish(c)

SubmissionAnswered(c) ==
  LET r == req[c]
      a == r.answer
      mappable == MarkMappedOK(rows, r.queue, r.job, a.id, URI(a.id))
  IN
  /\ r.pc = "answered" /\ r.op \in {"print", "create"}
  /\ \/ /\ ~a.ok
        /\ Stored(r.job, MarkTerminal(rows, r.queue, r.job, "rejected", now))
        /\ Finish(c)
     \/ /\ a.ok /\ a.id # NoID /\ mappable
        /\ rows' = MarkMapped(rows, r.queue, r.job, a.id, URI(a.id))
        /\ UNCHANGED <<lastID, lost>>
        /\ AfterMapping(c)
     \/ /\ a.ok
        /\ a.id = NoID \/ ~mappable \/ StoreMayFail
        /\ NothingStored
        /\ Goto(c, "unmapped")
  /\ UNCHANGED others

\* Mutant: a job that cannot be mapped is given up.
MappingFailed_GivesUp(c) ==
  LET r == req[c] IN
  /\ r.pc = "unmapped"
  /\ Stored(r.job, MarkTerminal(rows, r.queue, r.job, "failed", now))
  /\ AfterMapping(c)
  /\ UNCHANGED others

\* The printer has the job but its number could not be recorded.
MappingFailed(c) ==
  LET r == req[c] IN
  /\ r.pc = "unmapped"
  /\ Stored(r.job, MarkUncertain(rows, r.queue, r.job, now))
  /\ AfterMapping(c)
  /\ UNCHANGED others

\* UpdatePayloadMetadataWithLastDocument after an accepted document.
RecordDocument(c) ==
  LET r == req[c] IN
  /\ r.pc = "document"
  /\ \/ /\ UpdateDocumentOK(rows, r.queue, r.job)
        /\ rows' = UpdateDocument(rows, r.queue, r.job, r.payload, r.last)
        /\ UNCHANGED <<lastID, lost>>
        /\ Finish(c)
     \/ /\ StoreMayFail \/ ~UpdateDocumentOK(rows, r.queue, r.job)
        /\ NothingStored
        /\ Goto(c, "doubt")
  /\ UNCHANGED others

\* Mutants: a failed exchange is only logged; it is taken for a rejection.
LeaveInDoubt_Silent(c) ==
  /\ req[c].pc = "doubt" /\ req[c].op # "cancelMine"
  /\ NothingStored
  /\ Finish(c)
  /\ UNCHANGED others

LeaveInDoubt_Rejects(c) ==
  LET r == req[c] IN
  /\ r.pc = "doubt" /\ r.op # "cancelMine"
  /\ Stored(r.job, MarkTerminal(rows, r.queue, r.job, "failed", now))
  /\ Finish(c)
  /\ UNCHANGED others

\* upstream.Do failed, or the accepted document could not be recorded.
LeaveInDoubt(c) ==
  LET r == req[c] IN
  /\ r.pc = "doubt" /\ r.op # "cancelMine"
  /\ Stored(r.job, MarkUncertain(rows, r.queue, r.job, now))
  /\ Finish(c)
  /\ UNCHANGED others

-----------------------------------------------------------------------------
(* Send-Document, Get-Job-Attributes, Cancel-Job and Close-Job.            *)

\* The handler reads the row once, here, and never again.
SendDocument(c, q, p) ==
  /\ "send" \in Operations
  /\ req[c] = Idle
  /\ slots[q] < PayloadSlots
  /\ Found(rows, q, p)
  /\ rows[p].upstreamID # NoID
  /\ rows[p].state \notin {"reserved", "uncertain"} /\ ~IsTerminalState(rows[p].state)
  /\ \E payload, last \in BOOLEAN :
       /\ payload \/ last
       /\ ~rows[p].lastDocument
       /\ ~(rows[p].documents > 0 /\ payload)
       /\ req' = [req EXCEPT ![c] = [Idle EXCEPT
                    !.pc = "staging", !.op = "send", !.queue = q, !.job = p, !.id = rows[p].upstreamID,
                    !.payload = payload, !.last = last]]
  /\ slots' = [slots EXCEPT ![q] = @ + 1]
  /\ UNCHANGED <<store, lost, others>>

SendDocumentAnswered(c) ==
  LET r == req[c] IN
  /\ r.pc = "answered" /\ r.op = "send"
  /\ \/ /\ ~r.answer.ok
        /\ Stored(r.job, UpdateState(rows, r.queue, r.job, "failed", now))
        /\ Finish(c)
     \/ /\ r.answer.ok
        /\ NothingStored
        /\ Goto(c, "document")
  /\ UNCHANGED others

MappedJobOperation(c, q, p, op) ==
  /\ op \in Operations
  /\ req[c] = Idle
  /\ Found(rows, q, p)
  /\ rows[p].upstreamID # NoID
  /\ rows[p].state \notin {"reserved", "uncertain"}
  /\ IsTerminalState(rows[p].state) => op = "get"
  /\ req' = [req EXCEPT ![c] = [Idle EXCEPT
               !.pc = "sent", !.op = op, !.queue = q, !.job = p, !.id = rows[p].upstreamID]]
  /\ UNCHANGED <<store, slots, lost, others>>

\* Mutant: the cancellation is recorded without looking at the printer's status.
MappedJobOperationAnswered_AnyStatus(c) ==
  LET r == req[c] IN
  /\ r.pc = "answered" /\ r.op \in {"get", "cancel", "close"}
  /\ IF r.op = "cancel"
     THEN Stored(r.job, MarkTerminal(rows, r.queue, r.job, "canceled", now))
     ELSE NothingStored
  /\ Finish(c)
  /\ UNCHANGED others

MappedJobOperationAnswered(c) ==
  LET r == req[c] IN
  /\ r.pc = "answered" /\ r.op \in {"get", "cancel", "close"}
  /\ IF r.answer.ok
     THEN Stored(r.job, IF r.op = "cancel"
                        THEN MarkTerminal(rows, r.queue, r.job, "canceled", now)
                        ELSE syncObservedJob(rows, r.queue, r.job, r.answer.state))
     ELSE NothingStored
  /\ Finish(c)
  /\ UNCHANGED others
-----------------------------------------------------------------------------
(* Get-Jobs: the printer's list joined with the registry, job by job.      *)

GetJobs(c, q) ==
  /\ "list" \in Operations
  /\ req[c] = Idle
  /\ req' = [req EXCEPT ![c] = [Idle EXCEPT !.pc = "sent", !.op = "list", !.queue = q]]
  /\ UNCHANGED <<store, slots, lost, others>>

GetJobsAnswered(c) ==
  LET r == req[c] IN
  /\ r.pc = "answered" /\ r.op = "list"
  /\ req' = [req EXCEPT ![c].pc = "joining",
                        ![c].todo = {x \in {0} \X UpstreamID : r.answer.list[x[2]] # ""}]
  /\ UNCHANGED <<store, slots, lost, others>>

\* filterJob: the row is found by (queue, job-id) alone.  `kept' is false for a
\* job that my-jobs or limit leaves out.
JoinJob(c, u) ==
  LET r == req[c]
      hits == {p \in ProxyID : Found(rows, r.queue, p) /\ rows[p].upstreamID = u}
  IN
  /\ r.pc = "joining" /\ <<0, u>> \in r.todo
  /\ \E kept \in BOOLEAN :
       IF kept /\ hits # {}
       THEN LET p == CHOOSE p \in hits : TRUE
            IN Stored(p, syncObservedJob(rows, r.queue, p, r.answer.list[u]))
       ELSE NothingStored
  /\ req' = [req EXCEPT ![c].todo = @ \ {<<0, u>>}]
  /\ UNCHANGED <<slots, others>>

GetJobsDone(c) ==
  /\ req[c].pc = "joining" /\ req[c].todo = {}
  /\ Finish(c)
  /\ NothingStored /\ UNCHANGED others

-----------------------------------------------------------------------------
(* Cancel-My-Jobs: one upstream Cancel-Job per listed row, in job order.   *)

\* The request for the first of the remaining jobs, or the end of the loop.
CancelNext(r, pairs) ==
  IF pairs = {} THEN {Idle}
  ELSE {[r EXCEPT !.pc = "sent", !.answer = NoAnswer, !.todo = pairs \ {x},
                  !.job = x[1], !.id = x[2]] :
          x \in {y \in pairs : \A z \in pairs : y[1] <= z[1]}}

CancelMyJobs(c, q, user) ==
  LET mine == {p \in ListOpenJobs(rows, q, user) : rows[p].upstreamID # NoID}
  IN
  /\ "cancelMine" \in Operations
  /\ user # "" /\ req[c] = Idle /\ mine # {}
  /\ \E next \in CancelNext([Idle EXCEPT !.op = "cancelMine", !.queue = q],
                             {<<p, rows[p].upstreamID>> : p \in mine}) :
       req' = [req EXCEPT ![c] = next]
  /\ UNCHANGED <<store, slots, lost, others>>

CancelMyJobsAnswered(c) ==
  LET r == req[c] IN
  /\ r.pc \in {"answered", "doubt"} /\ r.op = "cancelMine"
  /\ IF r.pc = "doubt"
     THEN Stored(r.job, MarkUncertain(rows, r.queue, r.job, now))
     ELSE IF r.answer.ok
     THEN Stored(r.job, MarkTerminal(rows, r.queue, r.job, "canceled", now))
     ELSE NothingStored
  /\ \E next \in CancelNext(r, r.todo) : req' = [req EXCEPT ![c] = next]
  /\ UNCHANGED <<slots, others>>

-----------------------------------------------------------------------------
(* The network and the printers (external).                                *)

PrinterAccepts(c) ==
  LET r == req[c] IN
  /\ r.pc = "sent"
  /\ IF r.op = "list"
     THEN /\ req' = [req EXCEPT ![c].pc = "answered",
                                ![c].answer = [NoAnswer EXCEPT !.ok = TRUE,
                                                               !.list = Listing(r.queue)]]
          /\ UNCHANGED printer
     ELSE \E e \in Accepts(r) :
          /\ printer' = [printer EXCEPT ![r.queue][e.u] = e.job]
          /\ req' = [req EXCEPT ![c].pc = "answered", ![c].answer = e.answer]
  /\ UNCHANGED <<store, now, slots, late, maint, lost, crashes>>

PrinterRefuses(c) ==
  /\ req[c].pc = "sent" /\ req[c].op # "list"
  /\ req' = [req EXCEPT ![c].pc = "answered", ![c].answer = NoAnswer]
  /\ UNCHANGED <<store, slots, lost, others>>

\* upstream.Do returns an error: the request was not delivered, is delivered
\* later, or its answer is lost or unusable.  A failed read changes nothing.
DoFails(c) ==
  LET r == req[c] IN
  /\ r.pc \in {"sent", "answered"}
  /\ IF r.op \in {"get", "list"} THEN Finish(c) ELSE Goto(c, "doubt")
  /\ \/ UNCHANGED late
     \/ /\ LateDelivery /\ r.pc = "sent" /\ r.op \notin {"get", "list"}
        /\ late' = late \cup {[r EXCEPT !.todo = {}]}
  /\ NothingStored
  /\ UNCHANGED <<now, printer, maint, crashes>>

PrinterActsLate(m) ==
  /\ m \in late
  /\ late' = late \ {m}
  /\ \/ UNCHANGED printer
     \/ \E e \in Accepts(m) : printer' = [printer EXCEPT ![m.queue][e.u] = e.job]
  /\ UNCHANGED <<store, now, req, slots, maint, lost, crashes>>

\* The printer finishes or gives up a job by itself, and later forgets it.
PrinterFinishes(q, u, final) ==
  /\ printer[q][u].state \in {"open", "active"}
  /\ printer' = [printer EXCEPT ![q][u].state = final]
  /\ UNCHANGED <<store, now, req, slots, late, maint, lost, crashes>>

PrinterForgets(q, u) ==
  /\ printer[q][u].state \in Finals
  /\ printer' = [printer EXCEPT ![q][u].state = "gone"]
  /\ UNCHANGED <<store, now, req, slots, late, maint, lost, crashes>>

-----------------------------------------------------------------------------
(* The maintenance goroutine (runMaintenance, reconcileUncertainJobs).     *)

\* The rows of S that belong to queue q, as they are now.
Select(S, q, part) ==
  {[job |-> p, state |-> rows[p].state, id |-> rows[p].upstreamID, uri |-> rows[p].upstreamURI,
    part |-> part, due |-> IF part = 1 THEN rows[p].nextAt ELSE NoTime] :
      p \in {o \in S : rows[o].queue = q}}

\* A page is worked through part by part, each in the order of its query.
Before(j, o) == \/ j.part < o.part
                \/ j.part = o.part /\ j.due < o.due
                \/ j.part = o.part /\ j.due = o.due /\ j.job < o.job

\* A registry write of the maintenance goroutine: logged or ignored when it fails.
MayFail(new) == {new} \cup IF StoreMayFail THEN {rows} ELSE {}

\* CleanupExpired, then the uncertain rows that are due, oldest first.  The sweep
\* touches terminal rows only, so what runs in between cannot tell the difference.
MaintenanceStarts ==
  /\ maint.pc = "idle"
  /\ rows' \in MayFail(CleanupExpired(rows, now))
  /\ maint' = [maint EXCEPT !.pc = "list",
                 !.todo = [q \in Queues |-> Select(ReconciliationCandidates(rows, now), q, 1)]]
  /\ UNCHANGED <<lastID, now, req, slots, printer, late, lost, crashes>>

\* Then the mapped rows and the recent cancellations, in creation order.
MaintenanceLists ==
  LET canceled == {p \in ListJobsInState(rows, "canceled") :
                     rows[p].terminalAt > now - FollowUpWindow}
      more(q) == Select(ListJobsInState(rows, "mapped"), q, 2) \cup Select(canceled, q, 3)
  IN
  /\ maint.pc = "list"
  /\ \/ maint' = [maint EXCEPT !.pc = "query", !.followed = canceled,
                    !.todo = [q \in Queues |-> @[q] \cup more(q)]]
     \/ StoreMayFail /\ maint' = MaintIdle
  /\ UNCHANGED <<store, now, req, slots, printer, late, lost, crashes>>

\* One Get-Jobs per queue with work; a queue that does not answer is skipped.
MaintenanceQueries(q) ==
  /\ maint.pc = "query" /\ maint.todo[q] # {}
  /\ \/ maint' = [maint EXCEPT !.pc = "apply", !.queue = q, !.list = Listing(q)]
     \/ maint' = [maint EXCEPT !.todo[q] = {}]
  /\ UNCHANGED <<store, now, req, slots, printer, late, lost, crashes>>

\* Mutant: the requesting user alone identifies a job.
sameReconciledJob_AnyName(j, q, u) ==
  LET origin == printer[q][u].origin IN
  /\ j.uri # NoID => URI(u) = j.uri
  /\ UserOf[j.job] # "" => UserOf[origin] = UserOf[j.job]

\* Printers report the name and user of the submission they were given.
sameReconciledJob(j, q, u) ==
  LET origin == printer[q][u].origin IN
  /\ j.uri # NoID => URI(u) = j.uri
  /\ NameOf[j.job] # "" => NameOf[origin] = NameOf[j.job]
  /\ UserOf[j.job] # "" => UserOf[origin] = UserOf[j.job]
  /\ j.id # NoID \/ j.uri # NoID \/ NameOf[j.job] # "" \/ UserOf[j.job] # ""

\* The printer's job for the snapshot j: the one of its number, or, for a row
\* without one, the only one of its identity.
Match(j, q) ==
  LET listed == {u \in UpstreamID : maint.list[u] # "" /\ sameReconciledJob(j, q, u)}
  IN IF j.id # NoID THEN listed \cap {j.id}
     ELSE IF Cardinality(listed) = 1 THEN listed ELSE {}

\* The attempt of an uncertain row is recorded before anything else is done with it.
MaintenanceAttempts ==
  LET q == maint.queue IN
  /\ maint.pc = "apply"
  /\ \E j \in maint.todo[q] :
       /\ \A o \in maint.todo[q] \ {j} : Before(j, o)
       /\ rows' \in IF j.state = "uncertain"
                    THEN MayFail(MarkReconcileAttempt(rows, j.job, now)) ELSE {rows}
       /\ maint' = [maint EXCEPT !.pc = "match", !.job = j, !.todo[q] = @ \ {j}]
  /\ UNCHANGED <<lastID, now, req, slots, printer, late, lost, crashes>>

MaintenanceMatches ==
  LET q == maint.queue
      j == maint.job
      uri(u) == IF j.id # NoID THEN j.uri ELSE URI(u)
      mappable == {u \in Match(j, q) : /\ ~IsTerminalState(j.state)
                                       /\ MarkMappedOK(rows, q, j.job, u, uri(u))}
  IN
  /\ maint.pc = "match"
  /\ \/ \E u \in mappable :
          /\ rows' = MarkMapped(rows, q, j.job, u, uri(u))
          /\ maint' = [maint EXCEPT !.pc = "sync", !.sync = u]
     \/ /\ mappable = {} \/ StoreMayFail
        /\ UNCHANGED rows
        /\ maint' = [maint EXCEPT !.pc = "apply", !.job = NoSnapshot]
  /\ UNCHANGED <<lastID, now, req, slots, printer, late, lost, crashes>>

MaintenanceSyncs ==
  /\ maint.pc = "sync"
  /\ rows' \in MayFail(syncObservedJob(rows, maint.queue, maint.job.job,
                                       maint.list[maint.sync]))
  /\ maint' = [maint EXCEPT !.pc = "apply", !.sync = 0, !.job = NoSnapshot]
  /\ UNCHANGED <<lastID, now, req, slots, printer, late, lost, crashes>>

MaintenanceAdvances ==
  /\ \/ /\ maint.pc = "apply" /\ maint.todo[maint.queue] = {}
        /\ maint' = [maint EXCEPT !.pc = "query", !.queue = "", !.list = NoList]
     \/ /\ maint.pc = "query" /\ \A q \in Queues : maint.todo[q] = {}
        /\ maint' = MaintIdle
  /\ UNCHANGED <<store, now, req, slots, printer, late, lost, crashes>>

-----------------------------------------------------------------------------
Tick ==
  /\ now < MaxTime
  /\ now' = now + 1
  /\ UNCHANGED <<store, req, slots, printer, late, maint, lost, crashes>>

\* The process dies and restarts: only the registry and the printers survive.
Crash ==
  LET busy == {c \in Clients : req[c].pc # "idle"} IN
  /\ crashes < MaxCrashes
  /\ crashes' = crashes + 1
  /\ lost' = lost \cup ({req[c].job : c \in busy} \ {0})
  /\ req' = [c \in Clients |-> Idle]
  /\ slots' = [q \in Queues |-> 0]
  /\ maint' = MaintIdle
  /\ UNCHANGED <<store, now, printer, late>>

HandlerStep(c) ==
  \/ StagingFailed(c) \/ Staged(c)
  \/ RecorderFailed(c) \/ SubmissionAnswered(c) \/ MappingFailed(c)
  \/ RecordDocument(c) \/ LeaveInDoubt(c) \/ SendDocumentAnswered(c)
  \/ MappedJobOperationAnswered(c) \/ GetJobsAnswered(c)
  \/ (\E u \in UpstreamID : JoinJob(c, u)) \/ GetJobsDone(c)
  \/ CancelMyJobsAnswered(c)

ClientStarts(c) ==
  \E q \in Queues :
    \/ PrintJob(c, q) \/ CreateJob(c, q) \/ GetJobs(c, q)
    \/ \E p \in ProxyID :
         \/ SendDocument(c, q, p)
         \/ \E op \in {"get", "cancel", "close"} : MappedJobOperation(c, q, p, op)
    \/ \E user \in Users : CancelMyJobs(c, q, user)

PrinterStep ==
  \/ \E c \in Clients : PrinterAccepts(c) \/ PrinterRefuses(c)
  \/ \E m \in late : PrinterActsLate(m)
  \/ \E q \in Queues, u \in UpstreamID :
       \/ \E final \in FinalStates : PrinterFinishes(q, u, final)
       \/ PrinterForgets(q, u)

MaintenanceStep ==
  \/ MaintenanceStarts \/ MaintenanceLists \/ (\E q \in Queues : MaintenanceQueries(q))
  \/ MaintenanceAttempts \/ MaintenanceMatches \/ MaintenanceSyncs \/ MaintenanceAdvances

Next ==
  \/ \E c \in Clients : ClientStarts(c) \/ HandlerStep(c) \/ DoFails(c)
  \/ PrinterStep
  \/ MaintenanceStep
  \/ Tick
  \/ Crash

Spec == Init /\ [][Next]_vars

\* A handler step is that of a running goroutine, and upstream.Do returns within
\* its timeout.  Only the client ends the wait for its body: the server sets a
\* timeout for the header and none for what follows it.
Fairness ==
  \A c \in Clients : /\ WF_vars(req[c].pc # "staging" /\ HandlerStep(c))
                     /\ WF_vars(DoFails(c))

FairSpec == Spec /\ Fairness

-----------------------------------------------------------------------------
(* Correctness properties.                                                 *)

\* Submission o bears every identity that submission p gives, and p gives one: as
\* much as sameReconciledJob can tell about two submissions.
Alike(p, o) ==
  \/ p = o
  \/ /\ NameOf[p] # "" => NameOf[o] = NameOf[p]
     /\ UserOf[p] # "" => UserOf[o] = UserOf[p]
     /\ NameOf[p] # "" \/ UserOf[p] # ""

\* A client-visible job is attached to a printer job of its own queue that was
\* submitted for it or that its name and its user do not tell from it, whether a
\* handler or the reconciliation attached it, whatever submissions are in flight
\* or late.  More does not hold: the only job of a row's identity at the printer
\* may be another row's (store.go: "attaching a client-visible Job to the wrong
\* upstream Job").
MappedToAlike ==
  \A p \in ProxyID : rows[p].upstreamID # NoID =>
    Alike(p, printer[rows[p].queue][rows[p].upstreamID].origin)

\* A row is "reserved" only while the handler that reserved it is running, or
\* that handler died or could not write the outcome: every way through
\* handlePrintJob and handleCreateJob leaves the reservation behind.
ReservedIsOwned ==
  \A p \in ProxyID : rows[p].state = "reserved" =>
    p \in lost \/ \E c \in Clients : req[c].pc # "idle" /\ req[c].job = p

\* A submission the printer accepted is never recorded as a rejected one
\* (MarkTerminal with StateFailed), whatever became of the reply.
AcceptedIsNotRejected ==
  \A q \in Queues, u \in UpstreamID :
    LET p == printer[q][u].origin IN
    p # 0 => ~(rows[p].state = "terminal" /\ rows[p].observed \in {"failed", "rejected"})

\* The registry reports a job canceled, aborted or completed only when the
\* printer is done with it, although every report is applied later than it was made.
FinishedAtPrinter ==
  \A p \in ProxyID : rows[p].observed \in Finals =>
    /\ rows[p].upstreamID # NoID
    /\ printer[rows[p].queue][rows[p].upstreamID].state \in Finals \cup {"gone"}

\* Printers number their jobs independently, and the registry keeps the numbers
\* apart by queue.  When registry and printer do their part, an accepted submission
\* fails to be mapped in one case only: the reconciliation has meanwhile attached
\* its printer job to another row of the same queue that does not tell itself from it.
CollisionsAreAlike ==
  [][\A c \in Clients :
       /\ req[c].pc = "answered" /\ req'[c].pc = "unmapped"
       /\ ~StoreMayFail /\ ~PrinterOmitsID
       => \E o \in ProxyID \ {req[c].job} :
            /\ Found(rows, req[c].queue, o) /\ rows[o].upstreamID = req[c].answer.id
            /\ Alike(o, req[c].job)]_vars

\* withPayloadSlot: the slots taken are those of the running payload handlers,
\* and never more than configured.
SlotsMatchHandlers ==
  \A q \in Queues :
    /\ slots[q] = Cardinality({c \in Clients : HoldsSlot(req[c]) /\ req[c].queue = q})
    /\ slots[q] <= PayloadSlots

\* A printer job never receives more than one document (README: "A second
\* document is rejected with client-error-multiple-jobs-not-supported").
OneDocument ==
  \A q \in Queues, u \in UpstreamID : printer[q][u].documents <= 1

\* A maintenance pass follows up every cancellation accepted within the window
\* (service.go: "Give recent cancellations two normal maintenance intervals").
CancellationsFollowedUp ==
  [][maint.pc = "list" /\ maint'.pc = "query" =>
       {p \in ProxyID : /\ IsTerminalState(rows[p].state)
                        /\ rows[p].observed = "canceled"
                        /\ rows[p].terminalAt > now - FollowUpWindow}
         \subseteq maint'.followed]_vars

\* A queue that answers "busy" will take documents again, or all of its slots
\* wait for clients that do not deliver: whatever fails, no path through a payload
\* handler keeps its slot once the body is there.
BusyEnds ==
  \A q \in Queues :
    slots[q] = PayloadSlots ~>
      \/ slots[q] < PayloadSlots
      \/ slots[q] = Cardinality({c \in Clients : req[c].queue = q /\ req[c].pc = "staging"})

-----------------------------------------------------------------------------
(* The whole proxy implements the ledger.                                  *)

StageOf(row, allocated) ==
  CASE row.state \in {"reserved", "mapped", "uncertain"} -> row.state
    [] IsTerminalState(row.state) -> "terminal"
    [] OTHER -> IF allocated THEN "forgotten" ELSE "free"

Ledger == INSTANCE JobLedger WITH
  Job   <- ProxyID,
  Queue <- Queues,
  PrinterJob <- UpstreamID,
  stage <- [p \in ProxyID |-> StageOf(rows[p], p <= lastID)],
  home  <- [p \in ProxyID |-> rows[p].queue],
  bound <- [p \in ProxyID |-> rows[p].upstreamID]

\* However handlers, lost replies, maintenance and restarts interleave, every
\* job lives the life JobLedger describes.
ImplementsLedger == Ledger!Spec
=============================================================================
