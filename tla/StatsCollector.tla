--------------------------- MODULE StatsCollector ---------------------------
(***************************************************************************)
(* The statistics collector (internal/stats/collector.go, maintenance.go): *)
(* request handlers offer records to a bounded queue and never wait; one   *)
(* writer collects them into batches and commits each batch in a           *)
(* transaction, trying three times; Close stops the writer; the            *)
(* maintenance loop removes what is past its retention.                    *)
(*                                                                         *)
(* Time is today * DayLength + made: every record is made at its own       *)
(* instant, in the order of the timestamps it carries.                     *)
(***************************************************************************)
EXTENDS JobAccounting, Sequences

CONSTANTS Senders,          \* goroutines that record
          JobIDs,           \* jobs of the registry
          Reports,          \* what a snapshot of a job may say
          QueueSize, BatchSize,
          DetailRetention, RollupRetention,   \* in instants; 0 is forever
          Attempts,         \* tries of a batch (three in the code)
          CPU,              \* whether processor readings are collected
          MaxRecords,       \* bound on the records ever made
          LastDay,          \* bound on the days
          MaxFaults,        \* bound on failures of the database and the process
          MaxRestarts       \* bound on deaths of the process

ASSUME SizesAssumption ==
  /\ QueueSize \in Nat \ {0} /\ Attempts \in Nat \ {0} /\ BatchSize \in 1..QueueSize
  /\ MaxRecords \in Nat /\ LastDay \in Nat
  /\ MaxFaults \in Nat /\ MaxRestarts \in Nat
  /\ DetailRetention \in Nat /\ RollupRetention \in Nat

VARIABLES
  made, today,     \* the clock
  registered,      \* jobs whose first snapshot has been made
  sender,          \* what each sender is doing
  closed,          \* closed and stop: both change under acceptMu
  queue, pending, batch,
  writer,          \* where writerLoop is
  mode,            \* run, drain (after stop) or final (the last flush)
  attempt,
  health,          \* dropped and errors, as the process counts them
  savedHealth,
  db,              \* the statistics database
  healthRow,       \* the health counters in it
  faults, restarts,
  written,         \* records that some committed batch contained
  dropped,         \* records that were counted as dropped
  refused,         \* those of them that came after Close
  lost,            \* records that a dead process took along
  ledger,          \* last merged state of every job that was ever counted
  reported         \* the final health row was written

vars == <<made, today, registered, sender, closed, queue, pending, batch,
          writer, mode, attempt, health, savedHealth, db, healthRow, faults,
          restarts, written, dropped, refused, lost, ledger, reported>>

clock     == <<made, today, registered>>
tables    == <<db, healthRow>>
ghosts    == <<written, dropped, refused, lost, ledger, reported>>
writerVars == <<pending, batch, writer, mode, attempt, savedHealth>>

DayLength == MaxRecords + 1
Days == 0..LastDay
Now == today * DayLength + made
dayString(t) == t \div DayLength

\* Detail outlives the retries of the batch that wrote it: a row that Cleanup
\* removes under a retry would be counted again. Retries take seconds; here the
\* time in which nothing stays on its way is the day. (The default is 90 days;
\* the configuration only refuses a negative retention.)
ASSUME RetentionAssumption == DetailRetention = 0 \/ DetailRetention >= DayLength

\* The registry holds finitely many jobs, and a snapshot of one says what
\* statsSnapshot and the printer's answer can say.
ASSUME JobsAssumption ==
  /\ IsFiniteSet(JobIDs)
  /\ Reports \subseteq [state : {"open", "failed"},
                        observed : {Unknown, "processing"} \cup TerminalOutcomes,
                        accepted : BOOLEAN, cancelAccepted : BOOLEAN,
                        documents : Nat, sheets : Int \cup {Unknown},
                        route : SettingKeys]

Idle == [pc |-> "idle"]

IDs(s) == {s[i].id : i \in DOMAIN s}
InFlight == IDs(queue) \cup IDs(pending) \cup IDs(batch)
              \cup {sender[s].rec.id : s \in {t \in Senders : sender[t] # Idle}}

-----------------------------------------------------------------------------
(* The database.                                                            *)

EmptyDB ==
  [actions |-> {}, actionCount |-> [d \in Days |-> 0],
   checkpoints |-> [j \in JobIDs |-> NoJob], jobs |-> [j \in JobIDs |-> NoJob],
   rollups |-> [d \in Days |-> EmptyRollup],
   settings |-> [d \in Days |-> [k \in SettingKeys |-> 0]],
   cpuCursor |-> 0, cpuDaily |-> [d \in Days |-> 0]]

NoHealth == [dropped |-> 0, errors |-> 0]

\* A plain INSERT: the totals grow whether or not the row is there.
persistAction_Plain(d, a) ==
  [d EXCEPT !.actions = @ \cup {a.at},
            !.actionCount[dayString(a.at)] = @ + 1]

\* INSERT OR IGNORE: an action that is already there (its instant stands for
\* its UUID) changes no total.
persistAction(d, a) ==
  IF a.at \in d.actions THEN d
  ELSE [d EXCEPT !.actions = @ \cup {a.at},
                 !.actionCount[dayString(a.at)] = @ + 1]

\* The processor time used since the last reading goes to the day of this
\* one; a reading that is not later than the last one is ignored.
persistCPU(d, at) ==
  IF ~CPU \/ at <= d.cpuCursor THEN d
  ELSE [d EXCEPT !.cpuDaily[dayString(at)] = @ + (at - d.cpuCursor),
                 !.cpuCursor = at]

cutoffDay == dayString(Now - RollupRetention)

\* Days whose totals Cleanup keeps, and days whose totals persistJob still
\* changes: the two tests have to agree.
KeptDay(day) == ~(RollupRetention > 0 /\ day < cutoffDay)

retainRollup_Always(day) == TRUE

retainRollup(day) == RollupRetention = 0 \/ day >= cutoffDay

persist(d, r) ==
  IF r.kind = "action"
  THEN persistCPU(persistAction(d, r), r.at)
  ELSE persistJob(d, r.job, r.register, r.snapshot,
                  dayString(r.snapshot.created),
                  retainRollup(dayString(r.snapshot.created)))

\* The records of a batch, one after the other.
persistAll(d, records) ==
  LET after[n \in 0..Len(records)] ==
        IF n = 0 THEN d ELSE persist(after[n - 1], records[n])
  IN  after[Len(records)]

\* One transaction: every record of the batch and the health counters.
writeBatch == /\ db' = persistAll(db, batch)
              /\ healthRow' = health

-----------------------------------------------------------------------------
Init ==
  /\ made = 0 /\ today = 0 /\ registered = [j \in JobIDs |-> Unknown]
  /\ sender = [s \in Senders |-> Idle]
  /\ closed = FALSE
  /\ queue = <<>> /\ pending = <<>> /\ batch = <<>>
  /\ writer = "select" /\ mode = "run" /\ attempt = 0
  /\ health = NoHealth /\ savedHealth = NoHealth
  /\ db = EmptyDB /\ healthRow = NoHealth
  /\ faults = 0 /\ restarts = 0
  /\ written = {} /\ dropped = {} /\ refused = {} /\ lost = {}
  /\ ledger = [j \in JobIDs |-> NoJob]
  /\ reported = FALSE

-----------------------------------------------------------------------------
(* Senders.                                                                 *)

\* statsSnapshot, statsJob and applyStatsObservation: the row of the job and
\* the printer's answer r, as they are now.
statsJob(j, r) ==
  LET created == IF registered[j] = Unknown THEN Now + 1 ELSE registered[j]
      ended   == r.observed \in {"completed", "canceled", "aborted"}
                   \/ r.state = "failed"
  IN  [created |-> created, updated |-> Now + 1, state |-> r.state,
       observed |-> r.observed, accepted |-> r.accepted,
       cancelAccepted |-> r.cancelAccepted,
       terminalAt |-> IF ended THEN Now + 1 ELSE Unknown,
       documents |-> r.documents, sheets |-> r.sheets, route |-> r.route]

\* A record is made and enqueue read-locks acceptMu. A collector that turns out
\* to be closed drops it; one that is not stays open until the lock is given
\* back. (A Close between the making and the lock is a Close before both.)
Offer(s, rec) ==
  /\ sender[s] = Idle
  /\ made < MaxRecords
  /\ made' = made + 1
  /\ IF closed
     THEN /\ health' = [health EXCEPT !.dropped = @ + 1]
          /\ dropped' = dropped \cup {rec.id}
          /\ refused' = refused \cup {rec.id}
          /\ UNCHANGED sender
     ELSE /\ sender' = [sender EXCEPT ![s] = [pc |-> "locked", rec |-> rec]]
          /\ UNCHANGED <<health, dropped, refused>>
  /\ UNCHANGED <<today, closed, queue, writerVars, tables, faults, restarts, written,
                 lost, ledger, reported>>

RecordAction(s) ==
  /\ Offer(s, [kind |-> "action", id |-> made + 1, at |-> Now + 1])
  /\ UNCHANGED registered

\* The first snapshot of a job, taken of a newly reserved row, registers it;
\* every later one only updates it.
ObserveJob(s, j, r) ==
  LET snapshot == statsJob(j, r)
  IN  /\ registered[j] = Unknown => r.state = "open" /\ r.observed = Unknown
      /\ Offer(s, [kind |-> "job", id |-> made + 1, job |-> j,
                   register |-> registered[j] = Unknown, snapshot |-> snapshot])
      /\ registered' = [registered EXCEPT ![j] = snapshot.created]

\* The record enters the queue or, when that is full, is dropped.
Send(s) ==
  /\ sender[s].pc = "locked"
  /\ sender' = [sender EXCEPT ![s] = Idle]
  /\ IF Len(queue) < QueueSize
     THEN /\ queue' = Append(queue, sender[s].rec)
          /\ UNCHANGED <<health, dropped>>
     ELSE /\ health' = [health EXCEPT !.dropped = @ + 1]
          /\ dropped' = dropped \cup {sender[s].rec.id}
          /\ UNCHANGED queue
  /\ UNCHANGED <<clock, closed, writerVars, tables, faults, restarts, written,
                 refused, lost, ledger, reported>>

-----------------------------------------------------------------------------
(* The writer.                                                              *)

\* flush: hands the records p over to writeBatchWithRetry, unless there are
\* none and the health counters are those last saved; then the loop goes on in
\* mode m, which after the final flush means finishRun.
flush(p, m) ==
  /\ mode' = m
  /\ attempt' = 0
  /\ IF p = <<>> /\ health = savedHealth
     THEN /\ pending' = <<>> /\ batch' = <<>>
          /\ writer' = IF m = "final" THEN "finish" ELSE "select"
     ELSE /\ pending' = <<>> /\ batch' = p
          /\ writer' = "writing"

Receive ==
  /\ writer = "select" /\ mode \in {"run", "drain"}
  /\ queue # <<>>
  /\ queue' = Tail(queue)
  /\ LET p == Append(pending, Head(queue))
     IN  IF Len(p) >= BatchSize THEN flush(p, mode)
         ELSE pending' = p /\ UNCHANGED <<batch, writer, mode, attempt>>
  /\ UNCHANGED <<clock, sender, closed, health, savedHealth, tables, faults, restarts,
                 ghosts>>

\* The ticker only matters to a loop that would otherwise sit on its records.
Tick_OnlyFull ==
  /\ writer = "select" /\ mode = "run"
  /\ Len(pending) >= BatchSize
  /\ flush(pending, "run")
  /\ UNCHANGED <<clock, sender, closed, queue, health, savedHealth, tables, faults,
                 restarts, ghosts>>

Tick ==
  /\ writer = "select" /\ mode = "run"
  /\ pending # <<>> \/ health # savedHealth
  /\ flush(pending, "run")
  /\ UNCHANGED <<clock, sender, closed, queue, health, savedHealth, tables, faults,
                 restarts, ghosts>>

SeeStop ==
  /\ writer = "select" /\ mode = "run" /\ closed
  /\ mode' = "drain"
  /\ UNCHANGED <<clock, sender, closed, queue, pending, batch, writer, attempt,
                 health, savedHealth, tables, faults, restarts, ghosts>>

DrainEnds ==
  /\ writer = "select" /\ mode = "drain" /\ queue = <<>>
  /\ flush(pending, "final")
  /\ UNCHANGED <<clock, sender, closed, queue, health, savedHealth, tables, faults,
                 restarts, ghosts>>

\* The ledger follows the checkpoints that a committed batch wrote.
Committed ==
  /\ writeBatch
  /\ written' = written \cup IDs(batch)
  /\ ledger' = [j \in JobIDs |-> IF db'.checkpoints[j] # NoJob
                                 THEN db'.checkpoints[j] ELSE ledger[j]]

BatchCommitted ==
  /\ writer = "writing"
  /\ Committed
  /\ writer' = "written"
  /\ UNCHANGED <<clock, sender, closed, queue, pending, batch, mode, attempt,
                 health, savedHealth, faults, restarts, dropped, refused, lost,
                 reported>>

\* The attempt fails; the transaction was rolled back, or the commit took
\* effect although it reported an error. After the third one the records are
\* counted as dropped.
BatchFails ==
  /\ writer = "writing"
  /\ faults < MaxFaults /\ faults' = faults + 1
  /\ Committed \/ UNCHANGED <<tables, written, ledger>>
  /\ IF attempt + 1 < Attempts
     THEN /\ attempt' = attempt + 1
          /\ health' = [health EXCEPT !.errors = @ + 1]
          /\ UNCHANGED <<batch, writer, dropped>>
     ELSE /\ health' = [dropped |-> health.dropped + Len(batch),
                        errors |-> health.errors + 1]
          /\ dropped' = dropped \cup IDs(batch)
          /\ batch' = <<>>
          /\ writer' = IF mode = "final" THEN "finish" ELSE "select"
          /\ attempt' = 0
  /\ UNCHANGED <<clock, sender, closed, queue, pending, mode, savedHealth,
                 restarts, refused, lost, reported>>

\* Back from a successful write: savedHealth is read anew, and may already
\* count a drop that the transaction did not see.
BatchDone ==
  /\ writer = "written"
  /\ savedHealth' = health
  /\ batch' = <<>>
  /\ writer' = IF mode = "final" THEN "finish" ELSE "select"
  /\ UNCHANGED <<clock, sender, closed, queue, pending, mode, attempt, health, tables,
                 faults, restarts, ghosts>>

\* The end of the run, with the last processor reading, and then the health
\* counters in a transaction of their own.
FinishRun_NoHealth ==
  /\ writer = "finish"
  /\ db' = persistCPU(db, Now)
  /\ reported' = TRUE
  /\ writer' = "done"
  /\ UNCHANGED <<clock, sender, closed, queue, pending, batch, mode, attempt,
                 health, savedHealth, healthRow, faults, restarts, written, dropped,
                 refused, lost, ledger>>

FinishRun ==
  /\ writer = "finish"
  /\ \E runOK, healthOK \in BOOLEAN :
       LET errors == IF runOK THEN 0 ELSE 1
           d      == IF runOK THEN persistCPU(db, Now) ELSE db
       IN  /\ (runOK /\ healthOK) \/ faults < MaxFaults
           /\ faults' = IF runOK /\ healthOK THEN faults ELSE faults + 1
           /\ health' = [health EXCEPT !.errors = @ + errors]
           /\ db' = d
           /\ healthRow' = IF healthOK THEN health' ELSE healthRow
           /\ reported' = healthOK
  /\ writer' = "done"
  /\ UNCHANGED <<clock, sender, closed, queue, pending, batch, mode, attempt,
                 savedHealth, restarts, written, dropped, refused, lost, ledger>>

-----------------------------------------------------------------------------
(* Close, the maintenance loop, and the passing of time.                    *)

\* Close without taking acceptMu.
Close_Unlocked ==
  /\ ~closed
  /\ closed' = TRUE
  /\ UNCHANGED <<clock, sender, queue, writerVars, health, tables, faults, restarts,
                 ghosts>>

\* acceptMu is write-locked, so no sender is between its check and its send.
\* The wait for the writer ends with it or after five seconds and changes
\* nothing here.
Close ==
  /\ ~closed
  /\ \A s \in Senders : sender[s].pc # "locked"
  /\ closed' = TRUE
  /\ UNCHANGED <<clock, sender, queue, writerVars, health, tables, faults, restarts,
                 ghosts>>

\* What Cleanup leaves in the database. Detail goes by its age, the
\* checkpoint of a job only once its outcome is known, totals by their day.
Cleaned(d) ==
  LET cutoff == Now - DetailRetention
      detail == DetailRetention > 0
  IN  [d EXCEPT
         !.actions = {a \in @ : ~detail \/ a >= cutoff},
         !.jobs = [j \in JobIDs |->
                     IF detail /\ @[j] # NoJob /\ @[j].created < cutoff
                     THEN NoJob ELSE @[j]],
         !.checkpoints = [j \in JobIDs |->
                     IF /\ detail /\ @[j] # NoJob
                        /\ jobOutcome(@[j]) # "unresolved"
                        /\ @[j].updated < cutoff
                     THEN NoJob ELSE @[j]],
         !.actionCount = [day \in Days |-> IF KeptDay(day) THEN @[day] ELSE 0],
         !.rollups = [day \in Days |-> IF KeptDay(day) THEN @[day] ELSE EmptyRollup],
         !.settings = [day \in Days |-> IF KeptDay(day) THEN @[day]
                                        ELSE [k \in SettingKeys |-> 0]],
         !.cpuDaily = [day \in Days |-> IF KeptDay(day) THEN @[day] ELSE 0]]

\* Cleanup gives way to a writer that holds writeMu, and to Close.
Cleanup ==
  /\ ~closed
  /\ \/ /\ db' = Cleaned(db)
        /\ UNCHANGED <<health, faults>>
     \/ /\ faults < MaxFaults /\ faults' = faults + 1
        /\ health' = [health EXCEPT !.errors = @ + 1]
        /\ UNCHANGED db
  /\ UNCHANGED <<clock, sender, closed, queue, writerVars, healthRow, restarts,
                 ghosts>>

\* Midnight. Records are written within seconds of being made and retention is
\* counted in days, so the day changes between records
\* (and only the first one with a record matters).
NextDay ==
  /\ today < LastDay /\ made > 0
  /\ InFlight = {}
  /\ today' = today + 1
  /\ UNCHANGED <<made, registered, sender, closed, queue, writerVars, health, tables,
                 faults, restarts, ghosts>>

\* The process dies and is started again: New reads the health counters back
\* and starts a run with a processor reading of its own.
Restart ==
  /\ restarts < MaxRestarts /\ faults < MaxFaults
  /\ restarts' = restarts + 1 /\ faults' = faults + 1
  /\ lost' = lost \cup (InFlight \ written)
  /\ sender' = [s \in Senders |-> Idle]
  /\ closed' = FALSE
  /\ queue' = <<>> /\ pending' = <<>> /\ batch' = <<>>
  /\ writer' = "select" /\ mode' = "run" /\ attempt' = 0
  /\ health' = healthRow /\ savedHealth' = healthRow
  /\ db' = [db EXCEPT !.cpuCursor = Now]
  /\ reported' = FALSE
  /\ UNCHANGED <<clock, healthRow, written, dropped, refused, ledger>>

WriterStep == \/ Receive \/ Tick \/ SeeStop \/ DrainEnds
              \/ BatchCommitted \/ BatchFails \/ BatchDone \/ FinishRun

Next ==
  \/ \E s \in Senders : \/ RecordAction(s)
                        \/ \E j \in JobIDs, r \in Reports : ObserveJob(s, j, r)
                        \/ Send(s)
  \/ WriterStep
  \/ Close \/ Cleanup \/ NextDay \/ Restart

\* The database answers every call, so that the writer leaves a place where it
\* waits for it (only the place is named: which answer it gets is open).
CallEnds == /\ writer \in {"writing", "finish"}
            /\ writer' \in {"written", "select", "finish", "done"} \ {writer}

\* The writer goroutine runs whenever one of its channels or its ticker is
\* ready, and a sender holds its lock only for a moment.
Fairness == /\ WF_vars(Receive \/ Tick \/ SeeStop \/ DrainEnds \/ BatchDone)
            /\ WF_writer(CallEnds)
            /\ \A s \in Senders : WF_vars(Send(s))

Spec == Init /\ [][Next]_vars /\ Fairness

-----------------------------------------------------------------------------
(* Properties.                                                              *)

JobRows == [created : Nat, updated : Nat, state : {"open", "failed"},
            observed : {Unknown, "processing"} \cup TerminalOutcomes,
            accepted : BOOLEAN, cancelAccepted : BOOLEAN,
            terminalAt : Nat \cup {Unknown}, documents : Nat,
            sheets : Nat \cup {Unknown}, route : SettingKeys]

\* Types of the collector's state; in particular no total of the database is
\* ever negative, although persistJob adds differences.
TypeOK ==
  /\ made \in 0..MaxRecords /\ today \in Days
  /\ Len(queue) <= QueueSize /\ Len(pending) < BatchSize
  /\ Len(batch) <= BatchSize
  /\ closed \in BOOLEAN /\ attempt \in 0..(Attempts - 1)
  /\ writer \in {"select", "writing", "written", "finish", "done"}
  /\ mode \in {"run", "drain", "final"}
  /\ health \in [dropped : Nat, errors : Nat]
  /\ db.rollups \in [Days -> [DOMAIN EmptyRollup -> Nat]]
  /\ db.settings \in [Days -> [SettingKeys -> Nat]]
  /\ db.actionCount \in [Days -> Nat] /\ db.cpuDaily \in [Days -> Nat]
  /\ \A j \in JobIDs : /\ db.checkpoints[j] \in JobRows \cup {NoJob}
                       /\ db.jobs[j] \in JobRows \cup {NoJob}

\* enqueue, writerLoop and Close: every record a handler makes is on its way,
\* in a committed batch, counted as dropped, or died with the process. After
\* the writer has gone nothing is left behind in the queue, although Close may
\* come at any moment of a send; and the counter misses no drop and counts
\* none twice as long as the process lives.
NothingSilentlyLost ==
  /\ 1..made = InFlight \cup written \cup dropped \cup lost
  /\ writer = "done" => queue = <<>> /\ pending = <<>> /\ batch = <<>>
  /\ restarts = 0 => health.dropped = Cardinality(dropped)

\* writeBatchWithRetry and persistAction: however often a batch is tried, and
\* although a commit may take effect and still report an error, an action is
\* in its day's total once, and the processor time of the days is never more
\* than has passed.
CountedOnce ==
  /\ Total(db.actionCount) <= Cardinality(written)
  /\ \A d \in Days : KeptDay(d) =>
       db.actionCount[d] >= Cardinality({a \in db.actions : dayString(a) = d})
  /\ today = 0 => db.actionCount[0] = Cardinality(db.actions)
  /\ Total(db.cpuDaily) <= Now

\* persistJob and Cleanup: the totals of a day that is still kept are those of
\* the jobs submitted on it, each counted with its last merged state, although
\* snapshots arrive in any order, batches are written twice and detail is
\* removed; a job without an outcome keeps the checkpoint it is updated from.
RollupsMatchJobs ==
  /\ \A d \in Days : KeptDay(d) =>
       LET jobs == [j \in {i \in JobIDs : /\ ledger[i] # NoJob
                                          /\ dayString(ledger[i].created) = d}
                      |-> ledger[j]]
       IN  /\ db.rollups[d] = TotalsOf(jobs)
           /\ db.settings[d] = SettingsOf(jobs)
  /\ \A j \in JobIDs :
       ledger[j] # NoJob /\ jobOutcome(ledger[j]) = "unresolved"
         => db.checkpoints[j] = ledger[j]

\* What is known of a job in new is at least what is known of it in old.
FactsKept(old, new) ==
  /\ new.created = old.created /\ new.updated >= old.updated
  /\ old.observed \in TerminalOutcomes => new.observed = old.observed
  /\ old.accepted => new.accepted
  /\ old.cancelAccepted => new.cancelAccepted
  /\ old.terminalAt # Unknown => new.terminalAt = old.terminalAt
  /\ old.route # Unknown => new.route = old.route
  /\ new.documents >= old.documents
  /\ old.sheets # Unknown => new.sheets # Unknown /\ new.sheets >= old.sheets

\* What the proxy and the printer last said of a job changes with a later snapshot
\* only.
LaterOnly(old, new) ==
  new.state # old.state \/ new.observed # old.observed => new.updated > old.updated

FactsGrow(old, new) == FactsKept(old, new) /\ LaterOnly(old, new)

\* mergeJob: what has been learnt of a job is never taken back by a snapshot
\* that was made earlier or knows less. An outcome that the printer reported
\* stays for good; one that rests on the proxy's own state ("failed") stays
\* until a snapshot made later says otherwise, in whatever order snapshots
\* arrive and however often a batch is written; acceptance, times, counters
\* and settings only become known or grow.
JobFactsOnlyGrow ==
  [][\A j \in JobIDs : ledger[j] # NoJob /\ ledger'[j] # ledger[j]
                         => FactsGrow(ledger[j], ledger'[j])]_vars

\* flush and finishRun: a drop that happens while a batch is being written can
\* be missing from the database and still equal the counters last saved, so
\* that no later flush of an empty batch writes it; once the run is finished
\* and its health row written, every drop before Close is in the database.
DropsSurviveClose ==
  writer = "done" /\ reported /\ restarts = 0
    => healthRow.dropped >= Cardinality(dropped \ refused)

\* writerLoop: records do not stay in memory for ever, even if no other record
\* follows and the collector is never closed: whatever is held is settled.
RecordsSettle ==
  IDs(queue) \cup IDs(pending) \cup IDs(batch) # {}
    ~> IDs(queue) \cup IDs(pending) \cup IDs(batch) = {}
=============================================================================
