--------------------------- MODULE DNSPublication ---------------------------
(***************************************************************************)
(* The announcement of one queue: the capability refresh and the two kinds *)
(* of retry goroutine (internal/proxy/service.go), the Avahi publisher     *)
(* (internal/dnssd/publisher_avahi.go), and the shutdown.                  *)
(*                                                                         *)
(* The publisher's mutex is held for a whole Update or Withdraw; `op' is   *)
(* the call that holds it, and each D-Bus call it makes is a step, because *)
(* the daemon may restart in between.  A D-Bus call may fail with or       *)
(* without having taken effect.  A call on a group the daemon no longer    *)
(* knows fails as stale.  Without a connection every call fails, and not   *)
(* as stale; only ensureBus makes a new one.                               *)
(*                                                                         *)
(* The queue is configured for DNS-SD.  The Avahi daemon is external.      *)
(***************************************************************************)
EXTENDS Integers

CONSTANTS
  Snapshots,     \* publications the printer's capabilities may ask for
  Unfit,         \* TXT data and locations no record can be built from
  MaxAttempts,   \* attempts of a retry goroutine (6 in the code)
  MaxChanges,    \* bound on changes of the printer's capabilities
  MaxFaults      \* bound on faults of the daemon and the bus

\* No publication: the queue is not ready, or nothing is announced.
Nothing == [topology |-> 0, txt |-> 0, loc |-> 0]

\* The subtypes, the TXT data, and the LOC record of the host.
Publication == [topology : Nat, txt : Nat, loc : Nat]

ASSUME PublicationAssumption ==
  /\ Snapshots \subseteq Publication
  /\ \A s \in Snapshots : s.topology = 0 => s = Nothing
  /\ MaxAttempts \in Nat \ {0} /\ MaxChanges \in Nat /\ MaxFaults \in Nat

VARIABLES
  offer,    \* what the printer's present capabilities ask for
  caps,     \* the service's last capability snapshot
  proc,     \* the refresh and the retry goroutine
  op,       \* the publisher call in progress
  current,  \* the publisher's entry group and publication (Nothing: it has none)
  torn,     \* history: an update of that group could be neither undone nor discarded
  avahi,    \* the daemon's side of that entry group
  orphans,  \* what groups announce that createGroup gave up and could not free
  bus,      \* whether the publisher's connection to the system bus is up
  dns,      \* queueHealth.DNSState
  svc,      \* the service: running, closing, closed, or closed with an error
  changes, faults

vars == <<offer, caps, proc, op, current, torn, avahi, orphans, bus, dns, svc, changes, faults>>

\* shows: what the group announces (Nothing: a collision took it off the network)
Group == [object : BOOLEAN, shows : Publication]
NoGroup == [object |-> FALSE, shows |-> Nothing]
Established == avahi.object /\ avahi.shows # Nothing

Proc == [pc        : {"idle", "call", "lock", "busy", "record", "schedule", "sleep", "readTXT"},
         withdraws : BOOLEAN,       \* Withdraw is called, or else Update
         want      : Publication,   \* the input of the call
         status    : {"", "published", "withdrawn", "degraded"},
         left      : 0..MaxAttempts]

Asleep == [pc |-> "idle", withdraws |-> FALSE, want |-> Nothing, status |-> "", left |-> 0]
NoOp   == [by |-> "", step |-> ""]

TypeOK ==
  /\ {offer, caps} \subseteq Snapshots \cup {Nothing}
  /\ proc \in [{"refresh", "retry"} -> Proc]
  /\ op \in [by : {"", "refresh", "retry"},
             step : {"", "free", "connect", "create", "release", "txt", "rollback",
                     "discard", "check", "cleanup"}]
  /\ current \in Publication /\ torn \in BOOLEAN
  /\ avahi \in Group /\ orphans \subseteq Publication \ {Nothing}
  /\ bus \in BOOLEAN
  /\ dns \in {"", "published", "withdrawn", "degraded"}
  /\ svc \in {"running", "closing", "closed", "failed"}
  /\ changes \in 0..MaxChanges /\ faults \in 0..MaxFaults

Init ==
  /\ offer \in Snapshots
  /\ caps = Nothing
  /\ proc = [p \in {"refresh", "retry"} |-> Asleep]
  /\ op = NoOp
  /\ current = Nothing /\ torn = FALSE
  /\ avahi = NoGroup /\ orphans = {} /\ bus = FALSE
  /\ dns = "" /\ svc = "running"
  /\ changes = 0 /\ faults = 0

-----------------------------------------------------------------------------
(* The refresh goroutine (refreshOne, syncDNSPublication).                 *)

held == <<current, torn>>
daemon == <<held, avahi, orphans, bus>>

\* The snapshot is stored under the service's lock; the publisher is called
\* after it is released.  A refresh that fails keeps the last snapshot.
Refresh ==
  /\ svc = "running"
  /\ proc["refresh"].pc = "idle"
  /\ caps' = offer
  /\ proc' = [proc EXCEPT !["refresh"] = [Asleep EXCEPT !.pc = "call", !.want = offer,
                                                        !.withdraws = offer = Nothing]]
  /\ UNCHANGED <<offer, op, daemon, dns, svc, changes, faults>>

\* BuildRecords and its validation.
Buildable(publication) == {publication.txt, publication.loc} \cap Unfit = {}

\* A goroutine whose publisher call is over, and with it the call's input.
Returned(r, status) == [r EXCEPT !.pc = "record", !.status = status, !.want = Nothing]

\* A goroutine that calls Update or Withdraw, at the publisher's mutex: a cancelled
\* context or records that cannot be built end the call before it.
Entering(r) ==
  IF svc # "running" \/ ~Buildable(r.want) THEN Returned(r, "degraded")
  ELSE [r EXCEPT !.pc = "lock"]

\* syncDNSPublication calls the publisher after the service's lock is released.
Call ==
  /\ proc["refresh"].pc = "call"
  /\ proc' = [proc EXCEPT !["refresh"] = Entering(@)]
  /\ UNCHANGED <<offer, caps, op, daemon, dns, svc, changes, faults>>

\* Mutant: every status but "published" is taken for a failure.
Record_NotPublished(p) ==
  /\ proc[p].pc = "record"
  /\ dns' = IF proc[p].status = "published" THEN "published" ELSE "degraded"
  /\ proc' = [proc EXCEPT ![p] = Asleep]
  /\ UNCHANGED <<offer, caps, op, daemon, svc, changes, faults>>

\* Mutant: the retry loop has lost its bound.
Record_NeverStops(p) ==
  LET r == proc[p]
      failed == r.status = "degraded"
  IN
  /\ r.pc = "record"
  /\ dns' = r.status
  /\ proc' = [proc EXCEPT ![p] =
                IF failed /\ p = "refresh" THEN [r EXCEPT !.pc = "schedule"]
                ELSE IF failed THEN [r EXCEPT !.pc = "sleep", !.status = "", !.left = r.left - 1]
                ELSE Asleep]
  /\ UNCHANGED <<offer, caps, op, daemon, svc, changes, faults>>

\* recordDNSStatus, after the publisher's mutex was released.
Record(p) ==
  LET r == proc[p]
      failed == r.status = "degraded"
  IN
  /\ r.pc = "record"
  /\ dns' = r.status
  /\ proc' = [proc EXCEPT ![p] =
                IF failed /\ p = "refresh" THEN [r EXCEPT !.pc = "schedule"]
                ELSE IF failed /\ r.left > 1
                THEN [r EXCEPT !.pc = "sleep", !.status = "", !.left = r.left - 1]
                ELSE Asleep]
  /\ UNCHANGED <<offer, caps, op, daemon, svc, changes, faults>>

\* scheduleDNSRetry and scheduleDNSWithdrawRetry share one flag per queue: it is
\* up while the retry goroutine lives.
Schedule ==
  /\ proc["refresh"].pc = "schedule"
  /\ proc' = [proc EXCEPT
       !["refresh"] = Asleep,
       !["retry"] = IF svc = "running" /\ @.pc = "idle"
                    THEN [Asleep EXCEPT !.pc = "sleep", !.left = MaxAttempts,
                                        !.withdraws = proc["refresh"].withdraws]
                    ELSE @]
  /\ UNCHANGED <<offer, caps, op, daemon, dns, svc, changes, faults>>

-----------------------------------------------------------------------------
(* The retry goroutine.                                                    *)

\* The timer fires.  A withdrawal is tried again as it is.  A publication is built
\* from the latest snapshot: the profiles are read under one lock, the attributes
\* under the next.
RetryWakes ==
  /\ proc["retry"].pc = "sleep"
  /\ proc' = [proc EXCEPT !["retry"] =
                IF @.withdraws THEN Entering(@)
                ELSE IF caps = Nothing THEN Asleep
                ELSE [@ EXCEPT !.pc = "readTXT", !.want.topology = caps.topology]]
  /\ UNCHANGED <<offer, caps, op, daemon, dns, svc, changes, faults>>

RetryReadsTXT ==
  /\ proc["retry"].pc = "readTXT"
  /\ proc' = [proc EXCEPT !["retry"] =
                Entering([@ EXCEPT !.want.txt = caps.txt, !.want.loc = caps.loc])]
  /\ UNCHANGED <<offer, caps, op, daemon, dns, svc, changes, faults>>

RetryStops ==
  /\ proc["retry"].pc = "sleep" /\ svc # "running"
  /\ proc' = [proc EXCEPT !["retry"] = Asleep]
  /\ UNCHANGED <<offer, caps, op, daemon, dns, svc, changes, faults>>

-----------------------------------------------------------------------------
(* The publisher, one D-Bus call at a time.                                *)

Want == proc[op.by].want
GoOn(step) == op' = [op EXCEPT !.step = step] /\ UNCHANGED proc
Return(status) ==
  /\ op' = NoOp
  /\ proc' = [proc EXCEPT ![op.by] = Returned(@, status)]

\* A call that does not return as it should.  All do when the connection is lost,
\* and those made under the caller's context once the service is closing.
Fails(bound) ==
  IF ~bus \/ (bound /\ svc # "running") THEN UNCHANGED faults
  ELSE faults < MaxFaults /\ faults' = faults + 1

Hold(publication) == current' = publication /\ torn' = FALSE
Forget == Hold(Nothing)
rest == <<offer, caps, dns, svc, changes>>
line == <<orphans, bus>>

\* isStaleEntryGroupError: the daemon answers that it does not know the group.
Stale == bus /\ ~avahi.object

\* The mutex is taken.  An update of a publication keeps its location, and its
\* records are built again.  A change of topology needs a new group, made after
\* the old one is freed; a change of TXT data does not.
Begin(p) ==
  LET pinned == ~proc[p].withdraws /\ current # Nothing
      w == IF pinned THEN [proc[p].want EXCEPT !.loc = current.loc] ELSE proc[p].want
      ends == IF proc[p].withdraws /\ current = Nothing THEN "withdrawn"
              ELSE IF pinned /\ ~Buildable(w) THEN "degraded" ELSE ""
  IN
  /\ proc[p].pc = "lock" /\ op = NoOp
  /\ IF ends # ""
     THEN proc' = [proc EXCEPT ![p] = Returned(@, ends)] /\ UNCHANGED op
     ELSE /\ proc' = [proc EXCEPT ![p].pc = "busy", ![p].want = w]
          /\ op' = [by |-> p,
                    step |-> IF current = Nothing \/ w.topology = current.topology
                             THEN "connect" ELSE "free"]
  /\ UNCHANGED <<daemon, rest, faults>>

\* Mutant: an early return keeps the mutex.
Free_KeepsMutex ==
  /\ op.step = "free"
  /\ \/ /\ bus /\ avahi' = NoGroup /\ Forget /\ UNCHANGED faults
        /\ IF proc[op.by].withdraws THEN Return("withdrawn") ELSE GoOn("connect")
     \/ /\ Fails(TRUE) /\ avahi' \in {avahi, NoGroup} /\ UNCHANGED held
        /\ op' = [op EXCEPT !.step = ""]
        /\ proc' = [proc EXCEPT ![op.by] = Returned(@, "degraded")]
  /\ UNCHANGED <<line, rest>>

\* freeGroupBounded in Withdraw and before a rebuild; a stale group counts as freed.
\* Neither looks after the connection first.
Free ==
  /\ op.step = "free"
  /\ \/ /\ bus /\ avahi' = NoGroup /\ Forget /\ UNCHANGED faults
        /\ IF proc[op.by].withdraws THEN Return("withdrawn") ELSE GoOn("connect")
     \/ /\ Fails(TRUE) /\ avahi' \in {avahi, NoGroup} /\ UNCHANGED held
        /\ Return("degraded")
  /\ UNCHANGED <<line, rest>>

\* ensureBus: a lost connection, or the first one, is made now or not at all.
Connect ==
  /\ op.step = "connect"
  /\ \/ /\ bus' = TRUE /\ UNCHANGED faults
        /\ GoOn(IF current = Nothing THEN "create" ELSE "txt")
     \/ /\ ~bus /\ faults < MaxFaults /\ faults' = faults + 1
        /\ Return("degraded") /\ UNCHANGED bus
  /\ UNCHANGED <<held, avahi, orphans, rest>>

\* createGroup for the first candidate name that is free.  The new group is the
\* publisher's when it is seen established; otherwise it is freed again, which
\* makes a difference when it was committed.
Create ==
  /\ op.step = "create"
  /\ \/ /\ bus /\ avahi' = [object |-> TRUE, shows |-> Want] /\ Hold(Want)
        /\ Return("published") /\ UNCHANGED faults
     \/ /\ Fails(TRUE) /\ Return("degraded") /\ UNCHANGED <<held, avahi>>
     \/ /\ bus /\ Fails(TRUE) /\ GoOn("release") /\ UNCHANGED held
        /\ avahi' = [object |-> TRUE, shows |-> Want]
  /\ UNCHANGED <<line, rest>>

\* The deferred release ignores its own error: the group may stay announced, and
\* nobody knows its path any more.
Release ==
  /\ op.step = "release"
  /\ avahi' = NoGroup
  /\ \/ UNCHANGED <<orphans, faults>>
     \/ Fails(FALSE) /\ orphans' = orphans \cup ({avahi.shows} \ {Nothing})
  /\ Return("degraded")
  /\ UNCHANGED <<held, bus, rest>>

\* updateGroupTXT on the existing group; the interface may be gone.
UpdateTXT ==
  /\ op.step = "txt"
  /\ \/ /\ Established
        /\ avahi' = [avahi EXCEPT !.shows = Want] /\ Hold(Want)
        /\ Return("published") /\ UNCHANGED faults
     \/ /\ Stale /\ Forget
        /\ Return("degraded") /\ UNCHANGED <<avahi, faults>>
     \/ /\ Fails(TRUE) \/ (avahi.object /\ ~Established /\ UNCHANGED faults)
        /\ avahi' \in {avahi} \cup IF Established THEN {[avahi EXCEPT !.shows = Want]} ELSE {}
        /\ GoOn("rollback") /\ UNCHANGED held
     \/ /\ Fails(FALSE) /\ GoOn("check") /\ UNCHANGED <<held, avahi>>
  /\ UNCHANGED <<line, rest>>

\* Mutant: the failed record itself is not rolled back.
Rollback_NotFailed ==
  /\ op.step = "rollback" /\ GoOn("check")
  /\ UNCHANGED <<daemon, rest, faults>>

\* rollbackTXT restores the previous data, the failed record included.
Rollback ==
  /\ op.step = "rollback"
  /\ \/ /\ Established /\ avahi' = [avahi EXCEPT !.shows = current]
        /\ GoOn("check") /\ UNCHANGED <<held, faults>>
     \/ /\ Stale /\ Forget
        /\ Return("degraded") /\ UNCHANGED <<avahi, faults>>
     \/ /\ Fails(FALSE) \/ (avahi.object /\ ~Established /\ UNCHANGED faults)
        /\ avahi' \in {avahi} \cup IF Established THEN {[avahi EXCEPT !.shows = current]} ELSE {}
        /\ GoOn("discard") /\ UNCHANGED held
  /\ UNCHANGED <<line, rest>>

\* A group that could not be restored is freed.
Discard ==
  /\ op.step = "discard"
  /\ \/ /\ bus /\ avahi' = NoGroup /\ Forget /\ UNCHANGED faults
        /\ Return("degraded")
     \/ /\ Fails(FALSE) /\ avahi' \in {avahi, NoGroup}
        /\ GoOn("check") /\ torn' = TRUE /\ UNCHANGED current
  /\ UNCHANGED <<line, rest>>

\* After a failed update the group is kept if the daemon calls it established.
Check ==
  /\ op.step = "check"
  /\ \/ /\ Established /\ Return("degraded") /\ UNCHANGED <<held, faults>>
     \/ /\ Stale /\ Forget /\ Return("degraded") /\ UNCHANGED faults
     \/ /\ Fails(FALSE) \/ (avahi.object /\ ~Established /\ UNCHANGED faults)
        /\ GoOn("cleanup") /\ UNCHANGED held
  /\ UNCHANGED <<avahi, line, rest>>

Cleanup ==
  /\ op.step = "cleanup"
  /\ \/ bus /\ avahi' = NoGroup /\ Forget /\ UNCHANGED faults
     \/ Fails(FALSE) /\ avahi' \in {avahi, NoGroup} /\ UNCHANGED held
  /\ Return("degraded")
  /\ UNCHANGED <<line, rest>>

-----------------------------------------------------------------------------
(* Shutdown.                                                               *)

CloseBegins ==
  /\ svc = "running" /\ svc' = "closing"
  /\ UNCHANGED <<offer, caps, proc, op, daemon, dns, changes, faults>>

\* Mutant: an entry group that could not be freed is forgotten.
CloseEnds_IgnoresError ==
  /\ svc = "closing"
  /\ \A p \in DOMAIN proc : proc[p].pc = "idle"
  /\ svc' = "closed" /\ Forget
  /\ \/ avahi' = NoGroup /\ UNCHANGED faults
     \/ Fails(FALSE) /\ current # Nothing /\ UNCHANGED avahi
  /\ UNCHANGED <<offer, caps, proc, op, line, dns, changes>>

\* Close waits for the refresh and the retry goroutine, then frees the group.  It
\* leaves the shared connection open.
CloseEnds ==
  /\ svc = "closing"
  /\ \A p \in DOMAIN proc : proc[p].pc = "idle"
  /\ \/ /\ svc' = "closed" /\ current = Nothing
        /\ UNCHANGED <<held, avahi, faults>>
     \/ /\ svc' = "closed" /\ current # Nothing /\ bus
        /\ avahi' = NoGroup /\ Forget /\ UNCHANGED faults
     \/ /\ svc' = "failed" /\ current # Nothing
        /\ Fails(FALSE) /\ avahi' \in {avahi, NoGroup} /\ UNCHANGED held
  /\ UNCHANGED <<offer, caps, proc, op, line, dns, changes>>

-----------------------------------------------------------------------------
(* The printer and the daemon (external), as long as somebody looks.       *)

PrinterChanges ==
  /\ svc = "running"
  /\ changes < MaxChanges /\ changes' = changes + 1
  /\ offer' \in Snapshots \ {offer}
  /\ UNCHANGED <<caps, proc, op, daemon, dns, svc, faults>>

AvahiRestarts ==
  /\ svc \in {"running", "closing"}
  /\ avahi.object \/ orphans # {}
  /\ faults < MaxFaults /\ faults' = faults + 1
  /\ avahi' = NoGroup /\ orphans' = {}
  /\ UNCHANGED <<offer, caps, proc, op, held, bus, dns, svc, changes>>

\* The connection to the bus breaks.  The daemon frees the groups of a client that
\* is gone.
BusLost ==
  /\ svc \in {"running", "closing"}
  /\ bus /\ bus' = FALSE
  /\ faults < MaxFaults /\ faults' = faults + 1
  /\ avahi' = NoGroup /\ orphans' = {}
  /\ UNCHANGED <<offer, caps, proc, op, held, dns, svc, changes>>

\* Another host claims the name: the daemon takes the group off the network, and
\* calls on it fail.
AvahiCollides ==
  /\ Established /\ svc \in {"running", "closing"}
  /\ faults < MaxFaults /\ faults' = faults + 1
  /\ avahi' = [avahi EXCEPT !.shows = Nothing]
  /\ UNCHANGED <<offer, caps, proc, op, held, line, dns, svc, changes>>

PublisherStep ==
  \/ Free \/ Connect \/ Create \/ Release
  \/ UpdateTXT \/ Rollback \/ Discard \/ Check \/ Cleanup

RefreshStep ==
  Refresh \/ Call \/ Begin("refresh") \/ Record("refresh") \/ Schedule

RetryStep ==
  \/ RetryWakes \/ RetryReadsTXT \/ RetryStops
  \/ Begin("retry") \/ Record("retry")

Next ==
  \/ RefreshStep \/ RetryStep \/ PublisherStep
  \/ CloseBegins \/ CloseEnds
  \/ PrinterChanges \/ AvahiRestarts \/ AvahiCollides \/ BusLost

\* The refresh ticker and the retry timers fire, the printer answers, D-Bus calls
\* return or time out, a waiter gets the mutex, and Close goes on when it may.
Fairness ==
  /\ WF_vars(RefreshStep) /\ WF_vars(RetryStep) /\ WF_vars(PublisherStep) /\ WF_vars(CloseEnds)
  /\ SF_vars(Begin("refresh")) /\ SF_vars(Begin("retry"))

Spec == Init /\ [][Next]_vars /\ Fairness

-----------------------------------------------------------------------------
(* Correctness properties.                                                 *)

\* Between two publisher calls, what the daemon announces for the publisher's group
\* is of the recorded structure, and its TXT data is the recorded one unless the
\* update, its rollback and the release of the group all failed (updateGroupTXT:
\* "A partially restored EntryGroup must never be retained as the current
\* publication").
CurrentIsAnnounced ==
  op = NoOp /\ current # Nothing /\ Established =>
    /\ avahi.shows.topology = current.topology
    /\ torn \/ avahi.shows = current

\* When Close returned without an error, the publisher has no group at the daemon
\* and none comes back: no refresh or retry announces the queue behind its back.
\* What may still be announced are the groups of creations that failed and whose
\* release, the error of which createGroup ignores, failed too.
ClosedIsSilent == svc = "closed" => ~avahi.object /\ current = Nothing

\* What the printer offers now is announced, and the health says so.  The location
\* is that of the publication's first update.
InSync ==
  ~Buildable(offer) \/
    /\ avahi.shows.topology = offer.topology /\ avahi.shows.txt = offer.txt
    /\ dns = IF offer = Nothing THEN "withdrawn" ELSE "published"

\* The connection is lost, and what the printer offers calls for the release of the
\* recorded group: that fails without ensureBus, and is tried again just so.
Stranded == ~bus /\ current # Nothing /\ current.topology # offer.topology

\* Once the printer's capabilities, the daemon and the bus stay as they are,
\* announcement and recorded state follow them for good, whatever the retries did in
\* between: a withdrawal tried too late or a publication of an old snapshot is
\* undone.  The one exception is a publication stranded by a lost connection.
AnnouncementFollows == <>[](svc # "running" \/ InSync \/ Stranded)

\* Close always comes to an end: neither wait group nor mutex is held for ever.
CloseReturns == svc = "closing" ~> svc \in {"closed", "failed"}
=============================================================================
