------------------------ MODULE DNSPublicationProofs ------------------------
(***************************************************************************)
(* Proofs about DNSPublication for any set of publications and any number  *)
(* of attempts, of changes and of faults.                                  *)
(*                                                                         *)
(* The invariant ties the mutex to the goroutine that holds it, says what  *)
(* the daemon may announce at each step of a call, that the daemon knows   *)
(* no group the publisher has forgotten (but one whose creation failed),   *)
(* and that nothing is left to run once Close returned.                    *)
(***************************************************************************)
EXTENDS DNSPublication, TLAPS

Procs == {"refresh", "retry"}
Steps == {"free", "connect", "create", "release", "txt", "rollback", "discard", "check", "cleanup"}

\* The mutex is held by the goroutine that is in a call, and by nobody else.
Mutex ==
  /\ op = NoOp \/ (op.by \in Procs /\ op.step \in Steps /\ proc[op.by].pc = "busy")
  /\ \A p \in Procs : proc[p].pc = "busy" => op.by = p

\* An update of TXT data keeps the structure of the publication; a new group is made
\* when there is none.
SameStructure ==
  /\ op.step \in {"connect", "txt", "rollback", "discard"} /\ current # Nothing =>
       Want.topology = current.topology
  /\ op.step \in {"create", "release"} => current = Nothing

\* What the daemon announces for the publisher's group, within a call too.
GroupOK ==
  current # Nothing /\ Established =>
    /\ avahi.shows.topology = current.topology
    /\ avahi.shows = current \/ torn \/ op.step \in {"rollback", "discard"}

\* The daemon knows no group but the publisher's own, except between a failed creation
\* and its release.
NoStray == current = Nothing /\ op.step # "release" => ~avahi.object

\* A call is made with a publication, or it is a withdrawal.
InputOK(r) ==
  /\ r.withdraws => r.want.topology = 0
  /\ ~r.withdraws /\ r.pc \in {"call", "lock", "busy", "readTXT"} => r.want.topology # 0
Inputs ==
  /\ \A p \in Procs : InputOK(proc[p])
  /\ current # Nothing => current.topology # 0
  /\ op.step \in Steps \ {"free"} => Want.topology # 0

\* Nothing runs once Close returned.
Stopped ==
  /\ svc \in {"closed", "failed"} => \A p \in Procs : proc[p].pc = "idle"
  /\ ClosedIsSilent

IInv == TypeOK /\ Mutex /\ SameStructure /\ GroupOK /\ NoStray /\ Inputs /\ Stopped

-----------------------------------------------------------------------------
\* Every offer is a publication, and so is none at all.
LEMMA Offers ==
  /\ Nothing \in Publication /\ Nothing.topology = 0
  /\ Snapshots \cup {Nothing} \subseteq Publication
  /\ MaxAttempts \in Nat /\ 0 \in 0..MaxAttempts /\ MaxAttempts \in 0..MaxAttempts
<1>1. Nothing \in Publication /\ Nothing.topology = 0
  BY DEF Nothing, Publication
<1>2. Snapshots \cup {Nothing} \subseteq Publication
  BY <1>1, PublicationAssumption
<1>3. MaxAttempts \in Nat
  BY PublicationAssumption
<1> QED BY <1>1, <1>2, <1>3

\* The types that a step of a goroutine relies on.
LEMMA Typed ==
  ASSUME TypeOK
  PROVE  /\ proc \in [Procs -> Proc]
         /\ \A p \in Procs : proc[p] \in Proc
         /\ offer \in Publication /\ caps \in Publication /\ current \in Publication
         /\ avahi \in Group
  BY Offers DEF TypeOK, Procs

\* A goroutine at rest, and one that moves on within its own record.
LEMMA Records ==
  /\ Asleep \in Proc /\ Asleep.pc = "idle" /\ InputOK(Asleep)
  /\ \A r \in Proc : \A pc \in {"idle", "call", "lock", "busy", "record", "schedule", "sleep", "readTXT"} :
       LET s == [r EXCEPT !.pc = pc] IN s \in Proc /\ s.pc = pc /\ s.want = r.want
  /\ \A r \in Proc : \A status \in {"", "published", "withdrawn", "degraded"} :
       LET s == Returned(r, status) IN s \in Proc /\ s.pc = "record" /\ InputOK(s)
  /\ \A r \in Proc : r.withdraws = (r.want.topology = 0) =>
       LET s == Entering(r) IN s \in Proc /\ s.pc \in {"record", "lock"} /\ InputOK(s)
<1>1. Asleep \in Proc /\ Asleep.pc = "idle" /\ InputOK(Asleep)
  BY Offers DEF Asleep, Proc, InputOK
<1>2. \A r \in Proc : \A pc \in {"idle", "call", "lock", "busy", "record", "schedule", "sleep", "readTXT"} :
       LET s == [r EXCEPT !.pc = pc] IN s \in Proc /\ s.pc = pc /\ s.want = r.want
  BY DEF Proc
<1>3. \A r \in Proc : \A status \in {"", "published", "withdrawn", "degraded"} :
       LET s == Returned(r, status) IN s \in Proc /\ s.pc = "record" /\ InputOK(s)
  BY Offers DEF Proc, Returned, InputOK
<1>4. ASSUME NEW r \in Proc, r.withdraws = (r.want.topology = 0)
      PROVE  Entering(r) \in Proc /\ Entering(r).pc \in {"record", "lock"} /\ InputOK(Entering(r))
  <2>1. Entering(r) \in {Returned(r, "degraded"), [r EXCEPT !.pc = "lock"]}
    BY DEF Entering
  <2>2. /\ Returned(r, "degraded") \in Proc /\ Returned(r, "degraded").pc = "record"
        /\ InputOK(Returned(r, "degraded"))
    BY <1>3
  <2>3. /\ [r EXCEPT !.pc = "lock"] \in Proc /\ [r EXCEPT !.pc = "lock"].pc = "lock"
        /\ InputOK([r EXCEPT !.pc = "lock"])
    BY <1>4 DEF Proc, InputOK
  <2> QED BY <2>1, <2>2, <2>3
<1> QED BY <1>1, <1>2, <1>3, <1>4

\* A step of one goroutine outside a call: it neither takes nor returns the mutex.
LEMMA Moves ==
  ASSUME IInv, NEW p \in Procs, NEW s \in Proc, proc' = [proc EXCEPT ![p] = s],
         proc[p].pc # "busy", s.pc # "busy", proc[p].pc # "idle" \/ svc = "running", InputOK(s),
         caps' \in Snapshots \cup {Nothing}, dns' \in {"", "published", "withdrawn", "degraded"},
         UNCHANGED <<offer, op, daemon, svc, changes, faults>>
  PROVE  IInv'
<1>1. proc \in [Procs -> Proc]
  BY Typed DEF IInv
<1>2. proc' \in [Procs -> Proc] /\ proc'[p] = s /\ \A o \in Procs \ {p} : proc'[o] = proc[o]
  BY <1>1
<1>3. TypeOK'
  BY <1>2 DEF IInv, TypeOK, daemon, held, Procs
<1>4. op # NoOp => op.by \in Procs /\ op.by # p
  BY DEF IInv, Mutex
<1>5. Mutex'
  BY <1>2, <1>4 DEF IInv, Mutex
<1>6. SameStructure'
  <2>1. NoOp.step = ""
    BY DEF NoOp
  <2> QED BY <1>2, <1>4, <2>1 DEF IInv, SameStructure, Want, daemon, held
<1>7. GroupOK'
  BY DEF IInv, GroupOK, Established, daemon, held
<1>8. Stopped' /\ NoStray'
  BY <1>2 DEF IInv, Stopped, NoStray, ClosedIsSilent, daemon, held
<1>9. Inputs'
  <2>1. NoOp.step \notin Steps
    BY DEF NoOp, Steps
  <2> QED BY <1>2, <1>4, <2>1 DEF IInv, Inputs, Want, daemon, held
<1> QED BY <1>3, <1>5, <1>6, <1>7, <1>8, <1>9 DEF IInv

\* The refresh and the retry goroutine, outside a call.
LEMMA GoroutineMoves ==
  ASSUME IInv,
         \/ Refresh \/ Call \/ Schedule \/ RetryWakes \/ RetryReadsTXT \/ RetryStops
         \/ \E p \in Procs : Record(p)
  PROVE  IInv'
<1>1. TypeOK /\ proc \in [Procs -> Proc] /\ caps \in Snapshots \cup {Nothing}
  BY Typed DEF IInv, TypeOK
<1>2. proc["refresh"] \in Proc /\ proc["retry"] \in Proc
  BY <1>1, Typed DEF Procs
<1>3. CASE Refresh
  <2> DEFINE s == [Asleep EXCEPT !.pc = "call", !.want = offer, !.withdraws = offer = Nothing]
  <2>1. s \in Proc /\ s.pc = "call" /\ InputOK(s)
    <3>1. offer \in Publication /\ (offer.topology = 0 <=> offer = Nothing)
      BY <1>1, Typed, Offers, PublicationAssumption DEF TypeOK
    <3> QED BY <3>1, Offers DEF Asleep, Proc, InputOK
  <2>2. proc' = [proc EXCEPT !["refresh"] = s] /\ caps' \in Snapshots \cup {Nothing}
    BY <1>1, <1>3 DEF Refresh, TypeOK
  <2> HIDE DEF s
  <2> QED BY <1>1, <1>3, <2>1, <2>2, Moves DEF Refresh, Procs, TypeOK
<1>4. CASE Schedule
  <2> DEFINE t == [Asleep EXCEPT !.pc = "sleep", !.left = MaxAttempts,
                                 !.withdraws = proc["refresh"].withdraws]
  <2>1. t \in Proc /\ t.pc = "sleep" /\ InputOK(t)
    <3>1. proc["refresh"].withdraws \in BOOLEAN
      BY <1>2 DEF Proc
    <3> QED BY <3>1, Offers DEF Asleep, Proc, InputOK
  <2>2. /\ proc["refresh"].pc = "schedule"
        /\ proc' = [proc EXCEPT !["refresh"] = Asleep,
                                !["retry"] = IF svc = "running" /\ @.pc = "idle" THEN t ELSE @]
    BY <1>4 DEF Schedule
  <2> HIDE DEF t
  <2>3. /\ proc'["refresh"] = Asleep
        /\ proc'["retry"] = proc["retry"] \/ (svc = "running" /\ proc["retry"].pc = "idle" /\ proc'["retry"] = t)
        /\ proc' \in [Procs -> Proc]
    BY <1>1, <1>2, <2>1, <2>2, Records DEF Procs
  <2>4. UNCHANGED <<offer, caps, op, daemon, dns, svc, changes, faults>>
    BY <1>4 DEF Schedule
  <2>5. TypeOK'
    BY <2>3, <2>4 DEF IInv, TypeOK, daemon, held, Procs
  <2>6. op # NoOp => op.by = "retry" /\ proc'["retry"] = proc["retry"]
    BY <2>1, <2>2, <2>3 DEF IInv, Mutex, Procs
  <2>7. Mutex'
    <3>1. proc'["refresh"].pc = "idle" /\ (proc'["retry"].pc = "busy" => proc["retry"].pc = "busy")
      BY <2>1, <2>3, Records
    <3>2. op' = op /\ (proc["retry"].pc = "busy" => op.by = "retry")
      BY <2>4 DEF IInv, Mutex, Procs
    <3>3. op = NoOp \/ (op.by \in Procs /\ op.step \in Steps /\ proc'[op.by].pc = "busy")
      BY <2>6 DEF IInv, Mutex
    <3> QED BY <3>1, <3>2, <3>3 DEF Mutex, Procs
  <2>8. SameStructure'
    <3>1. NoOp.step = ""
      BY DEF NoOp
    <3> QED BY <2>4, <2>6, <3>1 DEF IInv, SameStructure, Want, daemon, held
  <2>9. GroupOK'
    BY <2>4 DEF IInv, GroupOK, Established, daemon, held
  <2>10. Stopped' /\ NoStray'
    BY <2>2, <2>4 DEF IInv, Stopped, NoStray, ClosedIsSilent, daemon, held, Procs
  <2>11. Inputs'
    <3>1. NoOp.step \notin Steps
      BY DEF NoOp, Steps
    <3>2. \A p \in Procs : InputOK(proc'[p])
      <4>1. InputOK(Asleep) /\ InputOK(proc["retry"])
        BY Records DEF IInv, Inputs, Procs
      <4>2. InputOK(proc'["refresh"])
        BY <2>3, <4>1
      <4>3. InputOK(proc'["retry"])
        BY <2>1, <2>3, <4>1
      <4> QED BY <4>2, <4>3 DEF Procs
    <3> QED BY <2>4, <2>6, <3>1, <3>2 DEF IInv, Inputs, Want, daemon, held
  <2> QED BY <2>5, <2>7, <2>8, <2>9, <2>10, <2>11 DEF IInv
<1>5. CASE RetryWakes
  <2> DEFINE r == proc["retry"]
             t == [r EXCEPT !.pc = "readTXT", !.want.topology = caps.topology]
  <2>1. ~r.withdraws /\ caps # Nothing => t \in Proc /\ t.pc = "readTXT" /\ InputOK(t)
    <3>1. caps \in Publication /\ (caps.topology = 0 => caps = Nothing)
      BY <1>1, Typed, PublicationAssumption DEF TypeOK
    <3> QED BY <1>2, <3>1 DEF Proc, Publication, InputOK
  <2>2. r.withdraws => Entering(r) \in Proc /\ Entering(r).pc # "busy" /\ InputOK(Entering(r))
    <3>1. r.withdraws => r.want.topology = 0
      BY DEF IInv, Inputs, InputOK, Procs
    <3>2. r.withdraws => r.withdraws = (r.want.topology = 0)
      BY <1>2, <3>1 DEF Proc
    <3> QED BY <1>2, <3>2, Records DEF InputOK
  <2>3. Asleep \in Proc /\ Asleep.pc = "idle" /\ InputOK(Asleep)
    BY Records
  <2>4. PICK s : /\ proc' = [proc EXCEPT !["retry"] = s]
                 /\ s = IF r.withdraws THEN Entering(r) ELSE IF caps = Nothing THEN Asleep ELSE t
    BY <1>1, <1>5 DEF RetryWakes, Procs
  <2>5. s \in Proc /\ s.pc # "busy" /\ InputOK(s)
    <3> HIDE DEF t, r
    <3> QED BY <2>1, <2>2, <2>3, <2>4
  <2> QED BY <1>1, <1>5, <2>4, <2>5, Moves DEF RetryWakes, Procs, TypeOK
<1>6. CASE RetryReadsTXT
  <2> DEFINE t == [proc["retry"] EXCEPT !.want.txt = caps.txt, !.want.loc = caps.loc]
             s == Entering(t)
  <2>1. t \in Proc /\ t.withdraws = (t.want.topology = 0)
    <3>1. caps \in Publication
      BY <1>1, Typed
    <3>2. proc["retry"].withdraws = (proc["retry"].want.topology = 0)
      BY <1>2, <1>6 DEF RetryReadsTXT, IInv, Inputs, InputOK, Procs, Proc
    <3> QED BY <1>2, <3>1, <3>2 DEF Proc, Publication
  <2>2. proc' = [proc EXCEPT !["retry"] = s]
    BY <1>1, <1>6 DEF RetryReadsTXT, Procs
  <2> HIDE DEF t
  <2>3. s \in Proc /\ s.pc # "busy" /\ InputOK(s)
    BY <2>1, Records
  <2> HIDE DEF s
  <2> QED BY <1>1, <1>6, <2>2, <2>3, Moves DEF RetryReadsTXT, Procs, TypeOK
<1>7. CASE Call
  <2> DEFINE s == Entering(proc["refresh"])
  <2>1. s \in Proc /\ s.pc # "busy" /\ InputOK(s)
    <3>1. proc["refresh"].withdraws = (proc["refresh"].want.topology = 0)
      BY <1>2, <1>7 DEF Call, IInv, Inputs, InputOK, Procs, Proc
    <3> QED BY <1>2, <3>1, Records
  <2>2. proc' = [proc EXCEPT !["refresh"] = s]
    BY <1>1, <1>7 DEF Call, Procs
  <2> HIDE DEF s
  <2> QED BY <1>1, <1>7, <2>1, <2>2, Moves DEF Call, Procs, TypeOK
<1>8. CASE RetryStops
  BY <1>1, <1>8, Records, Moves DEF RetryStops, Procs, TypeOK
<1>9. ASSUME NEW p \in Procs, Record(p) PROVE IInv'
  <2>1. PICK r \in Proc : r = proc[p]
    BY <1>1, Typed
  <2>2. r.status \in {"", "published", "withdrawn", "degraded"} /\ r.left \in 0..MaxAttempts
    BY DEF Proc
  <2> DEFINE again == [r EXCEPT !.pc = "sleep", !.status = "", !.left = r.left - 1]
             next == [r EXCEPT !.pc = "schedule"]
             failed == r.status = "degraded"
             s == IF failed /\ p = "refresh" THEN next
                  ELSE IF failed /\ r.left > 1 THEN again ELSE Asleep
  <2>3. r.withdraws => r.want.topology = 0
    BY <2>1 DEF IInv, Inputs, InputOK
  <2>4. r.left > 1 => again \in Proc /\ again.pc = "sleep" /\ InputOK(again)
    <3>1. \A n \in 0..MaxAttempts : n > 1 => n - 1 \in 0..MaxAttempts
      BY Offers
    <3>2. r.left > 1 => r.left - 1 \in 0..MaxAttempts
      BY <2>2, <3>1
    <3> QED BY <2>3, <3>2 DEF Proc, InputOK
  <2>5. next \in Proc /\ next.pc = "schedule" /\ InputOK(next)
    BY <2>3 DEF Proc, InputOK
  <2>6. Asleep \in Proc /\ Asleep.pc = "idle" /\ InputOK(Asleep)
    BY Records
  <2>7. s \in Proc /\ s.pc # "busy" /\ InputOK(s)
    <3> HIDE DEF again, next
    <3> QED BY <2>4, <2>5, <2>6
  <2>8. proc' = [proc EXCEPT ![p] = s]
    BY <1>9, <2>1 DEF Record
  <2>9. /\ proc[p].pc = "record" /\ dns' \in {"", "published", "withdrawn", "degraded"}
        /\ UNCHANGED <<offer, caps, op, daemon, svc, changes, faults>>
    BY <1>9, <2>1, <2>2 DEF Record
  <2> HIDE DEF s
  <2> QED BY <1>1, <2>7, <2>8, <2>9, Moves
<1> QED BY <1>3, <1>4, <1>5, <1>6, <1>7, <1>8, <1>9

-----------------------------------------------------------------------------
\* A step of the publisher is one of the call that holds the mutex, and then the
\* service has not been closed.
LEMMA Holder ==
  ASSUME IInv, op.step \in Steps
  PROVE  /\ op.by \in Procs /\ proc[op.by] \in Proc /\ proc[op.by].pc = "busy"
         /\ Want \in Publication
         /\ \A p \in Procs \ {op.by} : proc[p].pc # "busy"
         /\ svc \in {"running", "closing"}
<1>1. op # NoOp
  <2>1. NoOp.step \notin Steps
    BY DEF NoOp, Steps
  <2> QED BY <2>1
<1>2. op.by \in Procs /\ proc[op.by].pc = "busy" /\ \A p \in Procs : proc[p].pc = "busy" => op.by = p
  BY <1>1 DEF IInv, Mutex
<1>3. proc[op.by] \in Proc
  BY <1>2, Typed DEF IInv
<1>4. Want \in Publication
  BY <1>3 DEF Want, Proc
<1>5. svc \in {"running", "closing"}
  BY <1>2 DEF IInv, Stopped, TypeOK
<1> QED BY <1>2, <1>3, <1>4, <1>5

\* A fault is counted within its bound.
LEMMA Faults ==
  ASSUME TypeOK
  PROVE  /\ \A bound \in BOOLEAN : Fails(bound) => faults' \in 0..MaxFaults
         /\ faults < MaxFaults /\ faults' = faults + 1 => faults' \in 0..MaxFaults
         /\ UNCHANGED faults => faults' \in 0..MaxFaults
<1>1. MaxFaults \in Nat /\ faults \in 0..MaxFaults
  BY PublicationAssumption DEF TypeOK
<1>2. \A n \in 0..MaxFaults : n < MaxFaults => n + 1 \in 0..MaxFaults
  BY <1>1
<1>3. faults < MaxFaults => faults + 1 \in 0..MaxFaults
  BY <1>1, <1>2
<1> QED BY <1>1, <1>3 DEF Fails

\* The call ends: the mutex is released and the status recorded next.
LEMMA Returns ==
  ASSUME IInv, op.step \in Steps,
         NEW status \in {"", "published", "withdrawn", "degraded"}, Return(status),
         current' \in Publication, torn' \in BOOLEAN, avahi' \in Group,
         faults' \in 0..MaxFaults, UNCHANGED rest,
         orphans' \subseteq Publication \ {Nothing}, bus' \in BOOLEAN,
         current' = Nothing => ~avahi'.object,
         current' # Nothing => current'.topology # 0,
         (current # Nothing /\ Established)' =>
           /\ avahi.shows'.topology = current'.topology
           /\ (avahi.shows = current \/ torn)'
  PROVE  IInv'
<1> DEFINE r == proc[op.by]
           s == Returned(r, status)
<1>1. op.by \in Procs /\ r \in Proc /\ svc \in {"running", "closing"}
  BY Holder
<1>2. s \in Proc /\ s.pc = "record" /\ InputOK(s)
  BY <1>1, Offers DEF Proc, Returned, InputOK
<1>3. proc \in [Procs -> Proc]
  BY Typed DEF IInv
<1>4. proc' = [proc EXCEPT ![op.by] = s] /\ op' = NoOp
  BY <1>1, <1>3 DEF Return
<1> HIDE DEF s, r
<1>5. /\ proc' \in [Procs -> Proc] /\ proc'[op.by] = s
      /\ \A p \in Procs \ {op.by} : proc'[p] = proc[p]
  BY <1>1, <1>2, <1>3, <1>4
<1>6. NoOp.step = "" /\ NoOp.by = ""
  BY DEF NoOp
<1>7. TypeOK'
  <2>1. proc' \in [{"refresh", "retry"} -> Proc]
    BY <1>5 DEF Procs
  <2>2. op' \in [by : {"", "refresh", "retry"},
                  step : Steps \cup {""}]
    BY <1>4 DEF NoOp
  <2> QED BY <2>1, <2>2 DEF IInv, TypeOK, rest, Steps
<1>8. Mutex'
  BY <1>2, <1>4, <1>5, Holder DEF Mutex
<1>9. SameStructure'
  BY <1>4, <1>6 DEF SameStructure
<1>10. GroupOK'
  BY DEF GroupOK
<1>11. Stopped' /\ NoStray'
  BY <1>1 DEF Stopped, NoStray, ClosedIsSilent, rest
<1>12. Inputs'
  <2>1. op'.step \notin Steps
    BY <1>4, <1>6 DEF Steps
  <2> QED BY <1>2, <1>5, <2>1 DEF IInv, Inputs
<1> QED BY <1>7, <1>8, <1>9, <1>10, <1>11, <1>12 DEF IInv

\* The call goes on with its next D-Bus call.  What it wants stays the same.
LEMMA GoesOn ==
  ASSUME IInv, op.step \in Steps, NEW step \in Steps, GoOn(step),
         step \in {"connect", "txt", "rollback", "discard"} =>
           \/ current' = Nothing
           \/ op.step \in {"connect", "txt", "rollback"} /\ UNCHANGED current,
         step \in {"create", "release"} => current' = Nothing,
         current' \in Publication, torn' \in BOOLEAN, avahi' \in Group,
         faults' \in 0..MaxFaults, UNCHANGED rest,
         orphans' \subseteq Publication \ {Nothing}, bus' \in BOOLEAN,
         current' = Nothing /\ step # "release" => ~avahi'.object,
         current' # Nothing => current'.topology # 0, Want.topology # 0,
         (current # Nothing /\ Established)' =>
           /\ avahi.shows'.topology = current'.topology
           /\ (avahi.shows = current \/ torn)' \/ step \in {"rollback", "discard"}
  PROVE  IInv'
<1>1. op.by \in Procs /\ proc[op.by].pc = "busy" /\ svc \in {"running", "closing"}
  BY Holder
<1>2. /\ op' \in [by : {"", "refresh", "retry"},
                   step : Steps \cup {""}]
      /\ op'.by = op.by /\ op'.step = step /\ proc' = proc
  BY DEF GoOn, IInv, TypeOK, Steps
<1>3. TypeOK'
  BY <1>2 DEF IInv, TypeOK, rest, Steps
<1>4. Mutex'
  BY <1>1, <1>2 DEF IInv, Mutex
<1>5. SameStructure'
  BY <1>2 DEF IInv, SameStructure, Want
<1>6. GroupOK'
  BY <1>2 DEF GroupOK
<1>7. Stopped' /\ NoStray'
  BY <1>1, <1>2 DEF Stopped, NoStray, ClosedIsSilent, rest
<1>8. Inputs'
  BY <1>2 DEF IInv, Inputs, Want
<1> QED BY <1>3, <1>4, <1>5, <1>6, <1>7, <1>8 DEF IInv

\* The mutex is taken, or there is nothing to withdraw, or no record can be built.
LEMMA BeginStep ==
  ASSUME IInv, NEW p \in Procs, Begin(p)
  PROVE  IInv'
<1>1. proc \in [Procs -> Proc] /\ proc[p] \in Proc /\ TypeOK /\ current \in Publication
  BY Typed DEF IInv
<1> DEFINE pinned == ~proc[p].withdraws /\ current # Nothing
           w == IF pinned THEN [proc[p].want EXCEPT !.loc = current.loc] ELSE proc[p].want
           ends == IF proc[p].withdraws /\ current = Nothing THEN "withdrawn"
                   ELSE IF pinned /\ ~Buildable(w) THEN "degraded" ELSE ""
           step == IF current = Nothing \/ w.topology = current.topology THEN "connect" ELSE "free"
<1>2. /\ proc[p].pc = "lock" /\ op = NoOp
      /\ UNCHANGED <<offer, caps, daemon, dns, svc, changes, faults>>
  BY DEF Begin, rest
<1>3. w \in Publication /\ w.topology = proc[p].want.topology
  <2>1. proc[p].want \in Publication
    BY <1>1 DEF Proc
  <2> QED BY <1>1, <2>1 DEF Publication
<1>4. ends \in {"", "withdrawn", "degraded"} /\ step \in {"connect", "free"}
  OBVIOUS
<1>5. step = "connect" /\ current # Nothing => w.topology = current.topology
  OBVIOUS
<1>6. ends = "" /\ proc[p].withdraws => current # Nothing
  OBVIOUS
<1>7. IF ends # ""
      THEN proc' = [proc EXCEPT ![p] = Returned(@, ends)] /\ UNCHANGED op
      ELSE /\ proc' = [proc EXCEPT ![p].pc = "busy", ![p].want = w]
           /\ op' = [by |-> p, step |-> step]
  BY DEF Begin
<1> HIDE DEF pinned, w, ends, step
<1>8. CASE ends # ""
  <2> DEFINE s == Returned(proc[p], ends)
  <2>1. s \in Proc /\ s.pc = "record" /\ InputOK(s)
    BY <1>1, <1>4, Offers DEF Proc, Returned, InputOK
  <2>2. proc' = [proc EXCEPT ![p] = s] /\ op' = op
    BY <1>1, <1>7, <1>8
  <2> HIDE DEF s
  <2> QED BY <1>1, <1>2, <2>1, <2>2, Moves DEF TypeOK
<1>9. CASE ends = ""
  <2> DEFINE s == [proc[p] EXCEPT !.pc = "busy", !.want = w]
  <2>1. s \in Proc /\ s.pc = "busy" /\ s.want = w /\ InputOK(s)
    BY <1>1, <1>2, <1>3 DEF Proc, IInv, Inputs, InputOK
  <2>2. proc' = [proc EXCEPT ![p] = s] /\ op' = [by |-> p, step |-> step]
    BY <1>1, <1>7, <1>9
  <2> HIDE DEF s
  <2>3. op'.by = p /\ op'.step = step
    BY <2>2
  <2>4. proc' \in [Procs -> Proc] /\ proc'[p] = s /\ \A o \in Procs \ {p} : proc'[o] = proc[o]
    BY <1>1, <2>1, <2>2
  <2>5. \A o \in Procs : proc[o].pc # "busy"
    <3>1. NoOp.by \notin Procs
      BY DEF NoOp, Procs
    <3> QED BY <1>2, <3>1 DEF IInv, Mutex
  <2>6. TypeOK'
    <3>1. op' \in [by : {"", "refresh", "retry"}, step : Steps \cup {""}]
      BY <1>4, <2>2 DEF Procs, Steps
    <3> QED BY <1>1, <1>2, <2>4, <3>1 DEF TypeOK, daemon, held, Procs, Steps
  <2>7. Mutex'
    BY <1>4, <2>1, <2>3, <2>4, <2>5 DEF Mutex, Steps
  <2>8. SameStructure'
    BY <1>2, <1>4, <1>5, <2>1, <2>3, <2>4 DEF SameStructure, Want, daemon, held
  <2>9. GroupOK' /\ NoStray'
    <3>1. NoOp.step = ""
      BY DEF NoOp
    <3> QED BY <1>2, <3>1 DEF IInv, GroupOK, NoStray, Established, daemon, held
  <2>10. Stopped'
    BY <1>2, <2>1, <2>4 DEF IInv, Stopped, ClosedIsSilent, daemon, held
  <2>11. Inputs'
    <3>1. InputOK(proc[p]) /\ (current # Nothing => current.topology # 0)
      BY DEF IInv, Inputs
    <3>2. step # "free" => w.topology # 0
      BY <1>1, <1>2, <1>3, <1>4, <1>5, <1>9, <1>6, <3>1 DEF InputOK, Proc
    <3> QED BY <1>2, <1>4, <2>1, <2>3, <2>4, <3>2 DEF IInv, Inputs, Want, daemon, held
  <2> QED BY <2>6, <2>7, <2>8, <2>9, <2>10, <2>11 DEF IInv
<1> QED BY <1>8, <1>9

\* What a D-Bus call may leave at the daemon.
LEMMA Groups ==
  ASSUME IInv
  PROVE  /\ NoGroup \in Group /\ ~NoGroup.object
         /\ avahi \in Group /\ current \in Publication /\ torn \in BOOLEAN
         /\ Nothing \in Publication
         /\ \A w \in Publication :
              /\ [avahi EXCEPT !.shows = w] \in Group
              /\ [avahi EXCEPT !.shows = w].shows = w
              /\ [avahi EXCEPT !.shows = w].object = avahi.object
              /\ [object |-> TRUE, shows |-> w] \in Group
         /\ faults \in 0..MaxFaults
         /\ current # Nothing => current.topology # 0
         /\ Established /\ op.step # "release" => current # Nothing
         /\ op.step \in Steps \ {"free"} => Want.topology # 0
         /\ Nothing.topology = 0
         /\ UNCHANGED line => orphans' \subseteq Publication \ {Nothing} /\ bus' \in BOOLEAN
<1>1. avahi \in Group /\ current \in Publication /\ torn \in BOOLEAN /\ faults \in 0..MaxFaults
  BY DEF IInv, TypeOK
<1>2. NoGroup \in Group /\ ~NoGroup.object /\ Nothing \in Publication
  BY Offers DEF NoGroup, Group
<1>3. ASSUME NEW w \in Publication
      PROVE  /\ [avahi EXCEPT !.shows = w] \in Group
             /\ [avahi EXCEPT !.shows = w].shows = w
             /\ [avahi EXCEPT !.shows = w].object = avahi.object
             /\ [object |-> TRUE, shows |-> w] \in Group
  BY <1>1 DEF Group
<1>4. UNCHANGED line => orphans' \subseteq Publication \ {Nothing} /\ bus' \in BOOLEAN
  BY DEF IInv, TypeOK, line
<1>5. /\ current # Nothing => current.topology # 0
      /\ Established /\ op.step # "release" => current # Nothing
      /\ op.step \in Steps \ {"free"} => Want.topology # 0
      /\ Nothing.topology = 0
  BY Offers DEF IInv, Inputs, NoStray, Established
<1> QED BY <1>1, <1>2, <1>3, <1>4, <1>5

\* A group that is as it was, or gone, is still one that may be kept.
LEMMA Kept ==
  ASSUME IInv, avahi' \in {avahi, NoGroup}, UNCHANGED current, torn' = torn \/ torn' = TRUE
  PROVE  /\ (current # Nothing /\ Established)' =>
              /\ current # Nothing /\ Established /\ avahi' = avahi
              /\ avahi.shows'.topology = current'.topology
              /\ (avahi.shows = current \/ torn)' \/ op.step \in {"rollback", "discard"}
         /\ current' = Nothing /\ op.step # "release" => ~avahi'.object
<1>1. ~NoGroup.object
  BY Groups
<1> QED BY <1>1 DEF IInv, GroupOK, NoStray, Established

\* Release of the group before a rebuild or a withdrawal.
LEMMA FreeStep ==
  ASSUME IInv, Free
  PROVE  IInv'
<1>1. op.step = "free" /\ op.step \in Steps /\ UNCHANGED <<line, rest>> /\ TypeOK
  BY DEF Free, Steps, IInv
<1>2. CASE /\ avahi' = NoGroup /\ Forget /\ UNCHANGED faults
           /\ IF proc[op.by].withdraws THEN Return("withdrawn") ELSE GoOn("connect")
  <2>1. current' = Nothing /\ torn' = FALSE
    BY <1>2 DEF Forget, Hold
  <2>2. CASE Return("withdrawn")
    BY <1>1, <1>2, <2>1, <2>2, Returns, Groups
  <2>3. CASE GoOn("connect") /\ ~proc[op.by].withdraws
    <3>1. Want.topology # 0
      BY <1>1, Holder, <2>3 DEF IInv, Inputs, InputOK, Want
    <3> QED BY <1>1, <1>2, <2>1, <2>3, <3>1, GoesOn, Groups DEF Steps
  <2> QED BY <1>2, <2>2, <2>3
<1>3. CASE Fails(TRUE) /\ avahi' \in {avahi, NoGroup} /\ UNCHANGED held /\ Return("degraded")
  <2>1. UNCHANGED <<current, torn>>
    BY <1>3 DEF held
  <2>2. faults' \in 0..MaxFaults
    BY <1>1, <1>3, Faults
  <2>3. avahi' \in Group /\ current' \in Publication /\ torn' \in BOOLEAN
    BY <1>3, <2>1, Groups
  <2> QED BY <1>1, <1>3, <2>1, <2>2, <2>3, Kept, Returns, Groups
<1> QED BY <1>2, <1>3 DEF Free

\* The connection to the bus is up again, or it is not.
LEMMA ConnectStep ==
  ASSUME IInv, Connect
  PROVE  IInv'
<1>1. /\ op.step = "connect" /\ op.step \in Steps /\ UNCHANGED rest /\ TypeOK
      /\ UNCHANGED <<current, torn, avahi, orphans>>
  BY DEF Connect, Steps, IInv, held
<1>2. orphans' \subseteq Publication \ {Nothing}
  BY <1>1 DEF TypeOK
<1>3. ASSUME NEW step \in {"create", "txt"}, step = IF current = Nothing THEN "create" ELSE "txt",
             bus' = TRUE, UNCHANGED faults, GoOn(step)
      PROVE  IInv'
  BY <1>1, <1>2, <1>3, Kept, GoesOn, Groups DEF Steps
<1>4. CASE bus' = TRUE /\ UNCHANGED faults /\ GoOn(IF current = Nothing THEN "create" ELSE "txt")
  BY <1>3, <1>4
<1>5. CASE faults < MaxFaults /\ faults' = faults + 1 /\ Return("degraded") /\ UNCHANGED bus
  <2>1. bus' \in BOOLEAN /\ faults' \in 0..MaxFaults
    BY <1>1, <1>5, Faults DEF TypeOK
  <2> QED BY <1>1, <1>2, <1>5, <2>1, Kept, Returns, Groups
<1> QED BY <1>4, <1>5 DEF Connect

\* A new group.
LEMMA CreateStep ==
  ASSUME IInv, Create
  PROVE  IInv'
<1>1. op.step = "create" /\ op.step \in Steps /\ UNCHANGED <<line, rest>> /\ TypeOK
  BY DEF Create, Steps, IInv
<1>2. PICK w \in Publication : w = Want /\ w.topology # 0
  BY <1>1, Holder, Groups DEF Steps
<1>3. CASE /\ avahi' = [object |-> TRUE, shows |-> Want] /\ Hold(Want)
           /\ Return("published") /\ UNCHANGED faults
  <2>1. avahi' = [object |-> TRUE, shows |-> w] /\ current' = w /\ torn' = FALSE /\ faults' = faults
    BY <1>2, <1>3 DEF Hold
  <2>2. avahi' \in Group /\ avahi.shows' = w
    BY <2>1, Groups
  <2> QED BY <1>1, <1>2, <1>3, <2>1, <2>2, Returns, Groups
<1>4. CASE Fails(TRUE) /\ Return("degraded") /\ UNCHANGED <<held, avahi>>
  <2>1. UNCHANGED <<current, torn, avahi>>
    BY <1>4 DEF held
  <2>2. faults' \in 0..MaxFaults
    BY <1>1, <1>4, Faults
  <2> QED BY <1>1, <1>4, <2>1, <2>2, Kept, Returns, Groups
<1>5. CASE /\ Fails(TRUE) /\ GoOn("release") /\ UNCHANGED held
           /\ avahi' = [object |-> TRUE, shows |-> Want]
  <2>1. UNCHANGED <<current, torn>> /\ current = Nothing
    BY <1>1, <1>5 DEF held, IInv, SameStructure
  <2>2. faults' \in 0..MaxFaults
    BY <1>1, <1>5, Faults
  <2>3. avahi' \in Group
    BY <1>2, <1>5, Groups
  <2> QED BY <1>1, <1>5, <2>1, <2>2, <2>3, GoesOn, Groups DEF Steps
<1> QED BY <1>3, <1>4, <1>5 DEF Create

\* The release of a group whose creation failed.
LEMMA ReleaseStep ==
  ASSUME IInv, Release
  PROVE  IInv'
<1>1. /\ op.step = "release" /\ op.step \in Steps /\ UNCHANGED rest /\ TypeOK
      /\ UNCHANGED <<current, torn, bus>> /\ avahi' = NoGroup /\ Return("degraded")
  BY DEF Release, Steps, IInv, held
<1>2. orphans' \subseteq Publication \ {Nothing}
  <2>1. orphans \subseteq Publication \ {Nothing} /\ avahi.shows \in Publication
    BY <1>1 DEF TypeOK, Group
  <2>2. orphans' = orphans \/ orphans' = orphans \cup ({avahi.shows} \ {Nothing})
    BY DEF Release
  <2> QED BY <2>1, <2>2
<1>3. faults' \in 0..MaxFaults /\ bus' \in BOOLEAN
  <2>1. UNCHANGED faults \/ Fails(FALSE)
    BY DEF Release
  <2> QED BY <1>1, <2>1, Faults DEF TypeOK
<1>4. ~Established' /\ ~avahi'.object
  BY <1>1, Groups DEF Established
<1> QED BY <1>1, <1>2, <1>3, <1>4, Returns, Groups

\* New TXT data for the group as it is.
LEMMA UpdateStep ==
  ASSUME IInv, UpdateTXT
  PROVE  IInv'
<1>1. op.step = "txt" /\ op.step \in Steps /\ UNCHANGED <<line, rest>> /\ TypeOK
  BY DEF UpdateTXT, Steps, IInv
<1>2. PICK w \in Publication : w = Want /\ w.topology # 0
  BY <1>1, Holder, Groups DEF Steps
<1>3. current # Nothing => w.topology = current.topology
  BY <1>1, <1>2 DEF IInv, SameStructure
<1>4. CASE /\ Established /\ avahi' = [avahi EXCEPT !.shows = Want] /\ Hold(Want)
           /\ Return("published") /\ UNCHANGED faults
  <2>1. avahi' = [avahi EXCEPT !.shows = w] /\ current' = w /\ torn' = FALSE /\ faults' = faults
    BY <1>2, <1>4 DEF Hold
  <2>2. avahi' \in Group /\ avahi.shows' = w
    BY <2>1, Groups
  <2> QED BY <1>1, <1>2, <1>4, <2>1, <2>2, Returns, Groups
<1>5. CASE Stale /\ Forget /\ Return("degraded") /\ UNCHANGED <<avahi, faults>>
  <2>1. current' = Nothing /\ torn' = FALSE /\ avahi' = avahi
    BY <1>5 DEF Forget, Hold
  <2> QED BY <1>1, <1>5, <2>1, Returns, Groups DEF Stale
<1>6. CASE /\ Fails(TRUE) \/ (avahi.object /\ ~Established /\ UNCHANGED faults)
           /\ avahi' \in {avahi} \cup IF Established THEN {[avahi EXCEPT !.shows = Want]} ELSE {}
           /\ GoOn("rollback") /\ UNCHANGED held
  <2>1. UNCHANGED <<current, torn>> /\ faults' \in 0..MaxFaults
    BY <1>1, <1>6, Faults DEF held
  <2>2. CASE avahi' = avahi
    BY <1>1, <1>6, <2>1, <2>2, Kept, GoesOn, Groups DEF Steps
  <2>3. CASE Established /\ avahi' = [avahi EXCEPT !.shows = w]
    <3>1. avahi' \in Group /\ avahi.shows' = w
      BY <2>3, Groups
    <3> QED BY <1>1, <1>3, <1>6, <2>1, <2>3, <3>1, GoesOn, Groups DEF Steps
  <2> QED BY <1>2, <1>6, <2>2, <2>3
<1>7. CASE Fails(FALSE) /\ GoOn("check") /\ UNCHANGED <<held, avahi>>
  <2>1. UNCHANGED <<current, torn, avahi>>
    BY <1>7 DEF held
  <2>2. faults' \in 0..MaxFaults
    BY <1>1, <1>7, Faults
  <2> QED BY <1>1, <1>7, <2>1, <2>2, Kept, GoesOn, Groups DEF Steps
<1> QED BY <1>4, <1>5, <1>6, <1>7 DEF UpdateTXT

\* The previous TXT data again.
LEMMA RollbackStep ==
  ASSUME IInv, Rollback
  PROVE  IInv'
<1>1. op.step = "rollback" /\ op.step \in Steps /\ UNCHANGED <<line, rest>> /\ TypeOK
  BY DEF Rollback, Steps, IInv
<1>2. CASE /\ Established /\ avahi' = [avahi EXCEPT !.shows = current]
           /\ GoOn("check") /\ UNCHANGED <<held, faults>>
  <2>1. UNCHANGED <<current, torn>> /\ faults' = faults
    BY <1>2 DEF held
  <2>2. avahi' \in Group /\ avahi.shows' = current
    BY <1>2, Groups
  <2> QED BY <1>1, <1>2, <2>1, <2>2, GoesOn, Groups DEF Steps
<1>3. CASE Stale /\ Forget /\ Return("degraded") /\ UNCHANGED <<avahi, faults>>
  <2>1. current' = Nothing /\ torn' = FALSE /\ avahi' = avahi
    BY <1>3 DEF Forget, Hold
  <2> QED BY <1>1, <1>3, <2>1, Returns, Groups DEF Stale
<1>4. CASE /\ Fails(FALSE) \/ (avahi.object /\ ~Established /\ UNCHANGED faults)
           /\ avahi' \in {avahi} \cup IF Established THEN {[avahi EXCEPT !.shows = current]} ELSE {}
           /\ GoOn("discard") /\ UNCHANGED held
  <2>1. UNCHANGED <<current, torn>> /\ faults' \in 0..MaxFaults
    BY <1>1, <1>4, Faults DEF held
  <2>2. CASE avahi' = avahi
    BY <1>1, <1>4, <2>1, <2>2, Kept, GoesOn, Groups DEF Steps
  <2>3. CASE Established /\ avahi' = [avahi EXCEPT !.shows = current]
    <3>1. avahi' \in Group /\ avahi.shows' = current
      BY <2>3, Groups
    <3> QED BY <1>1, <1>4, <2>1, <2>3, <3>1, GoesOn, Groups DEF Steps
  <2> QED BY <1>4, <2>2, <2>3
<1> QED BY <1>2, <1>3, <1>4 DEF Rollback

\* The release of a group that could not be restored.
LEMMA DiscardStep ==
  ASSUME IInv, Discard
  PROVE  IInv'
<1>1. op.step = "discard" /\ op.step \in Steps /\ UNCHANGED <<line, rest>> /\ TypeOK
  BY DEF Discard, Steps, IInv
<1>2. CASE avahi' = NoGroup /\ Forget /\ UNCHANGED faults /\ Return("degraded")
  <2>1. current' = Nothing /\ torn' = FALSE
    BY <1>2 DEF Forget, Hold
  <2> QED BY <1>1, <1>2, <2>1, Returns, Groups
<1>3. CASE /\ Fails(FALSE) /\ avahi' \in {avahi, NoGroup}
           /\ GoOn("check") /\ torn' = TRUE /\ UNCHANGED current
  <2>1. faults' \in 0..MaxFaults
    BY <1>1, <1>3, Faults
  <2>2. avahi' \in Group /\ current' \in Publication
    BY <1>3, Groups
  <2> QED BY <1>1, <1>3, <2>1, <2>2, Kept, GoesOn, Groups DEF Steps
<1> QED BY <1>2, <1>3 DEF Discard

\* The daemon's word on the group after a failed update.
LEMMA CheckStep ==
  ASSUME IInv, Check
  PROVE  IInv'
<1>1. op.step = "check" /\ op.step \in Steps /\ UNCHANGED <<line, rest>> /\ avahi' = avahi /\ TypeOK
  BY DEF Check, Steps, IInv
<1>2. CASE Return("degraded") /\ UNCHANGED <<held, faults>>
  <2>1. UNCHANGED <<current, torn>> /\ faults' = faults
    BY <1>2 DEF held
  <2> QED BY <1>1, <1>2, <2>1, Kept, Returns, Groups
<1>3. CASE Stale /\ Forget /\ Return("degraded") /\ UNCHANGED faults
  <2>1. current' = Nothing /\ torn' = FALSE /\ ~avahi'.object
    BY <1>1, <1>3 DEF Forget, Hold, Stale
  <2> QED BY <1>1, <1>3, <2>1, Returns, Groups
<1>4. CASE /\ Fails(FALSE) \/ (avahi.object /\ ~Established /\ UNCHANGED faults)
           /\ GoOn("cleanup") /\ UNCHANGED held
  <2>1. UNCHANGED <<current, torn>> /\ faults' \in 0..MaxFaults
    BY <1>1, <1>4, Faults DEF held
  <2> QED BY <1>1, <1>4, <2>1, Kept, GoesOn, Groups DEF Steps
<1> QED BY <1>2, <1>3, <1>4 DEF Check

\* The release of a group the daemon does not call established.
LEMMA CleanupStep ==
  ASSUME IInv, Cleanup
  PROVE  IInv'
<1>1. op.step = "cleanup" /\ op.step \in Steps /\ UNCHANGED <<line, rest>> /\ TypeOK /\ Return("degraded")
  BY DEF Cleanup, Steps, IInv
<1>2. CASE avahi' = NoGroup /\ Forget /\ UNCHANGED faults
  <2>1. current' = Nothing /\ torn' = FALSE
    BY <1>2 DEF Forget, Hold
  <2> QED BY <1>1, <1>2, <2>1, Returns, Groups
<1>3. CASE Fails(FALSE) /\ avahi' \in {avahi, NoGroup} /\ UNCHANGED held
  <2>1. UNCHANGED <<current, torn>>
    BY <1>3 DEF held
  <2>2. faults' \in 0..MaxFaults
    BY <1>1, <1>3, Faults
  <2>3. avahi' \in Group /\ current' \in Publication /\ torn' \in BOOLEAN
    BY <1>3, <2>1, Groups
  <2> QED BY <1>1, <1>3, <2>1, <2>2, <2>3, Kept, Returns, Groups
<1> QED BY <1>2, <1>3 DEF Cleanup

-----------------------------------------------------------------------------
\* Close waits for both goroutines, so that nobody holds the mutex when it ends.
LEMMA CloseSteps ==
  ASSUME IInv, CloseBegins \/ CloseEnds
  PROVE  IInv'
<1>1. CASE CloseBegins
  <2>1. /\ svc' = "closing"
        /\ UNCHANGED <<offer, caps, proc, op, current, torn, avahi, orphans, bus, dns, changes, faults>>
    BY <1>1 DEF CloseBegins, daemon, held
  <2>2. TypeOK'
    BY <2>1 DEF IInv, TypeOK
  <2> QED BY <2>1, <2>2 DEF IInv, Mutex, SameStructure, Want, GroupOK, Established, NoStray, Inputs,
                            Stopped, ClosedIsSilent
<1>2. CASE CloseEnds
  <2>1. /\ UNCHANGED <<offer, caps, proc, op, orphans, bus, dns, changes>>
        /\ \A p \in Procs : proc[p].pc = "idle"
    <3>1. DOMAIN proc = Procs
      BY DEF IInv, TypeOK, Procs
    <3> QED BY <1>2, <3>1 DEF CloseEnds, line
  <2>2. op = NoOp
    BY <2>1 DEF IInv, Mutex
  <2>3. SameStructure' /\ Mutex'
    <3>1. NoOp.step = ""
      BY DEF NoOp
    <3> QED BY <2>1, <2>2, <3>1 DEF IInv, SameStructure, Mutex
  <2>4. op.step \notin Steps /\ op.step # "release"
    BY <2>2 DEF NoOp, Steps
  <2>5. CASE svc' = "closed" /\ current = Nothing /\ UNCHANGED <<held, avahi, faults>>
    <3>1. UNCHANGED <<current, torn, avahi, faults>> /\ ~avahi.object
      BY <2>4, <2>5 DEF held, IInv, NoStray
    <3>2. TypeOK'
      BY <2>1, <2>5, <3>1 DEF IInv, TypeOK
    <3>3. GroupOK' /\ Stopped' /\ NoStray'
      BY <2>1, <2>5, <3>1 DEF GroupOK, Stopped, ClosedIsSilent, NoStray
    <3>4. Inputs'
      BY <2>1, <2>4, <3>1 DEF IInv, Inputs
    <3> QED BY <2>3, <3>2, <3>3, <3>4 DEF IInv
  <2>6. CASE svc' = "closed" /\ avahi' = NoGroup /\ Forget /\ UNCHANGED faults
    <3>1. current' = Nothing /\ torn' = FALSE /\ avahi' \in Group /\ ~avahi'.object /\ current' \in Publication
      BY <2>6, Groups DEF Forget, Hold
    <3>2. TypeOK'
      BY <2>1, <2>6, <3>1 DEF IInv, TypeOK
    <3>3. GroupOK' /\ Stopped' /\ NoStray'
      BY <2>1, <3>1 DEF GroupOK, Stopped, ClosedIsSilent, NoStray
    <3>4. Inputs'
      BY <2>1, <2>4, <3>1 DEF IInv, Inputs
    <3> QED BY <2>3, <3>2, <3>3, <3>4 DEF IInv
  <2>7. CASE /\ svc' = "failed" /\ Fails(FALSE)
             /\ avahi' \in {avahi, NoGroup} /\ UNCHANGED held
    <3>1. UNCHANGED <<current, torn>> /\ avahi' \in Group /\ faults' \in 0..MaxFaults
      BY <2>7, Groups, Faults DEF held, IInv
    <3>2. TypeOK'
      BY <2>1, <2>7, <3>1 DEF IInv, TypeOK
    <3>3. GroupOK'
      BY <2>1, <2>7, <3>1, Kept DEF GroupOK
    <3>4. Stopped' /\ NoStray'
      BY <2>1, <2>7, <2>4, <3>1, Kept DEF Stopped, ClosedIsSilent, NoStray
    <3>5. Inputs'
      BY <2>1, <2>4, <3>1 DEF IInv, Inputs
    <3> QED BY <2>3, <3>2, <3>3, <3>4, <3>5 DEF IInv
  <2> QED BY <1>2, <2>6, <2>7, <2>5 DEF CloseEnds
<1> QED BY <1>1, <1>2

\* The printer changes, the daemon restarts or gives up the name, the bus is lost.
LEMMA OutsideSteps ==
  ASSUME IInv, PrinterChanges \/ AvahiRestarts \/ AvahiCollides \/ BusLost
  PROVE  IInv'
<1>1. CASE PrinterChanges
  <2>1. changes' \in 0..MaxChanges
    <3>1. MaxChanges \in Nat /\ changes \in 0..MaxChanges
      BY PublicationAssumption DEF IInv, TypeOK
    <3>2. \A n \in 0..MaxChanges : n < MaxChanges => n + 1 \in 0..MaxChanges
      BY <3>1
    <3> QED BY <1>1, <3>1, <3>2 DEF PrinterChanges
  <2>2. UNCHANGED <<caps, proc, op, current, torn, avahi, orphans, bus, dns, svc, faults>> /\ offer' \in Snapshots
    BY <1>1 DEF PrinterChanges, daemon, held
  <2>3. TypeOK'
    BY <2>1, <2>2 DEF IInv, TypeOK
  <2> QED BY <2>2, <2>3 DEF IInv, Mutex, SameStructure, Want, GroupOK, Established, NoStray, Inputs,
                            Stopped, ClosedIsSilent
<1>2. CASE AvahiRestarts \/ AvahiCollides \/ BusLost
  <2>1. /\ UNCHANGED <<offer, caps, proc, op, current, torn, dns, svc, changes>>
        /\ faults < MaxFaults /\ faults' = faults + 1
        /\ svc \in {"running", "closing"}
        /\ avahi' = NoGroup \/ avahi' = [avahi EXCEPT !.shows = Nothing]
        /\ bus' \in {bus, FALSE} /\ orphans' \in {orphans, {}}
    BY <1>2 DEF AvahiRestarts, AvahiCollides, BusLost, held, line
  <2>2. faults' \in 0..MaxFaults
    BY <2>1, Faults DEF IInv
  <2>3. avahi' \in Group /\ ~Established' /\ (avahi'.object => avahi.object)
    <3>1. CASE avahi' = NoGroup
      BY <3>1, Groups DEF Established
    <3>2. CASE avahi' = [avahi EXCEPT !.shows = Nothing]
      BY <3>2, Groups DEF Established
    <3> QED BY <2>1, <3>1, <3>2
  <2>4. TypeOK'
    BY <2>1, <2>2, <2>3 DEF IInv, TypeOK
  <2>5. Mutex' /\ SameStructure' /\ Stopped'
    BY <2>1 DEF IInv, Mutex, SameStructure, Want, Stopped, ClosedIsSilent
  <2>6. NoStray' /\ Inputs'
    BY <2>1, <2>3 DEF IInv, NoStray, Inputs, Want
  <2> QED BY <2>3, <2>4, <2>5, <2>6 DEF IInv, GroupOK
<1> QED BY <1>1, <1>2

-----------------------------------------------------------------------------
\* At the start nothing is announced and nobody runs.
LEMMA Initially == Init => IInv
<1> SUFFICES ASSUME Init PROVE IInv
  OBVIOUS
<1>1. NoOp.step = "" /\ NoOp.by = "" /\ ~NoGroup.object /\ Asleep.pc = "idle"
  BY DEF NoOp, NoGroup, Asleep
<1>2. \A p \in Procs : proc[p] = Asleep
  BY DEF Init, Procs
<1>3. TypeOK
  <2>1. proc \in [{"refresh", "retry"} -> Proc]
    BY Records DEF Init
  <2>2. op \in [by : {"", "refresh", "retry"},
                 step : Steps \cup {""}]
    BY DEF Init, NoOp
  <2>3. avahi \in Group /\ current \in Publication /\ orphans \subseteq Publication \ {Nothing} /\ bus \in BOOLEAN
    BY Offers DEF Init, NoGroup, Group
  <2>4. changes \in 0..MaxChanges /\ faults \in 0..MaxFaults
    <3>1. MaxChanges \in Nat /\ MaxFaults \in Nat
      BY PublicationAssumption
    <3>2. changes = 0 /\ faults = 0
      BY DEF Init
    <3> QED BY <3>1, <3>2
  <2>5. {offer, caps} \subseteq Snapshots \cup {Nothing} /\ torn \in BOOLEAN
    BY DEF Init
  <2>6. dns \in {"", "published", "withdrawn", "degraded"} /\ svc \in {"running", "closing", "closed", "failed"}
    BY DEF Init
  <2> QED BY <2>1, <2>2, <2>3, <2>4, <2>5, <2>6 DEF TypeOK, Steps
<1>4. Inputs
  BY <1>1, <1>2, Records DEF Init, Inputs, Steps
<1> QED BY <1>1, <1>2, <1>3, <1>4 DEF Init, IInv, Mutex, SameStructure, GroupOK, Established, NoStray,
                                      Stopped, ClosedIsSilent

\* Every step keeps the invariant.
LEMMA Inductive == IInv /\ [Next]_vars => IInv'
<1> SUFFICES ASSUME IInv, [Next]_vars PROVE IInv'
  OBVIOUS
<1>1. CASE UNCHANGED vars
  <2>1. TypeOK'
    BY <1>1 DEF vars, IInv, TypeOK
  <2>2. Mutex' /\ SameStructure'
    BY <1>1 DEF vars, IInv, Mutex, SameStructure, Want
  <2>3. GroupOK' /\ Stopped' /\ NoStray' /\ Inputs'
    BY <1>1 DEF vars, IInv, GroupOK, Established, Stopped, ClosedIsSilent, NoStray, Inputs, Want
  <2> QED BY <2>1, <2>2, <2>3 DEF IInv
<1>2. CASE RefreshStep \/ RetryStep
  <2>1. \/ Refresh \/ Call \/ Schedule \/ RetryWakes \/ RetryReadsTXT \/ RetryStops
        \/ \E p \in Procs : Record(p) \/ Begin(p)
    BY <1>2 DEF RefreshStep, RetryStep, Procs
  <2> QED BY <2>1, GoroutineMoves, BeginStep
<1>3. CASE PublisherStep
  BY <1>3, FreeStep, ConnectStep, CreateStep, ReleaseStep, UpdateStep, RollbackStep, DiscardStep,
     CheckStep, CleanupStep DEF PublisherStep
<1>4. CASE CloseBegins \/ CloseEnds
  BY <1>4, CloseSteps
<1>5. CASE PrinterChanges \/ AvahiRestarts \/ AvahiCollides \/ BusLost
  BY <1>5, OutsideSteps
<1> QED BY <1>1, <1>2, <1>3, <1>4, <1>5 DEF Next

\* The invariant holds in every reachable state, for any number of goroutine steps,
\* changes and faults (service.go's refresh and retries, publisher_avahi.go).
THEOREM Invariance == Spec => []IInv
  BY Initially, Inductive, PTL DEF Spec

\* The service's and the publisher's state is always of its type: the attempts of
\* a retry goroutine never leave their range, and no call returns a status that
\* recordDNSStatus does not know.
THEOREM TypeCorrect == Spec => []TypeOK
<1>1. IInv => TypeOK
  BY DEF IInv
<1> QED BY <1>1, Invariance, PTL

\* Between two publisher calls the daemon announces what the publisher has recorded,
\* unless the update, its rollback and the release of the group all failed; and
\* then at least its structure.
THEOREM AnnouncedIsRecorded == Spec => []CurrentIsAnnounced
<1>1. IInv => CurrentIsAnnounced
  <2>1. NoOp.step = ""
    BY DEF NoOp
  <2> QED BY <2>1 DEF IInv, GroupOK, CurrentIsAnnounced
<1> QED BY <1>1, Invariance, PTL

\* A Close that returned without an error leaves the publisher without a group at the
\* daemon, for good: every group it had was freed, or the daemon itself has dropped it,
\* and neither goroutine outlives Close to make another.  Groups of failed creations
\* whose release failed too are outside the claim (createGroup ignores that error).
THEOREM SilentAfterClose == Spec => []ClosedIsSilent
<1>1. IInv => ClosedIsSilent
  BY DEF IInv, Stopped
<1> QED BY <1>1, Invariance, PTL

\* At most one goroutine is in a publisher call, and the publisher's mutex is held
\* exactly while one is.
THEOREM OneCallAtATime ==
  Spec => [](\A p, q \in Procs : proc[p].pc = "busy" /\ proc[q].pc = "busy" => p = q)
<1>1. IInv => \A p, q \in Procs : proc[p].pc = "busy" /\ proc[q].pc = "busy" => p = q
  BY DEF IInv, Mutex
<1> QED BY <1>1, Invariance, PTL
=============================================================================
