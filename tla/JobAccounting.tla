--------------------------- MODULE JobAccounting ---------------------------
(***************************************************************************)
(* What the statistics know of one print job (internal/stats/jobs.go): how *)
(* a later snapshot is merged into the checkpoint of the job, and what a   *)
(* job contributes to the totals of the day on which it was submitted.     *)
(*                                                                         *)
(* A snapshot keeps one field of each kind the code treats alike:          *)
(*   documents  DocumentCount, Copies and PayloadBytes (plain maxima);     *)
(*   sheets     the four counters that may be unknown (nil);               *)
(*   terminalAt ProcessingAt and TerminalAt (the first known time wins);   *)
(*   route      the nine settings of the submission (the first value wins).*)
(* StateReasons, the queue and the user are left out: no total depends on  *)
(* the first, and the others never differ between snapshots of a job.      *)
(***************************************************************************)
EXTENDS Integers, FiniteSets, FiniteSetsExt

CONSTANTS Unknown,   \* a fact nobody has measured (nil or "")
          Routes     \* values of the settings of a submission

ASSUME UnknownAssumption == Unknown \notin Int

TerminalOutcomes == {"completed", "canceled", "aborted", "failed", "rejected"}

boolInt(b) == IF b THEN 1 ELSE 0

\* The larger of two counters that may be unknown; a negative report is none.
maxIntPtr(a, b) ==
  IF b = Unknown \/ b < 0 THEN a
  ELSE IF a = Unknown \/ b > a THEN b ELSE a

FirstKnown(a, b) == IF a # Unknown THEN a ELSE b

MaxNat(a, b) == IF a >= b THEN a ELSE b

jobOutcome(j) ==
  IF j.observed \in TerminalOutcomes THEN j.observed
  ELSE IF j.state \in {"failed", "rejected"}
       THEN IF j.accepted THEN "failed" ELSE "rejected"
       ELSE "unresolved"

\* An older snapshot leaves the time and what was observed alone, but not the state.
mergeJob_OlderState(old, next) ==
  LET newer == next.updated >= old.updated
  IN  [created    |-> old.created,
       updated    |-> IF newer THEN next.updated ELSE old.updated,
       state      |-> next.state,
       observed   |-> IF \/ next.observed = Unknown
                         \/ old.observed \in TerminalOutcomes
                         \/ ~newer
                      THEN old.observed ELSE next.observed,
       accepted   |-> old.accepted \/ next.accepted,
       cancelAccepted |-> old.cancelAccepted \/ next.cancelAccepted,
       terminalAt |-> FirstKnown(old.terminalAt, next.terminalAt),
       documents  |-> MaxNat(old.documents, next.documents),
       sheets     |-> maxIntPtr(old.sheets, next.sheets),
       route      |-> FirstKnown(old.route, next.route)]

mergeJob(old, next) ==
  LET newer == next.updated >= old.updated
  IN  [created    |-> old.created,
       updated    |-> IF newer THEN next.updated ELSE old.updated,
       state      |-> IF newer THEN next.state ELSE old.state,
       observed   |-> IF \/ next.observed = Unknown
                         \/ old.observed \in TerminalOutcomes
                         \/ ~newer
                      THEN old.observed ELSE next.observed,
       accepted   |-> old.accepted \/ next.accepted,
       cancelAccepted |-> old.cancelAccepted \/ next.cancelAccepted,
       terminalAt |-> FirstKnown(old.terminalAt, next.terminalAt),
       documents  |-> MaxNat(old.documents, next.documents),
       sheets     |-> maxIntPtr(old.sheets, next.sheets),
       route      |-> FirstKnown(old.route, next.route)]

\* The columns of job_rollups that are sums; completion_max_ns is a maximum.
SumColumns ==
  {"job_count", "accepted_count", "cancel_accepted_count", "document_count",
   "unresolved_count", "completed_count", "canceled_count", "aborted_count",
   "failed_count", "rejected_count", "completed_sheets",
   "completed_sheets_known", "completion_observations", "completion_total_ns"}

contribution(j) ==
  LET known    == j.sheets # Unknown
      observed == j.terminalAt # Unknown /\ j.terminalAt >= j.created
      latency  == IF observed THEN j.terminalAt - j.created ELSE 0
  IN  [job_count              |-> 1,
       accepted_count         |-> boolInt(j.accepted),
       cancel_accepted_count  |-> boolInt(j.cancelAccepted),
       document_count         |-> j.documents,
       unresolved_count       |-> boolInt(jobOutcome(j) = "unresolved"),
       completed_count        |-> boolInt(jobOutcome(j) = "completed"),
       canceled_count         |-> boolInt(jobOutcome(j) = "canceled"),
       aborted_count          |-> boolInt(jobOutcome(j) = "aborted"),
       failed_count           |-> boolInt(jobOutcome(j) = "failed"),
       rejected_count         |-> boolInt(jobOutcome(j) = "rejected"),
       completed_sheets       |-> IF known THEN j.sheets ELSE 0,
       completed_sheets_known |-> boolInt(known),
       completion_observations |-> boolInt(observed),
       completion_total_ns    |-> latency,
       completion_max_ns      |-> latency]

EmptyRollup == [c \in SumColumns \cup {"completion_max_ns"} |-> 0]

\* What one snapshot adds to a row of job_rollups: the whole contribution of a
\* new job, the difference for a known one.
Delta(known, old, next) ==
  [c \in DOMAIN EmptyRollup |->
     contribution(next)[c]
       - (IF known /\ c \in SumColumns THEN contribution(old)[c] ELSE 0)]

AddToRollup(row, delta) ==
  [c \in DOMAIN EmptyRollup |->
     IF c \in SumColumns THEN row[c] + delta[c] ELSE MaxNat(row[c], delta[c])]

\* Without a value in any setting the row is the one of the unknown settings.
SettingKeys == Routes \cup {Unknown}

settingContribution(row, j, n) == [row EXCEPT ![j.route] = @ + n]

NoJob == [created |-> Unknown]

\* A negative counter of the very first snapshot is as good as none.
DropNegative(j) ==
  [j EXCEPT !.sheets = IF @ # Unknown /\ @ < 0 THEN Unknown ELSE @]

\* db holds the tables job_checkpoints, jobs, job_rollups and
\* job_setting_rollups; day is the submission day of the snapshot, retained
\* whether the totals of that day are still kept.
persistJob_AddsAgain(db, id, register, snapshot, day, retained) ==
  LET known == db.checkpoints[id] # NoJob
      old   == db.checkpoints[id]
      next  == DropNegative(IF known THEN mergeJob(old, snapshot) ELSE snapshot)
  IN  IF ~known /\ ~register THEN db
      ELSE [db EXCEPT !.checkpoints[id] = next, !.jobs[id] = next,
                      !.rollups[day] = AddToRollup(@, Delta(FALSE, old, next)),
                      !.settings[day] = settingContribution(@, next, 1)]

persistJob(db, id, register, snapshot, day, retained) ==
  LET known == db.checkpoints[id] # NoJob
      old   == db.checkpoints[id]
      next  == DropNegative(IF known THEN mergeJob(old, snapshot) ELSE snapshot)
      moved == IF known THEN settingContribution(db.settings[day], old, -1)
               ELSE db.settings[day]
  IN  IF ~known /\ ~register THEN db
      ELSE [db EXCEPT
              !.checkpoints[id] = next,
              !.jobs[id] = next,
              !.rollups[day] = IF retained
                               THEN AddToRollup(@, Delta(known, old, next))
                               ELSE @,
              !.settings[day] = IF retained
                                THEN settingContribution(moved, next, 1)
                                ELSE @]

-----------------------------------------------------------------------------
(* The reference: what the totals of a day should be, computed from the     *)
(* jobs themselves.                                                         *)

\* The sum of the natural numbers f[x]: the size of the union of one block of
\* f[x] cells for every x.
Total(f) == Cardinality(UNION {{x} \X (1..f[x]) : x \in DOMAIN f})

SumOver(jobs, c) == Total([j \in DOMAIN jobs |-> contribution(jobs[j])[c]])

\* The totals of the jobs of a function from job numbers to merged jobs.
TotalsOf(jobs) ==
  [c \in DOMAIN EmptyRollup |->
     IF c \in SumColumns THEN SumOver(jobs, c)
     ELSE Max({0} \cup {contribution(jobs[j])[c] : j \in DOMAIN jobs})]

SettingsOf(jobs) ==
  [k \in SettingKeys |-> Cardinality({j \in DOMAIN jobs : jobs[j].route = k})]
=============================================================================
