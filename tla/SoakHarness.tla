------------------------------ MODULE SoakHarness ------------------------------
(***************************************************************************)
(* The soak tests: the supervisor (scripts/soak-supervisor.ts), which runs *)
(* a soak of 24 hours and then one of several days, the harness it spawns  *)
(* (scripts/load-test.ts), and the policy both share                       *)
(* (scripts/lib/soak-policy.ts).                                           *)
(*                                                                         *)
(* The two processes know of each other only by the report files: the      *)
(* supervisor writes a report that is in progress and spawns a harness,    *)
(* the harness writes it over after each cycle and at its end.  Either may *)
(* die at any point.  A file is truncated and then written, so a read      *)
(* while a harness writes may find nothing that parses.                    *)
(*                                                                         *)
(* Abstractions: of the counts, whether any message succeeded and whether  *)
(* the failure rate is above the threshold; whether the run has lasted its *)
(* target; whether a report is older than 15 minutes.  Latency and         *)
(* resources decide only whether the harness aborts: the supervisor finds  *)
(* no p95Ms and no rssMb at the top of a report, so it never judges them.  *)
(***************************************************************************)
CONSTANTS
  Harnesses,   \* harness processes alive at once
  NoReport     \* no file, or one that does not parse

VARIABLES
  report,      \* report[kind]
  harness,     \* harness[h]: [pc, kind, success, failing, done]
  supervisor,  \* where the supervisor is
  earned,      \* history: a 24-hour harness closed with a report that passes
  mistaken     \* history: a multi-day soak was queued on a report that did not
               \* parse, or while a harness that had aborted was still closing

soakVars == <<report, harness, supervisor, earned, mistaken>>

Kinds == {"day", "days"}
Reports == [inProgress : BOOLEAN, aborted : BOOLEAN, done : BOOLEAN,
            success : BOOLEAN, failing : BOOLEAN, stale : BOOLEAN]
ASSUME SoakAssumption == NoReport \notin Reports

HarnessStates == {"none", "preflight", "cycle", "judge", "close"}

SoakTypeOK ==
  /\ report \in [Kinds -> Reports \cup {NoReport}]
  /\ harness \in [Harnesses -> [pc : HarnessStates, kind : Kinds, success : BOOLEAN,
                                failing : BOOLEAN, done : BOOLEAN, aborted : BOOLEAN]]
  /\ supervisor \in {"boot", "fresh", "start day", "poll", "days", "queue", "start days",
                     "recheck", "over"}
  /\ earned \in BOOLEAN /\ mistaken \in BOOLEAN

NoHarness == [pc |-> "none", kind |-> "day", success |-> FALSE, failing |-> FALSE,
              done |-> FALSE, aborted |-> FALSE]

SoakInit ==
  /\ report = [kind \in Kinds |-> NoReport]
  /\ harness = [h \in Harnesses |-> NoHarness]
  /\ supervisor = "boot" /\ earned = FALSE /\ mistaken = FALSE

Runs(h) == harness[h].pc # "none"

\* The report the supervisor writes before it spawns a harness.
Announced == [inProgress |-> TRUE, aborted |-> FALSE, done |-> FALSE,
              success |-> FALSE, failing |-> FALSE, stale |-> FALSE]
\* soakReportFields.
ReportOf(h, inProgress) ==
  [inProgress |-> inProgress, aborted |-> harness[h].aborted, done |-> harness[h].done,
   success |-> harness[h].success, failing |-> harness[h].failing, stale |-> FALSE]

\* evaluateSoakCriteria, on what a report has at its top.
SoakPassed(r) ==
  /\ r # NoReport
  /\ ~r.aborted /\ ~r.inProgress /\ r.done /\ r.success /\ ~r.failing

Writes(h, kind) == harness[h].pc \in {"preflight", "judge", "close"} /\ harness[h].kind = kind
\* readReport.
Readable(kind) ==
  {report[kind]} \cup IF \E h \in Harnesses : Writes(h, kind) THEN {NoReport} ELSE {}
-----------------------------------------------------------------------------
\* Preflight: every request must be accepted.
Preflight(h) ==
  /\ harness[h].pc = "preflight"
  /\ harness' = [harness EXCEPT ![h].pc = "cycle"]
  /\ UNCHANGED <<report, supervisor, earned, mistaken>>

\* "soak refused".
PreflightFails(h) ==
  /\ harness[h].pc = "preflight"
  /\ report' = [report EXCEPT ![harness[h].kind] =
       [Announced EXCEPT !.inProgress = FALSE, !.aborted = TRUE]]
  /\ harness' = [harness EXCEPT ![h] = NoHarness]
  /\ UNCHANGED <<supervisor, earned, mistaken>>

\* A cycle's burst: counts and clock move on...
Cycle(h) ==
  /\ harness[h].pc = "cycle" /\ ~harness[h].done
  /\ \E success, failing, done \in BOOLEAN :
       /\ harness[h].success => success
       /\ failing \/ success
       /\ harness' = [harness EXCEPT ![h].pc = "judge", ![h].success = success,
                                     ![h].failing = failing, ![h].done = done]
  /\ UNCHANGED <<report, supervisor, earned, mistaken>>

\* ...soakShouldAbort, which may excuse a failure rate only before 100 messages
\* and aborts for latency too; the checkpoint; and the loop goes on until its end.
Judge(h) ==
  /\ harness[h].pc = "judge"
  /\ \E aborts \in BOOLEAN :
       /\ harness[h].failing /\ harness[h].done => aborts
       /\ report' = [report EXCEPT ![harness[h].kind] =
            [ReportOf(h, ~aborts) EXCEPT !.aborted = aborts]]
       /\ harness' = [harness EXCEPT ![h].aborted = aborts,
            ![h].pc = IF aborts \/ harness[h].done THEN "close" ELSE "cycle"]
  /\ UNCHANGED <<supervisor, earned, mistaken>>

\* The final report.
Close(h) ==
  /\ harness[h].pc = "close"
  /\ report' = [report EXCEPT ![harness[h].kind] = ReportOf(h, FALSE)]
  /\ earned' = (earned \/ (harness[h].kind = "day" /\ harness[h].done /\ ~harness[h].aborted))
  /\ harness' = [harness EXCEPT ![h] = NoHarness]
  /\ UNCHANGED <<supervisor, mistaken>>

HarnessDies(h) ==
  /\ Runs(h)
  /\ harness' = [harness EXCEPT ![h] = NoHarness]
  /\ UNCHANGED <<report, supervisor, earned, mistaken>>

\* 15 minutes without a checkpoint: a cycle is far shorter.
ReportAges(kind) ==
  /\ report[kind] # NoReport /\ ~report[kind].stale
  /\ \A h \in Harnesses : Runs(h) => harness[h].kind # kind
  /\ report' = [report EXCEPT ![kind].stale = TRUE]
  /\ UNCHANGED <<harness, supervisor, earned, mistaken>>
-----------------------------------------------------------------------------
At(pc) == supervisor = pc
GoTo(pc) == supervisor' = pc

Starting == [day |-> "start day", days |-> "start days"]

\* The report that announces a soak, and then startSoak.
Announce(kind) ==
  /\ report' = [report EXCEPT ![kind] = Announced]
  /\ GoTo(Starting[kind])
  /\ UNCHANGED <<harness, earned, mistaken>>

StartSoak(kind) ==
  /\ At(Starting[kind])
  /\ \E h \in Harnesses :
       /\ ~Runs(h)
       /\ harness' = [harness EXCEPT ![h].pc = "preflight", ![h].kind = kind]
  /\ UNCHANGED <<report, earned, mistaken>>

\* liveSoak.
LiveSoak(r) == r # NoReport /\ r.inProgress /\ ~r.aborted /\ r.success /\ ~r.stale

\* At boot a live soak is adopted, a soak that has passed is kept.
Boot ==
  /\ At("boot")
  /\ \E r \in Readable("day") :
       GoTo(IF LiveSoak(r) \/ SoakPassed(r) THEN "poll" ELSE "fresh")
  /\ UNCHANGED <<report, harness, earned, mistaken>>

StartDay ==
  \/ At("fresh") /\ Announce("day")
  \/ StartSoak("day") /\ GoTo("poll")

\* The loop: the 24-hour report...
PollDay ==
  /\ At("poll")
  /\ \E r \in Readable("day") :
       GoTo(IF SoakPassed(r) THEN "days"
            ELSE IF r # NoReport /\ r.aborted THEN "over" ELSE "poll")
  /\ UNCHANGED <<report, harness, earned, mistaken>>

\* Mutant: whether a multi-day soak is in progress is not asked.
NotPassed(r) == ~SoakPassed(r)
\* ...the multi-day report, not passed and not in progress...
MayQueue(r) == ~SoakPassed(r) /\ (r = NoReport \/ ~r.inProgress)

Closing(h) == harness[h].pc = "close" /\ harness[h].kind = "days"

PollDays ==
  /\ At("days")
  /\ \E r \in Readable("days") :
       /\ GoTo(IF MayQueue(r) THEN "queue" ELSE "recheck")
       /\ mistaken' = (mistaken \/ (MayQueue(r) /\ (r # report["days"]
                                       \/ \E h \in Harnesses : Closing(h))))
  /\ UNCHANGED <<report, harness, earned>>

StartDays ==
  \/ At("queue") /\ Announce("days")
  \/ StartSoak("days") /\ GoTo("recheck")

\* ...and once more, to see whether everything is done.
Recheck ==
  /\ At("recheck")
  /\ \E r \in Readable("days") : GoTo(IF SoakPassed(r) THEN "over" ELSE "poll")
  /\ UNCHANGED <<report, harness, earned, mistaken>>

\* The supervisor is stopped and started again; harnesses are detached.
SupervisorRestarts ==
  /\ ~At("boot")
  /\ GoTo("boot")
  /\ UNCHANGED <<report, harness, earned, mistaken>>

SupervisorNext ==
  Boot \/ StartDay \/ PollDay \/ PollDays \/ StartDays \/ Recheck \/ SupervisorRestarts

HarnessNext(h) ==
  Preflight(h) \/ PreflightFails(h) \/ Cycle(h) \/ Judge(h) \/ Close(h) \/ HarnessDies(h)

SoakNext ==
  \/ SupervisorNext
  \/ \E h \in Harnesses : HarnessNext(h)
  \/ \E kind \in Kinds : ReportAges(kind)

SoakSpec == SoakInit /\ [][SoakNext]_soakVars
-----------------------------------------------------------------------------
DaysRunning == {h \in Harnesses : Runs(h) /\ harness[h].kind = "days"}

(***************************************************************************)
(* A multi-day soak runs only when a 24-hour soak has been run to its end  *)
(* without aborting, however often supervisor and harness died; and two    *)
(* run at once, over one report, only when a report could not be read or   *)
(* an aborted harness had its last report still to write.                  *)
(***************************************************************************)
MultiDayIsEarned ==
  /\ DaysRunning # {} => earned
  /\ \A g, h \in DaysRunning : g = h \/ mistaken
=============================================================================
