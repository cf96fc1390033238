--------------------------- MODULE SuiteScheduling ---------------------------
(***************************************************************************)
(* Saved test suites, their schedules, and everyone who touches them:      *)
(*                                                                         *)
(*   Schedulers  processes running python -m datarecon.scheduler: a tick   *)
(*               lists the suites due in the minute read from the clock,   *)
(*               runs them one after the other and notifies once;          *)
(*   Runners     browser sessions that press "Run" on a selection;         *)
(*   Editors     browser sessions that save a schedule.                    *)
(*                                                                         *)
(* All of them work on the one test_suites table, each statement of which  *)
(* is atomic, nothing else is.  Times are minutes: due_suites compares     *)
(* last_run_at with the start of the current minute, so the seconds never  *)
(* matter.  A cron expression is the set of minutes it matches.  The       *)
(* notification channels and the validation itself are reduced to their    *)
(* outcomes.                                                               *)
(***************************************************************************)
EXTENDS Integers, Sequences, FiniteSets

CONSTANTS
  Suites,      \* suite ids, numbered in the order of their names
  Crons,       \* the cron expressions users store
  NoCron,      \* schedule_cron = NULL
  Schedulers, Runners, Editors,
  NotifyOn,    \* DATARECON_NOTIFY_ON
  CanCrash,    \* whether a process may be killed
  CanLock,     \* whether a write may raise OperationalError (locked, disk full)
  MaxMinute,   \* bound on the clock
  MaxRuns      \* bound on the rows of validation_runs

Minutes == 0 .. MaxMinute
Never   == -1     \* last_run_at = NULL
NoRun   == 0      \* last_run_id = NULL

ASSUME SuitesAssumption == Suites \subseteq Nat
ASSUME CronsAssumption ==
  /\ \A c \in Crons : c \subseteq Nat
  /\ NoCron \notin Crons
ASSUME ProcessesAssumption ==
  /\ Schedulers \cap Runners = {}
  /\ (Schedulers \cup Runners) \cap Editors = {}
ASSUME PolicyAssumption == NotifyOn \in {"failure", "always", "never"}
ASSUME FaultsAssumption == CanCrash \in BOOLEAN /\ CanLock \in BOOLEAN
ASSUME BoundsAssumption == MaxMinute \in Nat /\ MaxRuns \in Nat

Processes == Schedulers \cup Runners

VARIABLES
  minute,     \* the wall clock
  suites,     \* ids of the rows in test_suites
  ids,        \* suite ids ever drawn: a uuid is never drawn again
  row,        \* the columns of each row; meaningless for an id not in suites
  runs,       \* validation_runs, in order of insertion; a run id is an index
  job,        \* what each scheduler or runner is in the middle of
  form,       \* what each editor is in the middle of
  fired,      \* history: <<suite, minute>> a scheduler has started a run for
  notified    \* history: <<suite, minute>> of the failures given to a notifier

vars == <<minute, suites, ids, row, runs, job, form, fired, notified>>

-----------------------------------------------------------------------------
(* The rows                                                                 *)

Status  == {"PASS", "FAIL", "ERROR"}
Failing == {"FAIL", "ERROR"}

Row == [cron : Crons \cup {NoCron}, enabled : BOOLEAN, lastRun : Nat,
        lastStatus : Status \cup {"NONE"}, lastAt : Nat \cup {Never}]

RunRow == [suite : Suites, status : Status, at : Nat]

NeverRun(cron, enabled) ==
  [cron |-> cron, enabled |-> enabled, lastRun |-> NoRun,
   lastStatus |-> "NONE", lastAt |-> Never]

NewRow == NeverRun(NoCron, FALSE)

(* pc "loop": between two suites of run_suites; "run": inside execute;      *)
(* "save": executed, the suite's last_run columns not yet written.          *)
Job == [pc : {"idle", "loop", "run", "save"}, moment : Nat,
        todo : SUBSET Suites, suite : Suites \cup {Never}, seen : Row,
        id : Nat, status : Status \cup {"NONE"}, at : Nat \cup {Never},
        failed : SUBSET Suites]

IdleJob == [pc |-> "idle", moment |-> 0, todo |-> {}, suite |-> Never,
            seen |-> NewRow, id |-> NoRun, status |-> "NONE", at |-> Never,
            failed |-> {}]

Form == [open : BOOLEAN, suite : Suites \cup {Never}, seen : Row]

ClosedForm == [open |-> FALSE, suite |-> Never, seen |-> NewRow]

TypeOK ==
  /\ minute \in Nat
  /\ suites \subseteq ids
  /\ ids \subseteq Suites
  /\ row \in [Suites -> Row]
  /\ runs \in Seq(RunRow)
  /\ job \in [Processes -> Job]
  /\ form \in [Editors -> Form]
  /\ fired \subseteq Suites \X Nat
  /\ notified \subseteq Suites \X Nat

(* A metadata database with some suites in it, none run yet; each has no    *)
(* schedule, or one that is enabled or not.                                 *)
Init ==
  /\ minute = 0
  /\ suites \in SUBSET Suites
  /\ ids = suites
  /\ \E cron \in [Suites -> Crons \cup {NoCron}], on \in [Suites -> BOOLEAN] :
       /\ \A s \in Suites : on[s] => cron[s] # NoCron
       /\ \A s \in Suites \ suites : cron[s] = NoCron
       /\ row = [s \in Suites |-> NeverRun(cron[s], on[s])]
  /\ runs = <<>>
  /\ job = [p \in Processes |-> IdleJob]
  /\ form = [e \in Editors |-> ClosedForm]
  /\ fired = {}
  /\ notified = {}

ClockTick ==
  /\ minute < MaxMinute
  /\ minute' = minute + 1
  /\ UNCHANGED <<suites, ids, row, runs, job, form, fired, notified>>

-----------------------------------------------------------------------------
(* Ticks                                                                    *)

(* Mutant of Due: a run in this very minute does not count.                 *)
DueAgain(s, m) ==
  /\ s \in suites
  /\ row[s].enabled /\ row[s].cron # NoCron
  /\ m \in row[s].cron
  /\ ~(row[s].lastAt # Never /\ row[s].lastAt > m)

(* due_suites, for one row: enabled, its cron matches the minute, and it    *)
(* has not run since the minute began.                                      *)
Due(s, m) ==
  /\ s \in suites
  /\ row[s].enabled /\ row[s].cron # NoCron
  /\ m \in row[s].cron
  /\ ~(row[s].lastAt # Never /\ row[s].lastAt >= m)

(* tick: the due list is read once.  With nothing due the tick returns.     *)
Tick(p) ==
  LET due == {s \in suites : Due(s, minute)} IN
  /\ p \in Schedulers
  /\ job[p].pc = "idle"
  /\ due # {}
  /\ job' = [job EXCEPT ![p] = [IdleJob EXCEPT !.pc = "loop",
                                               !.moment = minute,
                                               !.todo = due]]
  /\ UNCHANGED <<minute, suites, ids, row, runs, form, fired, notified>>

(* "Run" on a selection of the Test Suites page, which may be out of date.  *)
PressRun(p, chosen) ==
  /\ p \in Runners
  /\ job[p].pc = "idle"
  /\ chosen # {} /\ chosen \subseteq ids
  /\ job' = [job EXCEPT ![p] = [IdleJob EXCEPT !.pc = "loop",
                                               !.moment = minute,
                                               !.todo = chosen]]
  /\ UNCHANGED <<minute, suites, ids, row, runs, form, fired, notified>>

-----------------------------------------------------------------------------
(* run_suites and run_suite                                                 *)

Upcoming(p, s) == s \in job[p].todo /\ \A t \in job[p].todo : s <= t

(* Mutants of SuiteGone: the outcome is recorded like that of a run; the    *)
(* exception leaves run_suites.                                             *)
SuiteGoneIsRecorded(p, s) ==
  /\ job[p].pc = "loop"
  /\ Upcoming(p, s)
  /\ s \notin suites
  /\ job' = [job EXCEPT ![p] =
                 [job[p] EXCEPT !.pc = "save", !.status = "ERROR",
                                !.at = minute, !.todo = job[p].todo \ {s}]]
  /\ UNCHANGED <<minute, suites, ids, row, runs, form, fired, notified>>

SuiteGoneAborts(p, s) ==
  /\ job[p].pc = "loop"
  /\ Upcoming(p, s)
  /\ s \notin suites
  /\ job' = [job EXCEPT ![p] = IdleJob]
  /\ UNCHANGED <<minute, suites, ids, row, runs, form, fired, notified>>

(* The suite has been deleted since the list was made: an ERROR outcome.    *)
SuiteGone(p, s) ==
  /\ job[p].pc = "loop"
  /\ Upcoming(p, s)
  /\ s \notin suites
  /\ job' = [job EXCEPT ![p] =
                 [job[p] EXCEPT !.todo = job[p].todo \ {s},
                                !.failed = job[p].failed \cup {s}]]
  /\ UNCHANGED <<minute, suites, ids, row, runs, form, fired, notified>>

(* get_by_id finds the suite; its validation module is about to execute.    *)
StartRun(p, s) ==
  /\ job[p].pc = "loop"
  /\ Upcoming(p, s)
  /\ s \in suites
  /\ job' = [job EXCEPT ![p] =
                 [job[p] EXCEPT !.pc = "run", !.suite = s, !.seen = row[s],
                                !.todo = job[p].todo \ {s}]]
  /\ fired' = IF p \in Schedulers THEN fired \cup {<<s, job[p].moment>>}
                                  ELSE fired
  /\ UNCHANGED <<minute, suites, ids, row, runs, form, notified>>

(* execute returns: a row of validation_runs finished now, whose id and     *)
(* finished_at the suite is about to be given.                              *)
ExecuteRun(p, status) ==
  /\ job[p].pc = "run"
  /\ status \in {"PASS", "FAIL"}
  /\ Len(runs) < MaxRuns
  /\ runs' = Append(runs, [suite |-> job[p].suite, status |-> status,
                           at |-> minute])
  /\ job' = [job EXCEPT ![p] =
                 [job[p] EXCEPT !.pc = "save", !.id = Len(runs) + 1,
                                !.status = status, !.at = minute]]
  /\ UNCHANGED <<minute, suites, ids, row, form, fired, notified>>

(* execute raises.  The service has recorded an ERROR row, unless the       *)
(* request itself was refused; the suite is given no run id either way.     *)
ExecuteRaises(p) ==
  /\ job[p].pc = "run"
  /\ \/ runs' = runs
     \/ /\ Len(runs) < MaxRuns
        /\ runs' = Append(runs, [suite |-> job[p].suite, status |-> "ERROR",
                                 at |-> minute])
  /\ job' = [job EXCEPT ![p] =
                 [job[p] EXCEPT !.pc = "save", !.id = NoRun,
                                !.status = "ERROR", !.at = minute]]
  /\ UNCHANGED <<minute, suites, ids, row, form, fired, notified>>

(* Mutant of Saved: only the last outcome of the tick is remembered.        *)
SavedKeepsLast(p) ==
  [job[p] EXCEPT !.pc = "loop", !.suite = Never, !.seen = NewRow, !.id = NoRun,
                 !.status = "NONE", !.at = Never,
                 !.failed = IF job[p].status \in Failing
                              THEN {job[p].suite} ELSE {}]

(* The outcome joins the list of the tick's outcomes.                       *)
Saved(p) == [job[p] EXCEPT !.pc = "loop", !.suite = Never, !.seen = NewRow,
                           !.id = NoRun, !.status = "NONE", !.at = Never,
                           !.failed = IF job[p].status \in Failing
                                        THEN @ \cup {job[p].suite} ELSE @]

(* Mutants of RecordResult: the run id of an earlier run is left in place;  *)
(* the whole row is rewritten from what run_suite read; an error clears the *)
(* time of the last run.                                                    *)
RecordResultKeepsId(p) ==
  /\ job[p].pc = "save"
  /\ row' = IF job[p].suite \in suites
              THEN [row EXCEPT ![job[p].suite] =
                      [@ EXCEPT !.lastRun = IF job[p].id = NoRun
                                              THEN @ ELSE job[p].id,
                                !.lastStatus = job[p].status,
                                !.lastAt = job[p].at]]
              ELSE row
  /\ job' = [job EXCEPT ![p] = Saved(p)]
  /\ UNCHANGED <<minute, suites, ids, runs, form, fired, notified>>

RecordResultRewritesRow(p) ==
  /\ job[p].pc = "save"
  /\ row' = IF job[p].suite \in suites
              THEN [row EXCEPT ![job[p].suite] =
                      [job[p].seen EXCEPT !.lastRun = job[p].id,
                                          !.lastStatus = job[p].status,
                                          !.lastAt = job[p].at]]
              ELSE row
  /\ job' = [job EXCEPT ![p] = Saved(p)]
  /\ UNCHANGED <<minute, suites, ids, runs, form, fired, notified>>

RecordResultClearsTime(p) ==
  /\ job[p].pc = "save"
  /\ row' = IF job[p].suite \in suites
              THEN [row EXCEPT ![job[p].suite] =
                      [@ EXCEPT !.lastRun = job[p].id,
                                !.lastStatus = job[p].status,
                                !.lastAt = IF job[p].status = "ERROR"
                                             THEN Never ELSE job[p].at]]
              ELSE row
  /\ job' = [job EXCEPT ![p] = Saved(p)]
  /\ UNCHANGED <<minute, suites, ids, runs, form, fired, notified>>

(* record_run_result: one UPDATE of the three last_run columns, of no row   *)
(* at all when the suite has been deleted meanwhile.                        *)
RecordResult(p) ==
  /\ job[p].pc = "save"
  /\ row' = IF job[p].suite \in suites
              THEN [row EXCEPT ![job[p].suite] =
                      [row[job[p].suite] EXCEPT !.lastRun = job[p].id,
                                                !.lastStatus = job[p].status,
                                                !.lastAt = job[p].at]]
              ELSE row
  /\ job' = [job EXCEPT ![p] = Saved(p)]
  /\ UNCHANGED <<minute, suites, ids, runs, form, fired, notified>>

(* record_run_result raises: run_suites catches TestSuiteError only, so the *)
(* exception leaves the tick (logged by main) or the page, the rest of the  *)
(* list unrun and nobody notified.                                          *)
RecordFails(p) ==
  /\ CanLock
  /\ job[p].pc = "save"
  /\ job' = [job EXCEPT ![p] = IdleJob]
  /\ UNCHANGED <<minute, suites, ids, row, runs, form, fired, notified>>

(* The list is done.  A scheduler hands the failures of the whole tick to   *)
(* its notifier, which may fail to deliver but not to return.               *)
FinishJob(p) ==
  /\ job[p].pc = "loop"
  /\ job[p].todo = {}
  /\ notified' = IF p \in Schedulers /\ NotifyOn # "never"
                   THEN notified \cup (job[p].failed \X {job[p].moment})
                   ELSE notified
  /\ job' = [job EXCEPT ![p] = IdleJob]
  /\ UNCHANGED <<minute, suites, ids, row, runs, form, fired>>

(* The process is killed; a supervisor starts it again.                     *)
Crash(p) ==
  /\ CanCrash
  /\ job[p].pc # "idle"
  /\ job' = [job EXCEPT ![p] = IdleJob]
  /\ UNCHANGED <<minute, suites, ids, row, runs, form, fired, notified>>

-----------------------------------------------------------------------------
(* The Test Suites page                                                     *)

(* set_schedule, its first statement: get_by_id.                            *)
OpenForm(e, s) ==
  /\ ~form[e].open
  /\ s \in suites
  /\ form' = [form EXCEPT ![e] = [open |-> TRUE, suite |-> s, seen |-> row[s]]]
  /\ UNCHANGED <<minute, suites, ids, row, runs, job, fired, notified>>

(* The expression does not parse, or enabling without one: SchedulerError.  *)
RejectForm(e) ==
  /\ form[e].open
  /\ form' = [form EXCEPT ![e] = ClosedForm]
  /\ UNCHANGED <<minute, suites, ids, row, runs, job, fired, notified>>

(* Mutant of SaveSchedule: INSERT OR REPLACE instead of UPDATE.             *)
SaveScheduleUpserts(e, cron, enabled) ==
  LET s == form[e].suite IN
  /\ form[e].open
  /\ enabled => cron # NoCron
  /\ suites' = suites \cup {s}
  /\ row' = [row EXCEPT ![s] = [form[e].seen EXCEPT !.cron = cron,
                                                    !.enabled = enabled]]
  /\ form' = [form EXCEPT ![e] = ClosedForm]
  /\ UNCHANGED <<minute, ids, runs, job, fired, notified>>

(* set_schedule, its last statement: update writes back EVERY column of the *)
(* row as read by get_by_id, with the new schedule in it.                   *)
SaveSchedule(e, cron, enabled) ==
  LET s == form[e].suite IN
  /\ form[e].open
  /\ enabled => cron # NoCron
  /\ row' = IF s \in suites
              THEN [row EXCEPT ![s] = [form[e].seen EXCEPT !.cron = cron,
                                                           !.enabled = enabled]]
              ELSE row
  /\ form' = [form EXCEPT ![e] = ClosedForm]
  /\ UNCHANGED <<minute, suites, ids, runs, job, fired, notified>>

(* save_suite: a new row under a new id, without a schedule.                *)
SaveSuite(s) ==
  /\ s \in Suites \ ids
  /\ ids' = ids \cup {s}
  /\ suites' = suites \cup {s}
  /\ row' = [row EXCEPT ![s] = NewRow]
  /\ UNCHANGED <<minute, runs, job, form, fired, notified>>

DeleteSuite(s) ==
  /\ s \in suites
  /\ suites' = suites \ {s}
  /\ row' = [row EXCEPT ![s] = NewRow]
  /\ UNCHANGED <<minute, ids, runs, job, form, fired, notified>>

-----------------------------------------------------------------------------
JobStep(p) ==
  \/ \E s \in job[p].todo : SuiteGone(p, s) \/ StartRun(p, s)
  \/ \E status \in {"PASS", "FAIL"} : ExecuteRun(p, status)
  \/ ExecuteRaises(p)
  \/ RecordResult(p)
  \/ FinishJob(p)

Next ==
  \/ ClockTick
  \/ \E p \in Schedulers : Tick(p)
  \/ \E p \in Runners, chosen \in SUBSET ids : PressRun(p, chosen)
  \/ \E p \in Processes : JobStep(p) \/ RecordFails(p) \/ Crash(p)
  \/ \E e \in Editors, s \in suites : OpenForm(e, s)
  \/ \E e \in Editors : RejectForm(e)
  \/ \E e \in Editors, cron \in Crons \cup {NoCron}, enabled \in BOOLEAN :
       SaveSchedule(e, cron, enabled)
  \/ \E s \in Suites : SaveSuite(s) \/ DeleteSuite(s)

Spec == Init /\ [][Next]_vars

(* A process that is not killed goes on: a validation ends, one way or the  *)
(* other, and every statement after it is executed.                         *)
FairSpec == Spec /\ \A p \in Processes : WF_vars(JobStep(p))

-----------------------------------------------------------------------------
(* Properties                                                               *)

(* docs/adr/0014-scheduling-and-notifications.md, "they will not overlap or *)
(* double-fire": no scheduler starts a suite for a minute the suite has     *)
(* been started for already.                                                *)
NoDoubleFire ==
  [][\A p \in Schedulers, s \in Suites :
       StartRun(p, s) => <<s, job[p].moment>> \notin fired]_vars

(* The three last_run columns of a suite always describe one and the same   *)
(* execution, whoever wrote them last and however stale what he wrote.      *)
IsARun(rs, r, s) ==
  IF r.lastRun = NoRun
    THEN /\ r.lastStatus \in {"NONE", "ERROR"}
         /\ r.lastStatus = "NONE" <=> r.lastAt = Never
    ELSE /\ r.lastRun \in 1 .. Len(rs)
         /\ rs[r.lastRun] = [suite |-> s, status |-> r.lastStatus,
                             at |-> r.lastAt]

LastRunIsARun == \A s \in suites : IsARun(runs, row[s], s)

(* A suite's last run never becomes an earlier one.                         *)
LastRunMonotone ==
  [][\A s \in suites \cap suites' : row'[s].lastAt >= row[s].lastAt]_vars

(* A deleted suite stays deleted, though runs of it and edits of it may     *)
(* still be under way and will still be written.                            *)
DeletedStaysDeleted ==
  [][\A s \in ids : s \notin suites => s \notin suites']_vars

(* Only an editor's save changes a schedule: the result of a run that was   *)
(* started before the edit does not undo it.                                *)
EditsSurviveRuns ==
  [][\A s \in suites \cap suites' :
       <<row'[s].cron, row'[s].enabled>> # <<row[s].cron, row[s].enabled>>
         => \E e \in Editors : form[e].open /\ form[e].suite = s
                                 /\ ~form'[e].open]_vars

(* test_suite_service.py:166, "A suite that fails does not stop the         *)
(* others": every suite on a tick's list is started, unless it is deleted.  *)
EveryDueSuiteRuns ==
  \A p \in Schedulers, s \in Suites, m \in Minutes :
    (s \in job[p].todo /\ job[p].moment = m)
      ~> (<<s, m>> \in fired \/ s \notin suites)

(* Every failure of a scheduled run is handed to the notifier, in the same  *)
(* tick and whatever the suites after it did.                               *)
EveryFailureIsNotified ==
  \A p \in Schedulers, s \in Suites, m \in Minutes :
    (s \in job[p].failed /\ job[p].moment = m) ~> (<<s, m>> \in notified)
==============================================================================
