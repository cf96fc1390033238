----------------------- MODULE SuiteScheduling_proofs -----------------------
(***************************************************************************)
(* What holds of the scheduling of suites for every number of suites,      *)
(* schedulers and browser sessions, with every fault the model has, and    *)
(* what holds of a single undisturbed daemon.                              *)
(***************************************************************************)
EXTENDS SuiteScheduling, TLAPS

(* A process past get_by_id holds a suite; an open form does too.           *)
Held ==
  /\ \A p \in Processes :
       job[p].pc \in {"run", "save"} => job[p].suite \in Suites
  /\ \A p \in Processes :
       job[p].pc = "save" => job[p].status \in Status /\ job[p].at \in Nat
  /\ \A e \in Editors : form[e].open => form[e].suite \in Suites

TypeInv == TypeOK /\ Held

LEMMA Constants ==
  /\ Suites \subseteq Nat /\ Never \notin Suites /\ Never \notin Nat
  /\ NewRow \in Row /\ IdleJob \in Job /\ ClosedForm \in Form
BY SuitesAssumption DEF Never, NoRun, NewRow, NeverRun, Row, IdleJob, Job, ClosedForm, Form

LEMMA InitTypeInv == Init => TypeInv
<1> SUFFICES ASSUME Init PROVE TypeInv
  OBVIOUS
<1> USE Constants
<1>1. row \in [Suites -> Row]
  <2>1. ASSUME NEW c \in Crons \cup {NoCron}, NEW e \in BOOLEAN
        PROVE  NeverRun(c, e) \in Row
    BY DEF NeverRun, Row, NoRun
  <2> QED BY <2>1 DEF Init
<1>2. runs \in Seq(RunRow)
  <2>1. runs = <<>>
    BY DEF Init
  <2> QED BY <2>1
<1>3. job \in [Processes -> Job] /\ form \in [Editors -> Form]
  BY DEF Init
<1>4. Held
  BY DEF Init, Held, IdleJob, ClosedForm
<1>5. minute \in Nat /\ suites \subseteq ids /\ ids \subseteq Suites
      /\ fired \subseteq Suites \X Nat /\ notified \subseteq Suites \X Nat
  BY DEF Init
<1> QED BY <1>1, <1>2, <1>3, <1>4, <1>5 DEF TypeInv, TypeOK

LEMMA SavedInJob ==
  ASSUME TypeInv, NEW p \in Processes, job[p].pc = "save"
  PROVE  Saved(p) \in Job /\ Saved(p).pc = "loop"
<1> DEFINE failed == IF job[p].status \in Failing
                       THEN job[p].failed \cup {job[p].suite}
                       ELSE job[p].failed
<1>1. job[p] \in Job /\ job[p].suite \in Suites
  BY DEF TypeInv, TypeOK, Held
<1>2. failed \in SUBSET Suites
  BY <1>1 DEF Job
<1>3. Saved(p) = [job[p] EXCEPT !.pc = "loop", !.suite = Never,
                                !.seen = NewRow, !.id = NoRun,
                                !.status = "NONE", !.at = Never,
                                !.failed = failed]
  BY <1>1 DEF Saved, Job
<1> HIDE DEF failed
<1>4. [job[p] EXCEPT !.pc = "loop", !.suite = Never, !.seen = NewRow,
                     !.id = NoRun, !.status = "NONE", !.at = Never,
                     !.failed = failed] \in Job
  BY <1>1, <1>2, Constants DEF Job, NoRun
<1>5. Saved(p).pc = "loop"
  BY <1>1, <1>3 DEF Job
<1> QED BY <1>3, <1>4, <1>5

LEMMA NextTypeInv == TypeInv /\ [Next]_vars => TypeInv'
<1> SUFFICES ASSUME TypeInv, [Next]_vars PROVE TypeInv'
  OBVIOUS
<1> USE Constants DEF TypeInv
<1>1. CASE ClockTick
  BY <1>1 DEF ClockTick, TypeOK, Held
<1>2. ASSUME NEW p \in Schedulers, Tick(p) PROVE TypeInv'
  <2>1. job' \in [Processes -> Job]
    BY <1>2 DEF Tick, TypeOK, Job, IdleJob, Processes, Due
  <2> QED BY <1>2, <2>1 DEF Tick, TypeOK, Held, IdleJob, Processes
<1>3. ASSUME NEW p \in Runners, NEW chosen \in SUBSET ids, PressRun(p, chosen)
      PROVE TypeInv'
  <2>1. job' \in [Processes -> Job]
    BY <1>3 DEF PressRun, TypeOK, Job, IdleJob, Processes
  <2> QED BY <1>3, <2>1 DEF PressRun, TypeOK, Held, IdleJob, Processes
<1>4. ASSUME NEW p \in Processes, NEW s \in job[p].todo, SuiteGone(p, s)
      PROVE TypeInv'
  <2>1. job' \in [Processes -> Job]
    <3> DEFINE j == [job[p] EXCEPT !.todo = job[p].todo \ {s},
                                   !.failed = job[p].failed \cup {s}]
    <3>1. job[p] \in Job /\ s \in Suites
      BY DEF TypeOK, Job
    <3>2. j \in Job
      BY <3>1 DEF Job
    <3>3. job' = [job EXCEPT ![p] = j]
      BY <1>4 DEF SuiteGone
    <3> HIDE DEF j
    <3> QED BY <3>2, <3>3 DEF TypeOK
  <2> QED BY <1>4, <2>1 DEF SuiteGone, TypeOK, Held
<1>5. ASSUME NEW p \in Processes, NEW s \in job[p].todo, StartRun(p, s)
      PROVE TypeInv'
  <2>0. s \in Suites
    BY DEF TypeOK, Job
  <2>1. job' \in [Processes -> Job]
    <3> DEFINE j == [job[p] EXCEPT !.pc = "run", !.suite = s, !.seen = row[s],
                                   !.todo = job[p].todo \ {s}]
    <3>1. job[p] \in Job /\ row[s] \in Row
      BY <2>0 DEF TypeOK
    <3>2. j \in Job
      BY <2>0, <3>1 DEF Job
    <3>3. job' = [job EXCEPT ![p] = j]
      BY <1>5 DEF StartRun
    <3> HIDE DEF j
    <3> QED BY <3>2, <3>3 DEF TypeOK
  <2>2. fired' \subseteq Suites \X Nat
    BY <1>5, <2>0 DEF StartRun, TypeOK, Job
  <2> QED BY <1>5, <2>0, <2>1, <2>2 DEF StartRun, TypeOK, Held
<1>6. ASSUME NEW p \in Processes, NEW status \in {"PASS", "FAIL"},
             ExecuteRun(p, status)
      PROVE TypeInv'
  <2>1. job' \in [Processes -> Job]
    <3>1. job[p] \in Job /\ Len(runs) + 1 \in Nat /\ minute \in Nat
      BY DEF TypeOK
    <3>2. [job[p] EXCEPT !.pc = "save", !.id = Len(runs) + 1,
                         !.status = status, !.at = minute] \in Job
      BY <3>1 DEF Job, Status
    <3> QED BY <1>6, <3>2 DEF ExecuteRun, TypeOK
  <2>2. runs' \in Seq(RunRow)
    BY <1>6 DEF ExecuteRun, TypeOK, Held, RunRow, Status
  <2>3. Held'
    BY <1>6 DEF ExecuteRun, TypeOK, Held, Status
  <2> QED BY <1>6, <2>1, <2>2, <2>3 DEF ExecuteRun, TypeOK
<1>7. ASSUME NEW p \in Processes, ExecuteRaises(p) PROVE TypeInv'
  <2>1. job' \in [Processes -> Job]
    <3>1. job[p] \in Job /\ minute \in Nat
      BY DEF TypeOK
    <3>2. [job[p] EXCEPT !.pc = "save", !.id = NoRun,
                         !.status = "ERROR", !.at = minute] \in Job
      BY <3>1 DEF Job, Status, NoRun
    <3> QED BY <1>7, <3>2 DEF ExecuteRaises, TypeOK
  <2>2. runs' \in Seq(RunRow)
    <3> DEFINE r == [suite |-> job[p].suite, status |-> "ERROR", at |-> minute]
    <3>1. r \in RunRow
      BY <1>7 DEF ExecuteRaises, TypeOK, Held, RunRow, Status
    <3>2. runs' = runs \/ runs' = Append(runs, r)
      BY <1>7 DEF ExecuteRaises
    <3> HIDE DEF r
    <3> QED BY <3>1, <3>2 DEF TypeOK
  <2>3. Held'
    BY <1>7 DEF ExecuteRaises, TypeOK, Held, Status
  <2> QED BY <1>7, <2>1, <2>2, <2>3 DEF ExecuteRaises, TypeOK
<1>8. ASSUME NEW p \in Processes, RecordResult(p) PROVE TypeInv'
  <2>1. job' \in [Processes -> Job]
    BY <1>8, SavedInJob DEF RecordResult, TypeOK
  <2>2. row' \in [Suites -> Row]
    <3> DEFINE s == job[p].suite
               r == [row[s] EXCEPT !.lastRun = job[p].id,
                                   !.lastStatus = job[p].status,
                                   !.lastAt = job[p].at]
    <3>1. s \in Suites /\ row[s] \in Row /\ job[p] \in Job
      BY <1>8 DEF RecordResult, TypeOK, Held
    <3>2. r \in Row
      <4>1. row[s] \in Row /\ job[p].id \in Nat
            /\ job[p].status \in Status \cup {"NONE"}
            /\ job[p].at \in Nat \cup {Never}
        BY <3>1 DEF Job
      <4> QED BY <4>1 DEF Row
    <3>3. row' = row \/ row' = [row EXCEPT ![s] = r]
      BY <1>8 DEF RecordResult
    <3> HIDE DEF s, r
    <3> QED BY <3>1, <3>2, <3>3 DEF TypeOK
  <2>3. Held'
    BY <1>8, SavedInJob DEF RecordResult, TypeOK, Held
  <2> QED BY <1>8, <2>1, <2>2, <2>3 DEF RecordResult, TypeOK
<1>9. ASSUME NEW p \in Processes, RecordFails(p) \/ FinishJob(p) \/ Crash(p)
      PROVE TypeInv'
  <2>1. job' = [job EXCEPT ![p] = IdleJob]
    BY <1>9 DEF RecordFails, FinishJob, Crash
  <2>2. UNCHANGED <<minute, suites, ids, row, runs, form, fired>>
    BY <1>9 DEF RecordFails, FinishJob, Crash
  <2>3. notified' \subseteq Suites \X Nat
    BY <1>9 DEF RecordFails, FinishJob, Crash, TypeOK, Job
  <2> QED BY <2>1, <2>2, <2>3 DEF TypeOK, Held, IdleJob
<1>10. ASSUME NEW e \in Editors, NEW s \in suites, OpenForm(e, s)
       PROVE TypeInv'
  <2>1. s \in Suites
    BY DEF TypeOK
  <2>2. form' \in [Editors -> Form]
    BY <1>10, <2>1 DEF OpenForm, TypeOK, Form
  <2> QED BY <1>10, <2>1, <2>2 DEF OpenForm, TypeOK, Held
<1>11. ASSUME NEW e \in Editors, RejectForm(e) PROVE TypeInv'
  BY <1>11 DEF RejectForm, TypeOK, Held, ClosedForm
<1>12. ASSUME NEW e \in Editors, NEW cron \in Crons \cup {NoCron},
              NEW enabled \in BOOLEAN, SaveSchedule(e, cron, enabled)
       PROVE TypeInv'
  <2>1. row' \in [Suites -> Row]
    <3>1. form[e].seen \in Row
      BY DEF TypeOK, Form
    <3>2. [form[e].seen EXCEPT !.cron = cron, !.enabled = enabled] \in Row
      BY <3>1 DEF Row
    <3> QED BY <1>12, <3>2 DEF SaveSchedule, TypeOK
  <2> QED BY <1>12, <2>1 DEF SaveSchedule, TypeOK, Held, ClosedForm
<1>13. ASSUME NEW s \in Suites, SaveSuite(s) \/ DeleteSuite(s) PROVE TypeInv'
  BY <1>13 DEF SaveSuite, DeleteSuite, TypeOK, Held
<1>14. CASE UNCHANGED vars
  BY <1>14 DEF vars, TypeOK, Held
<1> QED BY <1>1, <1>2, <1>3, <1>4, <1>5, <1>6, <1>7, <1>8, <1>9, <1>10, <1>11,
           <1>12, <1>13, <1>14 DEF Next, JobStep

(* The type invariant, for every set of suites and processes.               *)
THEOREM TypeCorrect == Spec => []TypeOK
<1>1. TypeInv => TypeOK
  BY DEF TypeInv
<1> QED BY InitTypeInv, NextTypeInv, <1>1, PTL DEF Spec

-----------------------------------------------------------------------------
(* The three last_run columns.  A process about to write them, and an       *)
(* editor about to write them back, hold the columns of one execution.      *)

ResultIsARun ==
  \A p \in Processes :
    job[p].pc = "save" =>
      IF job[p].id = NoRun
        THEN job[p].status = "ERROR"
        ELSE /\ job[p].id \in 1 .. Len(runs)
             /\ runs[job[p].id] = [suite |-> job[p].suite,
                                   status |-> job[p].status, at |-> job[p].at]

SeenIsARun ==
  \A e \in Editors :
    form[e].open => IsARun(runs, form[e].seen, form[e].suite)

RunInv == TypeInv /\ LastRunIsARun /\ ResultIsARun /\ SeenIsARun

LEMMA NewRowIsARun ==
  ASSUME NEW rs, NEW s, NEW c, NEW b
  PROVE  IsARun(rs, NeverRun(c, b), s)
BY DEF IsARun, NeverRun, NoRun, Never

(* validation_runs only grows: what described a run goes on describing it.  *)
LEMMA IsARunKept ==
  ASSUME NEW rs \in Seq(RunRow), NEW x \in RunRow, NEW r \in Row, NEW s,
         IsARun(rs, r, s)
  PROVE  IsARun(Append(rs, x), r, s)
<1>1. CASE r.lastRun = NoRun
  BY <1>1 DEF IsARun
<1>2. CASE r.lastRun # NoRun
  <2>1. r.lastRun \in 1 .. Len(rs)
    BY <1>2 DEF IsARun
  <2>2. /\ r.lastRun \in 1 .. Len(Append(rs, x))
        /\ Append(rs, x)[r.lastRun] = rs[r.lastRun]
    BY <2>1
  <2> QED BY <1>2, <2>2 DEF IsARun
<1> QED BY <1>1, <1>2

(* A schedule written into a row says nothing about its last run.           *)
LEMMA ScheduleIsARun ==
  ASSUME NEW rs, NEW s, NEW r \in Row, NEW c \in Crons \cup {NoCron},
         NEW b \in BOOLEAN, IsARun(rs, r, s)
  PROVE  IsARun(rs, [r EXCEPT !.cron = c, !.enabled = b], s)
BY DEF IsARun, Row

LEMMA InitRunInv == Init => RunInv
<1> SUFFICES ASSUME Init PROVE RunInv
  OBVIOUS
<1>1. TypeInv
  BY InitTypeInv
<1>2. LastRunIsARun
  <2>1. ASSUME NEW s \in suites
        PROVE  \E c, b : row[s] = NeverRun(c, b)
    BY DEF Init
  <2> QED BY <2>1, NewRowIsARun DEF LastRunIsARun
<1>3. ResultIsARun /\ SeenIsARun
  BY DEF Init, ResultIsARun, SeenIsARun, IdleJob, ClosedForm
<1> QED BY <1>1, <1>2, <1>3 DEF RunInv

(* A step that adds a row to validation_runs, or none, and touches neither  *)
(* the suites nor the forms.                                                *)
LEMMA GrowingKeeps ==
  ASSUME RunInv, UNCHANGED <<suites, row, form>>,
         runs' = runs \/ \E x \in RunRow : runs' = Append(runs, x)
  PROVE  LastRunIsARun' /\ SeenIsARun'
<1>1. runs \in Seq(RunRow)
  BY DEF RunInv, TypeInv, TypeOK
<1>2. ASSUME NEW s \in suites PROVE IsARun(runs', row[s], s)
  <2>1. row[s] \in Row /\ IsARun(runs, row[s], s)
    BY DEF RunInv, TypeInv, TypeOK, LastRunIsARun
  <2> QED BY <1>1, <2>1, IsARunKept
<1>3. ASSUME NEW e \in Editors, form[e].open
      PROVE  IsARun(runs', form[e].seen, form[e].suite)
  <2>1. form[e].seen \in Row /\ IsARun(runs, form[e].seen, form[e].suite)
    BY <1>3 DEF RunInv, TypeInv, TypeOK, Form, SeenIsARun
  <2> QED BY <1>1, <2>1, IsARunKept
<1> QED BY <1>2, <1>3 DEF LastRunIsARun, SeenIsARun

(* The rows another process is about to refer to stay where they are.       *)
LEMMA GrowingKeepsResults ==
  ASSUME RunInv, NEW p \in Processes,
         runs' = runs \/ \E x \in RunRow : runs' = Append(runs, x),
         \A q \in Processes : q # p => job'[q] = job[q],
         job'[p].pc = "save" =>
           IF job'[p].id = NoRun
             THEN job'[p].status = "ERROR"
             ELSE /\ job'[p].id \in 1 .. Len(runs')
                  /\ runs'[job'[p].id] = [suite |-> job'[p].suite,
                                          status |-> job'[p].status,
                                          at |-> job'[p].at]
  PROVE  ResultIsARun'
<1> SUFFICES ASSUME NEW q \in Processes, q # p, job[q].pc = "save",
                    job[q].id # NoRun
             PROVE  /\ job[q].id \in 1 .. Len(runs')
                    /\ runs'[job[q].id] = runs[job[q].id]
  BY DEF RunInv, ResultIsARun
<1>1. runs \in Seq(RunRow) /\ job[q].id \in 1 .. Len(runs)
  BY DEF RunInv, TypeInv, TypeOK, ResultIsARun
<1>2. CASE runs' = runs
  BY <1>1, <1>2
<1>3. ASSUME NEW x \in RunRow, runs' = Append(runs, x)
      PROVE  /\ job[q].id \in 1 .. Len(runs')
             /\ runs'[job[q].id] = runs[job[q].id]
  BY <1>1, <1>3
<1> QED BY <1>2, <1>3

(* What RecordResult writes is the execution the process has just done.     *)
LEMMA WrittenIsARun ==
  ASSUME RunInv, NEW p \in Processes, job[p].pc = "save",
         NEW r \in Row, r.lastRun = job[p].id, r.lastStatus = job[p].status,
         r.lastAt = job[p].at
  PROVE  IsARun(runs, r, job[p].suite)
<1>1. job[p].at \in Nat /\ job[p].status \in Status
  BY DEF RunInv, TypeInv, Held
<1>2. job[p].at # Never
  BY <1>1, Constants
<1> QED BY <1>1, <1>2 DEF RunInv, ResultIsARun, IsARun, Status

LEMMA NextRunInv == RunInv /\ [Next]_vars => RunInv'
<1> SUFFICES ASSUME RunInv, [Next]_vars PROVE RunInv'
  OBVIOUS
<1>0. TypeInv /\ TypeInv'
  BY NextTypeInv DEF RunInv
<1> SUFFICES LastRunIsARun' /\ ResultIsARun' /\ SeenIsARun'
  BY <1>0 DEF RunInv
<1>a. ASSUME UNCHANGED <<suites, row, runs, form>>,
             NEW p \in Processes,
             \A q \in Processes : q # p => job'[q] = job[q],
             job'[p].pc # "save"
      PROVE  LastRunIsARun' /\ ResultIsARun' /\ SeenIsARun'
  BY <1>a, GrowingKeeps, GrowingKeepsResults
<1>1. CASE ClockTick \/ UNCHANGED vars
  BY <1>1 DEF ClockTick, vars, RunInv, LastRunIsARun, ResultIsARun, SeenIsARun
<1>2. ASSUME NEW p \in Processes,
             \/ Tick(p)
             \/ \E chosen \in SUBSET ids : PressRun(p, chosen)
             \/ \E s \in job[p].todo : SuiteGone(p, s) \/ StartRun(p, s)
             \/ RecordFails(p) \/ FinishJob(p) \/ Crash(p)
      PROVE  LastRunIsARun' /\ ResultIsARun' /\ SeenIsARun'
  <2>1. job \in [Processes -> Job]
    BY <1>0 DEF TypeInv, TypeOK
  <2>2. UNCHANGED <<suites, row, runs, form>>
    BY <1>2 DEF Tick, PressRun, SuiteGone, StartRun, RecordFails, FinishJob, Crash
  <2>3. \A q \in Processes : q # p => job'[q] = job[q]
    <3>1. \E j : job' = [job EXCEPT ![p] = j]
      <4>1. CASE RecordFails(p) \/ FinishJob(p) \/ Crash(p)
        BY <4>1 DEF RecordFails, FinishJob, Crash
      <4>2. CASE Tick(p) \/ \E chosen \in SUBSET ids : PressRun(p, chosen)
        BY <4>2 DEF Tick, PressRun
      <4>3. CASE \E s \in job[p].todo : SuiteGone(p, s) \/ StartRun(p, s)
        BY <4>3 DEF SuiteGone, StartRun
      <4> QED BY <1>2, <4>1, <4>2, <4>3
    <3> QED BY <2>1, <3>1
  <2>4. job'[p].pc # "save"
    <3>1. ASSUME NEW j, job' = [job EXCEPT ![p] = j] PROVE job'[p] = j
      BY <2>1, <3>1
    <3>2. job[p] \in Job
      BY <2>1
    <3>3. CASE RecordFails(p) \/ FinishJob(p) \/ Crash(p)
      BY <3>1, <3>3 DEF RecordFails, FinishJob, Crash, IdleJob
    <3>4. CASE Tick(p)
      BY <3>1, <3>4 DEF Tick, IdleJob
    <3>5. CASE \E chosen \in SUBSET ids : PressRun(p, chosen)
      BY <3>1, <3>5 DEF PressRun, IdleJob
    <3>6. CASE \E s \in job[p].todo : SuiteGone(p, s)
      BY <3>1, <3>2, <3>6 DEF SuiteGone, Job
    <3>7. CASE \E s \in job[p].todo : StartRun(p, s)
      BY <3>1, <3>2, <3>7 DEF StartRun, Job
    <3> QED BY <1>2, <3>3, <3>4, <3>5, <3>6, <3>7
  <2> QED BY <1>a, <2>2, <2>3, <2>4
<1>3. ASSUME NEW p \in Processes, NEW status \in {"PASS", "FAIL"},
             ExecuteRun(p, status)
      PROVE  LastRunIsARun' /\ ResultIsARun' /\ SeenIsARun'
  <2> DEFINE x == [suite |-> job[p].suite, status |-> status, at |-> minute]
  <2>1. x \in RunRow /\ runs \in Seq(RunRow) /\ job[p] \in Job
    BY <1>0, <1>3 DEF TypeInv, TypeOK, Held, RunRow, Status, ExecuteRun
  <2>2. runs' = Append(runs, x) /\ UNCHANGED <<suites, row, form>>
    BY <1>3 DEF ExecuteRun
  <2>3. /\ \A q \in Processes : q # p => job'[q] = job[q]
        /\ job'[p] = [job[p] EXCEPT !.pc = "save", !.id = Len(runs) + 1,
                                    !.status = status, !.at = minute]
    BY <1>0, <1>3 DEF ExecuteRun, TypeInv, TypeOK
  <2>4. /\ job'[p].id = Len(runs) + 1 /\ job'[p].suite = job[p].suite
        /\ job'[p].status = status /\ job'[p].at = minute
    BY <2>1, <2>3 DEF Job
  <2>5. /\ Len(runs) + 1 \in 1 .. Len(runs')
        /\ runs'[Len(runs) + 1] = x /\ Len(runs) + 1 # NoRun
    BY <2>1, <2>2 DEF NoRun
  <2>6. \E y \in RunRow : runs' = Append(runs, y)
    BY <2>1, <2>2
  <2>7. /\ job'[p].id # NoRun /\ job'[p].id \in 1 .. Len(runs')
        /\ runs'[job'[p].id] = [suite |-> job'[p].suite,
                                status |-> job'[p].status, at |-> job'[p].at]
    BY <2>4, <2>5
  <2>8. LastRunIsARun' /\ SeenIsARun'
    BY <2>2, <2>6, GrowingKeeps
  <2>9. ResultIsARun'
    BY <2>3, <2>6, <2>7, GrowingKeepsResults
  <2> QED BY <2>8, <2>9
<1>4. ASSUME NEW p \in Processes, ExecuteRaises(p)
      PROVE  LastRunIsARun' /\ ResultIsARun' /\ SeenIsARun'
  <2> DEFINE x == [suite |-> job[p].suite, status |-> "ERROR", at |-> minute]
  <2>1. x \in RunRow /\ job[p] \in Job
    BY <1>0, <1>4 DEF TypeInv, TypeOK, Held, RunRow, Status, ExecuteRaises
  <2>2. /\ runs' = runs \/ runs' = Append(runs, x)
        /\ UNCHANGED <<suites, row, form>>
    BY <1>4 DEF ExecuteRaises
  <2>3. /\ \A q \in Processes : q # p => job'[q] = job[q]
        /\ job'[p] = [job[p] EXCEPT !.pc = "save", !.id = NoRun,
                                    !.status = "ERROR", !.at = minute]
    BY <1>0, <1>4 DEF ExecuteRaises, TypeInv, TypeOK
  <2>4. job'[p].id = NoRun /\ job'[p].status = "ERROR"
    BY <2>1, <2>3 DEF Job
  <2>5. runs' = runs \/ \E y \in RunRow : runs' = Append(runs, y)
    BY <2>1, <2>2
  <2>6. LastRunIsARun' /\ SeenIsARun'
    BY <2>2, <2>5, GrowingKeeps
  <2>7. ResultIsARun'
    BY <2>3, <2>4, <2>5, GrowingKeepsResults
  <2> QED BY <2>6, <2>7
<1>5. ASSUME NEW p \in Processes, RecordResult(p)
      PROVE  LastRunIsARun' /\ ResultIsARun' /\ SeenIsARun'
  <2>1. UNCHANGED <<suites, runs, form>> /\ job[p].pc = "save"
    BY <1>5 DEF RecordResult
  <2>2. ResultIsARun'
    <3>1. job' = [job EXCEPT ![p] = Saved(p)] /\ job \in [Processes -> Job]
      BY <1>0, <1>5 DEF RecordResult, TypeInv, TypeOK
    <3>2. job'[p].pc # "save"
      BY <1>0, <2>1, <3>1, SavedInJob
    <3> QED BY <2>1, <3>1, <3>2, GrowingKeepsResults
  <2>3. SeenIsARun'
    BY <2>1 DEF RunInv, SeenIsARun
  <2>4. LastRunIsARun'
    <3> DEFINE t == job[p].suite
               r == [row[t] EXCEPT !.lastRun = job[p].id,
                                   !.lastStatus = job[p].status,
                                   !.lastAt = job[p].at]
    <3>1. t \in Suites /\ row \in [Suites -> Row] /\ job[p] \in Job
          /\ suites \subseteq Suites
      BY <1>0, <2>1 DEF TypeInv, TypeOK, Held
    <3>2. r \in Row
      <4>1. row[t] \in Row /\ job[p].id \in Nat
            /\ job[p].status \in Status \cup {"NONE"}
            /\ job[p].at \in Nat \cup {Never}
        BY <3>1 DEF Job
      <4> QED BY <4>1 DEF Row
    <3>3. IsARun(runs, r, t)
      <4>1. r.lastRun = job[p].id /\ r.lastStatus = job[p].status
            /\ r.lastAt = job[p].at
        BY <3>1 DEF Row
      <4> QED BY <2>1, <3>2, <4>1, WrittenIsARun
    <3>4. row' = row \/ row' = [row EXCEPT ![t] = r]
      BY <1>5 DEF RecordResult
    <3> HIDE DEF r, t
    <3>5. ASSUME NEW s \in suites PROVE IsARun(runs, row'[s], s)
      BY <3>1, <3>3, <3>4 DEF RunInv, LastRunIsARun
    <3> QED BY <2>1, <3>5 DEF LastRunIsARun
  <2> QED BY <2>2, <2>3, <2>4
<1>6. ASSUME NEW e \in Editors, NEW s \in suites, OpenForm(e, s)
      PROVE  LastRunIsARun' /\ ResultIsARun' /\ SeenIsARun'
  <2>1. UNCHANGED <<suites, row, runs, job>>
    BY <1>6 DEF OpenForm
  <2>2. LastRunIsARun' /\ ResultIsARun'
    BY <2>1 DEF RunInv, LastRunIsARun, ResultIsARun
  <2>3. form' = [form EXCEPT ![e] = [open |-> TRUE, suite |-> s, seen |-> row[s]]]
        /\ form \in [Editors -> Form]
    BY <1>0, <1>6 DEF OpenForm, TypeInv, TypeOK
  <2>4. IsARun(runs, row[s], s)
    BY DEF RunInv, LastRunIsARun
  <2> QED BY <2>1, <2>2, <2>3, <2>4 DEF RunInv, SeenIsARun
<1>7. ASSUME NEW e \in Editors, RejectForm(e)
      PROVE  LastRunIsARun' /\ ResultIsARun' /\ SeenIsARun'
  BY <1>0, <1>7 DEF RejectForm, ClosedForm, RunInv, TypeInv, TypeOK,
                    LastRunIsARun, ResultIsARun, SeenIsARun
<1>8. ASSUME NEW e \in Editors, NEW cron \in Crons \cup {NoCron},
             NEW enabled \in BOOLEAN, SaveSchedule(e, cron, enabled)
      PROVE  LastRunIsARun' /\ ResultIsARun' /\ SeenIsARun'
  <2> DEFINE t == form[e].suite
             r == [form[e].seen EXCEPT !.cron = cron, !.enabled = enabled]
  <2>1. UNCHANGED <<suites, runs, job>> /\ form[e].open
    BY <1>8 DEF SaveSchedule
  <2>2. form' = [form EXCEPT ![e] = ClosedForm] /\ form \in [Editors -> Form]
        /\ row \in [Suites -> Row] /\ suites \subseteq Suites
    BY <1>0, <1>8 DEF SaveSchedule, TypeInv, TypeOK
  <2>3. IsARun(runs, r, t)
    BY <2>1, <2>2, ScheduleIsARun DEF RunInv, SeenIsARun, Form
  <2>4. row' = row \/ row' = [row EXCEPT ![t] = r]
    BY <1>8 DEF SaveSchedule
  <2>5. ASSUME NEW s \in suites PROVE IsARun(runs, row'[s], s)
    <3> HIDE DEF r, t
    <3> QED BY <2>2, <2>3, <2>4 DEF RunInv, LastRunIsARun
  <2>6. SeenIsARun'
    BY <2>1, <2>2 DEF RunInv, SeenIsARun, ClosedForm
  <2> QED BY <2>1, <2>5, <2>6 DEF RunInv, LastRunIsARun, ResultIsARun
<1>9. ASSUME NEW s \in Suites, SaveSuite(s) \/ DeleteSuite(s)
      PROVE  LastRunIsARun' /\ ResultIsARun' /\ SeenIsARun'
  <2>1. UNCHANGED <<runs, job, form>>
    BY <1>9 DEF SaveSuite, DeleteSuite
  <2>2. /\ row' = [row EXCEPT ![s] = NewRow] /\ suites' \subseteq suites \cup {s}
        /\ row \in [Suites -> Row] /\ suites \subseteq Suites
    BY <1>0, <1>9 DEF SaveSuite, DeleteSuite, TypeInv, TypeOK
  <2>3. ASSUME NEW t \in suites' PROVE IsARun(runs, row'[t], t)
    BY <2>2, NewRowIsARun DEF RunInv, LastRunIsARun, NewRow
  <2> QED BY <2>1, <2>3 DEF RunInv, LastRunIsARun, ResultIsARun, SeenIsARun
<1> QED BY <1>1, <1>2, <1>3, <1>4, <1>5, <1>6, <1>7, <1>8, <1>9
           DEF Next, JobStep, Processes

(* Whoever wrote the three last_run columns last, and however old what he   *)
(* wrote, they describe one execution: record_run_result writes all three,  *)
(* and set_schedule writes back three that were read together.              *)
THEOREM LastRunIsAlwaysARun == Spec => []LastRunIsARun
<1>1. RunInv => LastRunIsARun
  BY DEF RunInv
<1> QED BY InitRunInv, NextRunInv, <1>1, PTL DEF Spec
-----------------------------------------------------------------------------
(* Steps nobody may take.                                                   *)

(* UPDATE ... WHERE suite_id=? writes nothing where there is no row: neither *)
(* a run nor an edit still under way brings a deleted suite back.           *)
THEOREM DeletedSuitesStayDeleted == Spec => DeletedStaysDeleted
<1>1. ASSUME [Next]_vars
      PROVE  [\A s \in ids : s \notin suites => s \notin suites']_vars
  <2> SUFFICES suites' \subseteq suites \cup (Suites \ ids)
    OBVIOUS
  <2> QED BY <1>1 DEF Next, JobStep, vars, ClockTick, Tick, PressRun, SuiteGone,
                      StartRun, ExecuteRun, ExecuteRaises, RecordResult,
                      RecordFails, FinishJob, Crash, OpenForm, RejectForm,
                      SaveSchedule, SaveSuite, DeleteSuite
<1> QED BY <1>1, PTL DEF Spec, DeletedStaysDeleted

EditStep ==
  \A s \in suites \cap suites' :
    <<row'[s].cron, row'[s].enabled>> # <<row[s].cron, row[s].enabled>>
      => \E e \in Editors : form[e].open /\ form[e].suite = s /\ ~form'[e].open

(* A schedule changes when a session saves one, and at no other time.       *)
THEOREM RunsLeaveSchedulesAlone == Spec => EditsSurviveRuns
<1>1. ASSUME TypeInv, Next PROVE EditStep
  <2>0. row \in [Suites -> Row] /\ suites \subseteq Suites /\ suites \subseteq ids
    BY <1>1 DEF TypeInv, TypeOK
  <2>1. CASE row' = row
    BY <2>1 DEF EditStep
  <2>2. ASSUME NEW p \in Processes, RecordResult(p) PROVE EditStep
    <3> DEFINE t == job[p].suite
               r == [row[t] EXCEPT !.lastRun = job[p].id,
                                   !.lastStatus = job[p].status,
                                   !.lastAt = job[p].at]
    <3>0. row[t] \in Row => r.cron = row[t].cron /\ r.enabled = row[t].enabled
      BY DEF Row
    <3>1. row' = row \/ row' = [row EXCEPT ![t] = r]
      BY <2>2 DEF RecordResult
    <3> HIDE DEF r, t
    <3>2. ASSUME NEW s \in suites
          PROVE  row'[s].cron = row[s].cron /\ row'[s].enabled = row[s].enabled
      <4>1. row[s] \in Row /\ s \in Suites
        BY <2>0
      <4>2. CASE s = t
        BY <2>0, <3>0, <3>1, <4>1, <4>2
      <4>3. CASE s # t
        BY <2>0, <3>1, <4>1, <4>3
      <4> QED BY <4>2, <4>3
    <3> QED BY <3>2 DEF EditStep
  <2>3. ASSUME NEW e \in Editors, NEW cron \in Crons \cup {NoCron},
               NEW enabled \in BOOLEAN, SaveSchedule(e, cron, enabled)
        PROVE  EditStep
    <3>1. \A s \in suites : s # form[e].suite => row'[s] = row[s]
      BY <2>0, <2>3 DEF SaveSchedule
    <3>2. form[e].open /\ ~form'[e].open
      BY <1>1, <2>3 DEF SaveSchedule, ClosedForm, TypeInv, TypeOK
    <3> QED BY <3>1, <3>2 DEF EditStep
  <2>4. ASSUME NEW s \in Suites, SaveSuite(s) \/ DeleteSuite(s) PROVE EditStep
    <3>1. \A t \in suites \cap suites' : row'[t] = row[t]
      BY <2>0, <2>4 DEF SaveSuite, DeleteSuite
    <3> QED BY <3>1 DEF EditStep
  <2> QED BY <1>1, <2>1, <2>2, <2>3, <2>4
          DEF Next, JobStep, ClockTick, Tick, PressRun, SuiteGone, StartRun,
              ExecuteRun, ExecuteRaises, RecordFails, FinishJob, Crash,
              OpenForm, RejectForm
<1>2. TypeInv /\ [Next]_vars => [EditStep]_vars
  BY <1>1
<1> QED BY InitTypeInv, NextTypeInv, <1>2, PTL DEF Spec, EditsSurviveRuns, EditStep

-----------------------------------------------------------------------------
(* One undisturbed daemon                                                   *)

(* A suite the daemon has started for minute m is still being run for it,   *)
(* has a last run at or after m, or is gone.                                *)
FiredIsAccountedFor(d) ==
  \A s \in Suites, m \in Nat :
    <<s, m>> \in fired =>
      /\ m <= minute
      /\ job[d].pc # "idle" => m <= job[d].moment
      /\ s \in ids
      /\ s \in suites =>
           \/ row[s].lastAt >= m
           \/ job[d].pc \in {"run", "save"} /\ job[d].suite = s
                /\ job[d].moment = m

(* What is left of a tick's list has not been started for its minute.       *)
TodoIsUnfired(d) ==
  /\ job[d].moment <= minute
  /\ \A s \in job[d].todo : <<s, job[d].moment>> \notin fired
  /\ job[d].pc = "save" => job[d].at >= job[d].moment

FireInv(d) == TypeInv /\ FiredIsAccountedFor(d) /\ TodoIsUnfired(d)

LEMMA InitFireInv ==
  ASSUME NEW d \in Schedulers, Init
  PROVE  FireInv(d)
BY InitTypeInv DEF Init, FireInv, FiredIsAccountedFor, TodoIsUnfired, IdleJob,
                   Processes

LEMMA NextFireInv ==
  ASSUME NEW d, Schedulers = {d}, Runners = {}, Editors = {},
         ~CanCrash, ~CanLock, FireInv(d), [Next]_vars
  PROVE  FireInv(d)'
<1>0. TypeInv /\ TypeInv'
  BY NextTypeInv DEF FireInv
<1> SUFFICES FiredIsAccountedFor(d)' /\ TodoIsUnfired(d)'
  BY <1>0 DEF FireInv
<1>t. /\ job \in [Processes -> Job] /\ row \in [Suites -> Row]
      /\ minute \in Nat /\ suites \subseteq ids /\ ids \subseteq Suites
      /\ fired \subseteq Suites \X Nat /\ d \in Processes
      /\ job[d] \in Job
      /\ \A s \in Suites : row[s].lastAt \in Int
  BY <1>0 DEF TypeInv, TypeOK, Processes, Row, Never
<1>j. job[d].moment \in Nat /\ job[d].at \in Int /\ job[d].todo \subseteq Suites
  BY <1>t DEF Job, Never
<1> USE DEF FireInv, FiredIsAccountedFor, TodoIsUnfired
<1>1. CASE ClockTick
  BY <1>t, <1>j, <1>1 DEF ClockTick
<1>2. CASE Tick(d)
  <2> DEFINE due == {s \in suites : Due(s, minute)}
  <2>1. /\ job[d].pc = "idle" /\ UNCHANGED <<minute, suites, ids, row, fired>>
        /\ job'[d] = [IdleJob EXCEPT !.pc = "loop", !.moment = minute,
                                     !.todo = due]
    BY <1>t, <1>2 DEF Tick
  <2>2. job'[d].pc = "loop" /\ job'[d].moment = minute /\ job'[d].todo = due
    BY <2>1 DEF IdleJob
  <2>3. ASSUME NEW s \in due PROVE <<s, minute>> \notin fired
    <3>1. ~(row[s].lastAt # Never /\ row[s].lastAt >= minute) /\ s \in suites
      BY DEF Due
    <3>2. ~(row[s].lastAt >= minute)
      BY <1>t, <3>1 DEF Never
    <3> QED BY <1>t, <2>1, <3>1, <3>2
  <2> HIDE DEF due
  <2> QED BY <1>t, <2>1, <2>2, <2>3
<1>3. ASSUME NEW s \in job[d].todo, SuiteGone(d, s)
      PROVE  FiredIsAccountedFor(d)' /\ TodoIsUnfired(d)'
  <2>1. /\ job[d].pc = "loop" /\ UNCHANGED <<minute, suites, ids, row, fired>>
        /\ job'[d] = [job[d] EXCEPT !.todo = job[d].todo \ {s},
                                    !.failed = job[d].failed \cup {s}]
    BY <1>t, <1>3 DEF SuiteGone
  <2>2. /\ job'[d].pc = "loop" /\ job'[d].moment = job[d].moment
        /\ job'[d].todo \subseteq job[d].todo
    BY <1>t, <2>1 DEF Job
  <2> QED BY <1>t, <1>j, <2>1, <2>2
<1>4. ASSUME NEW s \in job[d].todo, StartRun(d, s)
      PROVE  FiredIsAccountedFor(d)' /\ TodoIsUnfired(d)'
  <2>1. /\ job[d].pc = "loop" /\ UNCHANGED <<minute, suites, ids, row>>
        /\ s \in suites
        /\ fired' = fired \cup {<<s, job[d].moment>>}
        /\ job'[d] = [job[d] EXCEPT !.pc = "run", !.suite = s, !.seen = row[s],
                                    !.todo = job[d].todo \ {s}]
    BY <1>t, <1>4 DEF StartRun
  <2>2. /\ job'[d].pc = "run" /\ job'[d].moment = job[d].moment
        /\ job'[d].suite = s /\ job'[d].todo = job[d].todo \ {s}
    BY <1>t, <2>1 DEF Job
  <2>3. FiredIsAccountedFor(d)'
    BY <1>t, <1>j, <2>1, <2>2
  <2>4. TodoIsUnfired(d)'
    BY <1>t, <1>j, <2>1, <2>2
  <2> QED BY <2>3, <2>4
<1>5. ASSUME ExecuteRaises(d) \/ \E status \in {"PASS", "FAIL"} : ExecuteRun(d, status)
      PROVE  FiredIsAccountedFor(d)' /\ TodoIsUnfired(d)'
  <2>1. job[d].pc = "run" /\ UNCHANGED <<minute, suites, ids, row, fired>>
    BY <1>5 DEF ExecuteRaises, ExecuteRun
  <2>2. \E i, st : job'[d] = [job[d] EXCEPT !.pc = "save", !.id = i,
                                           !.status = st, !.at = minute]
    <3>1. CASE ExecuteRaises(d)
      <4>1. job'[d] = [job[d] EXCEPT !.pc = "save", !.id = NoRun,
                                     !.status = "ERROR", !.at = minute]
        BY <1>t, <3>1 DEF ExecuteRaises
      <4> QED BY <4>1
    <3>2. ASSUME NEW status \in {"PASS", "FAIL"}, ExecuteRun(d, status)
          PROVE  \E i, st : job'[d] = [job[d] EXCEPT !.pc = "save", !.id = i,
                                           !.status = st, !.at = minute]
      <4>1. job'[d] = [job[d] EXCEPT !.pc = "save", !.id = Len(runs) + 1,
                                     !.status = status, !.at = minute]
        BY <1>t, <3>2 DEF ExecuteRun
      <4> QED BY <4>1
    <3> QED BY <1>5, <3>1, <3>2
  <2>3. /\ job'[d].pc = "save" /\ job'[d].moment = job[d].moment
        /\ job'[d].suite = job[d].suite /\ job'[d].todo = job[d].todo
        /\ job'[d].at = minute
    BY <1>t, <2>2 DEF Job
  <2> QED BY <1>t, <1>j, <2>1, <2>3
<1>6. CASE RecordResult(d)
  <2> DEFINE t == job[d].suite
             r == [row[t] EXCEPT !.lastRun = job[d].id,
                                 !.lastStatus = job[d].status,
                                 !.lastAt = job[d].at]
  <2>1. /\ job[d].pc = "save" /\ UNCHANGED <<minute, suites, ids, fired>>
        /\ t \in Suites
        /\ row' = IF t \in suites THEN [row EXCEPT ![t] = r] ELSE row
        /\ job'[d] = Saved(d)
    BY <1>0, <1>t, <1>6 DEF RecordResult, TypeInv, Held
  <2>2. /\ Saved(d).pc = "loop" /\ Saved(d).moment = job[d].moment
        /\ Saved(d).todo = job[d].todo
    BY <1>t DEF Saved, Job
  <2>3. row[t] \in Row => r.lastAt = job[d].at
    BY DEF Row
  <2>4. t \in suites => row'[t].lastAt = job[d].at
    BY <1>t, <2>1, <2>3
  <2>5. \A s \in suites : s # t => row'[s] = row[s]
    BY <1>t, <2>1
  <2> HIDE DEF r, t
  <2>6. FiredIsAccountedFor(d)'
    BY <1>t, <1>j, <2>1, <2>2, <2>4, <2>5 DEF t
  <2>7. TodoIsUnfired(d)'
    BY <1>t, <1>j, <2>1, <2>2
  <2> QED BY <2>6, <2>7
<1>7. CASE FinishJob(d)
  <2>1. /\ job[d].pc = "loop" /\ UNCHANGED <<minute, suites, ids, row, fired>>
        /\ job'[d] = IdleJob
    BY <1>t, <1>7 DEF FinishJob
  <2>2. IdleJob.pc = "idle" /\ IdleJob.moment = 0 /\ IdleJob.todo = {}
    BY DEF IdleJob
  <2> QED BY <1>t, <2>1, <2>2
<1>8. ASSUME NEW s \in Suites, SaveSuite(s) \/ DeleteSuite(s)
      PROVE  FiredIsAccountedFor(d)' /\ TodoIsUnfired(d)'
  <2>1. /\ UNCHANGED <<minute, job, fired>> /\ ids \subseteq ids'
        /\ suites' \subseteq suites \cup (Suites \ ids)
        /\ \A t \in suites \cap suites' : row'[t] = row[t]
    BY <1>t, <1>8 DEF SaveSuite, DeleteSuite
  <2> QED BY <1>t, <1>j, <2>1
<1>9. CASE UNCHANGED vars
  BY <1>9 DEF vars
<1> QED BY <1>1, <1>2, <1>3, <1>4, <1>5, <1>6, <1>7, <1>8, <1>9
           DEF Next, JobStep, Processes, RecordFails, Crash

FireStep ==
  \A p \in Schedulers, s \in Suites :
    StartRun(p, s) => <<s, job[p].moment>> \notin fired

(* A daemon that is the only one, is never killed, can always write, and    *)
(* whose suites nobody runs by hand or reschedules meanwhile, does not      *)
(* start a suite twice for the same minute - however long its runs last,    *)
(* however often it ticks, and whatever suites are saved and deleted.       *)
THEOREM OneDaemonNeverDoubleFires ==
  ASSUME NEW d, Schedulers = {d}, Runners = {}, Editors = {},
         ~CanCrash, ~CanLock
  PROVE  Spec => NoDoubleFire
<1>1. Init => FireInv(d)
  BY InitFireInv
<1>2. FireInv(d) /\ [Next]_vars => FireInv(d)'
  BY NextFireInv
<1>3. FireInv(d) => FireStep
  BY DEF FireInv, TodoIsUnfired, FireStep, StartRun, Upcoming
<1>4. FireInv(d) /\ [Next]_vars => [FireStep]_vars
  BY <1>3
<1> QED BY <1>1, <1>2, <1>4, PTL DEF Spec, NoDoubleFire, FireStep

-----------------------------------------------------------------------------
(* One process that runs suites                                             *)

(* No row is ahead of the clock, and what the process is about to record is *)
(* not behind the row it will be recorded in.                               *)
NotAhead(d) ==
  /\ \A s \in Suites : row[s].lastAt <= minute
  /\ job[d].pc = "save" =>
       job[d].at <= minute /\ row[job[d].suite].lastAt <= job[d].at

AheadInv(d) == TypeInv /\ NotAhead(d)

LaterStep == \A s \in suites \cap suites' : row'[s].lastAt >= row[s].lastAt

LEMMA NextAheadInv ==
  ASSUME NEW d, Processes = {d}, Editors = {}, AheadInv(d), [Next]_vars
  PROVE  AheadInv(d)' /\ LaterStep
<1>0. TypeInv /\ TypeInv'
  BY NextTypeInv DEF AheadInv
<1> SUFFICES NotAhead(d)' /\ LaterStep
  BY <1>0 DEF AheadInv
<1>t. /\ job \in [Processes -> Job] /\ row \in [Suites -> Row]
      /\ minute \in Nat /\ suites \subseteq ids /\ ids \subseteq Suites
      /\ job[d] \in Job /\ d \in Processes
      /\ \A s \in Suites : row[s].lastAt \in Int
  BY <1>0 DEF TypeInv, TypeOK, Row, Never
<1>j. job[d].at \in Int /\ (job[d].pc \in {"run", "save"} => job[d].suite \in Suites)
  BY <1>0, <1>t DEF Job, Never, TypeInv, Held
<1>h. /\ \A s \in Suites : row[s].lastAt <= minute
      /\ job[d].pc = "save" => job[d].at <= minute /\ row[job[d].suite].lastAt <= job[d].at
  BY DEF AheadInv, NotAhead
<1>1. CASE ClockTick
  BY <1>t, <1>j, <1>h, <1>1 DEF ClockTick, NotAhead, LaterStep
<1>2. ASSUME UNCHANGED <<minute, suites, row>>, job'[d].pc # "save"
      PROVE  NotAhead(d)' /\ LaterStep
  BY <1>t, <1>h, <1>2 DEF NotAhead, LaterStep
<1>3. CASE Tick(d) \/ \E chosen \in SUBSET ids : PressRun(d, chosen)
  <2>1. job'[d].pc = "loop" /\ UNCHANGED <<minute, suites, row>>
    BY <1>t, <1>3 DEF Tick, PressRun, IdleJob
  <2> QED BY <1>2, <2>1
<1>4. ASSUME NEW s \in job[d].todo, SuiteGone(d, s) \/ StartRun(d, s)
      PROVE  NotAhead(d)' /\ LaterStep
  <2>1. job'[d].pc # "save" /\ UNCHANGED <<minute, suites, row>>
    <3>1. CASE SuiteGone(d, s)
      BY <1>t, <3>1 DEF SuiteGone, Job
    <3>2. CASE StartRun(d, s)
      BY <1>t, <3>2 DEF StartRun, Job
    <3> QED BY <1>4, <3>1, <3>2
  <2> QED BY <1>2, <2>1
<1>5. ASSUME ExecuteRaises(d) \/ \E status \in {"PASS", "FAIL"} : ExecuteRun(d, status)
      PROVE  NotAhead(d)' /\ LaterStep
  <2>1. job[d].pc = "run" /\ UNCHANGED <<minute, suites, row>>
    BY <1>5 DEF ExecuteRaises, ExecuteRun
  <2>2. job'[d].at = minute /\ job'[d].suite = job[d].suite
    <3>1. CASE ExecuteRaises(d)
      BY <1>t, <3>1 DEF ExecuteRaises, Job
    <3>2. ASSUME NEW status \in {"PASS", "FAIL"}, ExecuteRun(d, status)
          PROVE  job'[d].at = minute /\ job'[d].suite = job[d].suite
      BY <1>t, <3>2 DEF ExecuteRun, Job
    <3> QED BY <1>5, <3>1, <3>2
  <2> QED BY <1>t, <1>j, <1>h, <2>1, <2>2 DEF NotAhead, LaterStep
<1>6. CASE RecordResult(d)
  <2> DEFINE t == job[d].suite
             r == [row[t] EXCEPT !.lastRun = job[d].id,
                                 !.lastStatus = job[d].status,
                                 !.lastAt = job[d].at]
  <2>1. /\ job[d].pc = "save" /\ UNCHANGED <<minute, suites>> /\ t \in Suites
        /\ row' = IF t \in suites THEN [row EXCEPT ![t] = r] ELSE row
        /\ job'[d] = Saved(d)
    BY <1>t, <1>j, <1>6 DEF RecordResult
  <2>2. Saved(d).pc = "loop"
    BY <1>t DEF Saved, Job
  <2>3. row[t] \in Row => r.lastAt = job[d].at
    BY DEF Row
  <2>4. \A s \in Suites : row'[s].lastAt \in {row[s].lastAt, job[d].at}
                          /\ (row'[s].lastAt # row[s].lastAt => s = t)
    BY <1>t, <2>1, <2>3
  <2> HIDE DEF r, t
  <2> QED BY <1>t, <1>j, <1>h, <2>1, <2>2, <2>4 DEF NotAhead, LaterStep, t
<1>7. CASE RecordFails(d) \/ FinishJob(d) \/ Crash(d)
  <2>1. job'[d].pc # "save" /\ UNCHANGED <<minute, suites, row>>
    BY <1>t, <1>7 DEF RecordFails, FinishJob, Crash, IdleJob
  <2> QED BY <1>2, <2>1
<1>8. ASSUME NEW s \in Suites, SaveSuite(s) \/ DeleteSuite(s)
      PROVE  NotAhead(d)' /\ LaterStep
  <2>1. /\ UNCHANGED <<minute, job>>
        /\ \A t \in Suites : row'[t] \in {row[t], NewRow}
        /\ \A t \in suites \cap suites' : row'[t] = row[t]
    BY <1>t, <1>8 DEF SaveSuite, DeleteSuite
  <2>2. NewRow.lastAt = -1
    BY DEF NewRow, NeverRun, Never
  <2>3. LaterStep
    BY <1>t, <2>1 DEF LaterStep
  <2>4. \A t \in Suites : row'[t].lastAt <= row[t].lastAt \/ row'[t].lastAt = -1
    BY <1>t, <2>1, <2>2
  <2>5. job[d].pc = "save" => job[d].at \in Nat
    BY <1>0, <1>t DEF TypeInv, Held
  <2>6. NotAhead(d)'
    <3>1. \A t \in Suites : row'[t].lastAt \in Int
      BY <1>t, <2>1, <2>2
    <3>2. \A t \in Suites : row'[t].lastAt <= minute
      BY <1>t, <1>h, <2>4, <3>1
    <3>3. job[d].pc = "save" => row'[job[d].suite].lastAt <= job[d].at
      BY <1>t, <1>j, <1>h, <2>4, <2>5, <3>1
    <3> QED BY <1>h, <2>1, <3>2, <3>3 DEF NotAhead
  <2> QED BY <2>3, <2>6
<1>9. CASE UNCHANGED vars
  BY <1>t, <1>h, <1>9 DEF vars, NotAhead, LaterStep
<1> QED BY <1>1, <1>3, <1>4, <1>5, <1>6, <1>7, <1>8, <1>9
           DEF Next, JobStep, Processes

(* Where one process alone runs suites, the daemon or one session, and      *)
(* nobody reschedules, a suite's last run never becomes an earlier one:     *)
(* whatever is killed or cannot be written in between.                      *)
THEOREM OneProcessMovesForward ==
  ASSUME NEW d, Processes = {d}, Editors = {}
  PROVE  Spec => LastRunMonotone
<1>1. Init => AheadInv(d)
  <2> SUFFICES ASSUME Init PROVE NotAhead(d)
    BY InitTypeInv DEF AheadInv
  <2>1. \A s \in Suites : row[s].lastAt = -1
    BY DEF Init, NeverRun, Never
  <2>2. job[d].pc = "idle" /\ minute = 0
    BY DEF Init, IdleJob
  <2> QED BY <2>1, <2>2 DEF NotAhead
<1>2. AheadInv(d) /\ [Next]_vars => AheadInv(d)'
  BY NextAheadInv
<1>3. AheadInv(d) /\ [Next]_vars => [LaterStep]_vars
  BY NextAheadInv
<1> QED BY <1>1, <1>2, <1>3, PTL DEF Spec, LastRunMonotone, LaterStep
=============================================================================
