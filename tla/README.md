# A formal model of DataRecon AI, Community Edition

TLA+ modules for the parts of `src/datarecon` in which order, failure or
arithmetic can make a validation tool say the wrong thing: who runs a saved
suite and when, what becomes of a run and its row-level detail, what a
repository call promises when several sessions share a connection, how every
validation reaches its verdict, how two frames are compared and their mismatches
explained, what an extraction hands out, what a first start leaves behind, and
what the pages delete. TLC checks the modules on small instances; TLAPS proves the
most important properties for every value of the constants. Paths in this file are relative to `src/datarecon`.

Contents: [inventory](#inventory) - [modules](#modules) - [runs](#runs) -
[divergences](#where-code-and-documentation-part) - [proofs](#proofs) -
[limits](#what-is-not-modelled) - [plan](#plan)

## Inventory

### Processes and what they share

Two kinds of process work on one SQLite file and one directory of Parquet files:

* the **Streamlit server**. Every browser session is a thread that reruns its
  page from top to bottom. `presentation/container.py` builds one container for
  all of them, hence ONE `MetadataDatabase` and one sqlite3 connection
  (`check_same_thread=False`).
* the **scheduler**, `python -m datarecon.scheduler`: a daemon that ticks and
  sleeps, or `--once` from an OS cron table, in which case nothing prevents the
  next process from starting while the last one is still at work. Each scheduler
  process has a connection of its own.

There is no lock, version column or queue between them. Every repository method
is a single statement in its own transaction; whatever spans two statements can
be interrupted or interleaved between them.

### Components

| Component | State | Operations | What makes it correct |
|---|---|---|---|
| Scheduler daemon (`scheduler.py`) | the clock reading, the sleep | tick, sleep, stop, start | no scheduled minute is passed over |
| Scheduler service (`application/services/scheduler_service.py`) | none of its own: `test_suites`, one list per tick | `due_suites`, `tick`, `set_schedule` | once per minute and suite; failures are notified; an edit and a run do not undo each other |
| Test suites (`test_suite_service.py`, `sqlite_test_suite_repository.py`) | `test_suites`: configuration, schedule, three last-run columns | save, delete, `run_suite`, `run_suites`, `record_run_result`, `update` | last-run columns describe one run; what is deleted stays deleted; one failure does not stop the others |
| Validation runs (`run_recording.py`, `sqlite_validation_run_repository.py`, `run_detail_store.py`) | rows of `validation_runs`; a directory of Parquet files and a manifest per run | record a run, save its detail, load it, delete it | row and directory agree; every execution leaves a trace of its outcome |
| Run management (`run_management_service.py`) | none | bulk delete, archive, export | a selection is deleted in the end, counted once; an export holds runs whole |
| Metadata database (`metadata_db.py`) | the connection and its open transaction | `cursor()`: commit or roll back; migration at start | a call that returned is stored, one that raised is not |
| Comparison engine (`core/engine/comparison_engine.py`) | none between calls | `compare` | rows are matched as configured, counted and described |
| Eight validation services (full data, record count, referential integrity, schema, duplicate, nullability, aggregation, file) | none | `execute` | the verdict follows from the counts |
| Connections (`connection_service.py`, `sqlite_connection_repository.py`) | `connections` | create, edit, clone, test, delete, count of uses | what is stored can be read back and opened; an edit and an extraction do not undo each other |
| Projects (`project_service.py`, `projects_view.py`) | `projects` | create, delete | no suite without its project |
| Credential cipher (`security/crypto.py`) | the key file | read or create the key; encrypt, decrypt | one key, which every process that is up has |
| Extraction and connectors (`data_extractor.py`, `connectors/`) | one request's frame and handles | extract, look into a catalog, test | the first rows up to the limit; nothing left open |
| Cron expressions (`core/cron.py`), column matching (`core/column_matching.py`), mismatch patterns (`core/mismatch_patterns.py`) | none | pure functions | agree with their documented meaning |
| Reporting (`reporting_service.py`) | none | export, split into batches | every row once, under a name of its own |
| Pages (`presentation/views/`) | the session state | select, stage, arm, confirm | a page acts on the selection its user confirmed |
| Notifications | none | composite delivery | one channel's failure does not silence the others |
| Profiling, checksums, suite reports, dashboard, SQL generation | none | statistics and formatting | the figures shown are those stored |

### How they interact

A tick (or the "Run" button) lists suites, and for each one reads its row again,
rebuilds the request, calls the module's `execute`, and writes the outcome into
the suite's last-run columns. `execute` extracts two frames, compares or counts
them, inserts one row into `validation_runs`, and then saves the detail under
the new row's id; any exception inserts an ERROR row and is raised again. The
Reports page deletes and exports selections of runs: detail first, row second.
Pages read lists in one rerun and act on them in a later one.

### What is hard here

* **Interleaving**: a schedule saved while its suite runs; two schedulers; a run
  deleted while its detail is still being written; two sessions that delete the
  same run; commit and rollback on a connection another thread is using.
* **Stale state**: the due list of a tick, the row a form was opened with, the
  selection of a page.
* **Partial failure and crashes**: between the row and the detail, between the
  run and the last-run columns, in the middle of a deletion, in a write that
  finds the database locked.
* **Time**: a loop that sleeps after its tick, against minutes on the wall.
* **Numbers**: percentages rounded to four decimals before they are judged,
  integers turned into doubles by a merge, tolerance zero, the ends of cron's
  ranges, the last chunk of an extraction and the last batch of a report.
* **Names and NULL**: columns spelt in two cases, group keys and join keys with
  NULL in them, titles cut off to fit a worksheet.
* **First starts**: a migration and a key that several processes may do at once.

`PROJECT.json` lists each hazard at its line, with the properties that cover it.

## Modules

| Module | Models | State |
|---|---|---|
| `TickLoop` | `scheduler.main`'s loop against the wall clock, second by second | clock, position in the loop, sleep left, last reading |
| `SuiteScheduling` | suites, schedules, ticks, runs by hand, edits | the rows of `test_suites`, `validation_runs`, one job per process, one form per editing session |
| `RunLifecycle` | `execute`'s recording and error path, `RunDetailStore`, `delete_runs`, `build_export` | rows, directories, files, the position of each execution, deleter and exporter |
| `MetadataDb` | `MetadataDatabase.cursor` over shared or private connections | stored and pending writes, the position of each thread |
| `AtomicStore` | abstract: what the callers of a repository rely on | the outcome of each call |
| `Percentages` | the arithmetic of the verdicts | none, operators only |
| `Verdicts` | from counts to the status recorded, three services | the counts, the tolerance, the status |
| `Cron` | `parse`, `matches`, `next_runs` | none |
| `ColumnMatching` | `core/column_matching.py` and the engine's own `_align_column_case` | none |
| `FrameChecks` | what schema, duplicate, nullability, aggregation, record count and integrity validation compute from their frames | none |
| `MismatchPatterns` | the detectors that explain mismatches, and unbroken blocks of keys | none |
| `Reports` | batches, worksheets, CSV, JSON, PDF, archives | none |
| `Lists` | list comprehensions with a condition, in `ColumnMatching` and `Reports` | none, operators only |
| `Analyses` | the operations above as requests and answers | the request, its answer |
| `ConnectionTypes` | which fields a form offers and fills, a type needs, a row keeps and a connector insists on | none |
| `Extraction` | a connection from its form to the rows, the catalog or the test result read through it | the connection, the request, rows fetched, handles open, the answer |
| `Startup` | migration, key file, encryption, crashes | columns, key file, one state per process, the keys of the passwords stored |
| `Connections` | the table of connections under several sessions | rows, ids given out, one operation per session, a history of extractions |
| `Projects` | projects and the suites saved under them | projects, suites, what each session found |
| `ListPages` | select, stage, arm, confirm and archive on the pages of connections, suites and runs | the list, the selection, the armed ids |
| `MCUnits` | one of the units `TickLoop`, `Verdicts`, `Analyses`, `Extraction`, `Startup`, `Connections`, `Projects`, `ListPages`, `MetadataDb` per behaviour | theirs, and which unit it is |
| `FullDataComparison` | `ComparisonEngine.compare` | the frames at each stage, the equality mask, the mismatch frame, the summary |

`MC*` modules give the constants values; `*_proofs` modules hold the theorems.
`Verdicts` and `FullDataComparison` extend `Percentages`; `MetadataDb` is shown
to implement `AtomicStore` under the mapping at its end. Definitions carry the
names of the functions they stand for, and `PROJECT.json`'s map gives the lines.
Definitions commented "Mutant of" are deliberate bugs no specification uses; each
shows that a property can fail.

**SuiteScheduling.** A step is one statement on `test_suites` or one call to
`execute`. `Tick` reads the due list once; `StartRun` is `get_by_id` and the
entry into `execute`, `SuiteGone` its failure; `ExecuteRun` and `ExecuteRaises`
are the two ways out (the second with or without an ERROR row, for a request
refused before `execute`'s try statement); `RecordResult` is the UPDATE of the
three columns, of no row if the suite is gone; `RecordFails` is the exception
`run_suites` does not catch. `OpenForm` and `SaveSchedule` are the first and last
statement of `set_schedule`, which writes back the WHOLE row as it was read.
Times are minutes, because `due_suites` compares `last_run_at` with the start of
the minute; an expression is the set of minutes it matches; ids are numbered in
the order of the names, the order of `list_all`. `fired` and `notified` are
history variables.

**RunLifecycle.** Every INSERT, DELETE, mkdir, file write, directory listing,
is_file, unlink, rmdir and read is a step. `write_text` is two: it opens the
manifest, empty, and fills it. A deleter lists the directory and removes what was
listed, so a file written later makes rmdir raise; the manifest comes last, as in
the sorted order of the names. `OnlyFinished` says whether people select runs
for deletion only once they ended: the page does not enforce it.

**MetadataDb.** A write is an opaque value. Commit stores, and rollback drops,
everything pending on the CONNECTION, whichever thread asked. `ConnOf` says who
shares: `Deployed` in the MC module is two sessions of the server and one
scheduler.

**FullDataComparison.** Cells are texts, numbers or NULL; columns have a dtype,
and the outer merge turns an integer column with a hole into doubles, rounding
what a double cannot hold (`MaxExact`, 2^53, scaled down). `Folded` is what
`Series.str` does, including that it maps what is not a string to NULL and
refuses a column with values and no string. The properties (`Meant...`) restate
what the configuration's comments ask for, from the frames as extracted, and
share nothing with the definitions of the algorithm.

**Cron, ColumnMatching, FrameChecks, MismatchPatterns, Reports.** Operators with
the names of the functions, over values scaled down: a calendar with hours of two
minutes and weeks of three days, frames of up to three rows, texts that are a word
with a case, a padding and a cut. A frame is a sequence of columns, the type of
each, and rows; NULL is a value of its own, which DuckDB groups by and does not
join. `Analyses` answers a request in one step, for none of these functions keeps
anything; the properties read the request again from the rows, the calendar or the
sections and share little with the operators.

**Extraction.** `SubmitForm` lays the form over the connection, validates it and
reads it back through the repository's columns; `Ask` picks a request; what follows
is one action per call that a driver can refuse. Rows are numbered, so a number of
rows is the first so many. `Startup` has a step for each statement of `_migrate` and
each file operation of `_load_or_create_key` (creating the file and filling it are
two), and a process may be killed before any of them. `Connections` and `Projects`
have a step for each statement; `doing` and `busy` are what a session read before.
`ListPages` has a step for each click and rerun of one session, among others that
add, delete and rename; ids that went do not come back.

## Runs

| Run | Instance | Shows |
|---|---|---|
| `schedule_alone` | one daemon, two suites, three minutes, four run rows, suites saved and deleted | no double fire, `last_run_at` never goes back, every suite on a due list is started, every failure is in the tick's notification |
| `schedule_all` | a daemon, a session running by hand, one editing; two minutes, crashes, failing writes | the last-run columns describe one execution whoever wrote them; a run does not undo an edit; nothing resurrects a deleted suite |
| `schedule_edit` | daemon and editor, no faults | violation: a double fire |
| `lifecycle_faults` | one execution (two run ids), two deleters, one exporter, all faults, finished runs selected | no directory without a row; deletions counted once; exports whole |
| `lifecycle_quiet` | two executions, one deleter, no faults, fairness | the row matches what the caller saw; a confirmed deletion takes place |
| `lifecycle_stranded` | a run selected while it is being saved | violation: a stranded directory |
| `db_shared` | the connections the program opens | violation: a returned write is not in the database |
| `units` | nine units, one per behaviour, bounds below | the properties of the next table |
| `claims_counted` | the mismatch frames of `units` | violation: a factor called exact is not the factor of every row counted |
| `connection_reload` | every type, form and way to fill it in | violation: a connection that was saved is refused by its connector |
| `comparison` | seven families of inputs, below | rows are matched as meant where nothing is lost on the way, and for one of four reasons in any case; counted, described; compare ends |
| `comparison_mixed` | columns with strings and numbers, trimmed | violation: two different numbers match |

What `units` checks:

| Unit | Property | What it rules out |
|---|---|---|
| `TickLoop` | `GapBounded` | at the shipped interval of a minute and ticks of up to a minute, readings of the clock more than two minutes apart |
| `Verdicts` | `WithinHalfAUnit` | a verdict off by more than half of the last decimal, which at tolerance zero is less than one row below 2 * `Scale` rows and more from there on |
| `Analyses` | `CronMeansWhatItSays` | a preview that lists other minutes than the five fields mean |
| | `SpellingIsIrrelevant`, `VerdictIsMeant`, `DetailAccountsForFigures` | a verdict or figure that depends on upper or lower case; a PASS with something wrong or a FAIL with nothing; figures that the saved rows do not add up to |
| | `ClaimsHold` | an explanation that is not so in a row with a value on each side, or rests on fewer rows than a claim needs; a block of whole keys with a hole |
| | `EveryRowIsExported` | rows lost, doubled or out of order in a report or an archive; two parts of one name |
| `Extraction` | `FirstRowsUpToLimit`, `NothingLeftOpen` | too many or too few rows at the limit; an engine or a cursor left open |
| `Startup` | `UpMeansUsable` | a process that is up without a column or without the key of the passwords |
| `Connections` | `UsageCountsExtractions` | a use lost to an edit or counted for a copy |
| `Projects` | `EverySuiteHasItsProject` | a suite whose project went while it was saved |
| `MetadataDb` | `ReturnedIsStored`, `RaisedLeavesNoTrace`, `ActsAtomically` | with a connection for each of three threads, two calls each, raises, lock timeouts and crashes: a write that returned and is lost, one that raised and is there; a call that takes effect in two steps |
| | `NoLockLeftBehind` | a call that ends, by whichever statement raises, with its transaction open and everybody else's writes locked out |
| `ListPages` | `DeletesWhatWasAsked` | a deletion of anything but what was selected when Delete was pressed |

### Bounds

* **Suites, processes.** Two suites are enough for one to run while the other
  waits on the due list; two actors on one row are enough for each pair of
  statements to interleave, and `schedule_all` has three. `MaxRuns = 1` there
  makes all but one execution end without a row; mixing two rows is covered by
  `schedule_alone`, and the theorem covers every bound.
* **Minutes.** Staleness needs a before and an after; `schedule_alone` has three
  minutes and an expression that matches only the middle one.
* **Run ids.** One execution already has two ids, its result's and its error's;
  two sections are enough for a deletion or an export to stand between them.
* **Verdicts.** `Scale` is 100 instead of 10^6. The boundaries of the rounding at
  tolerance zero are at 2 * `Scale` and, for two failures, 4 * `Scale` rows: row
  counts go past the first and stand on both sides of the second.
* **Cron.** Two values per field but days of the month (four) and of the week
  (three), 48 minutes ahead: every pair of restricted day fields, ranges, lists,
  steps, names, the second Sunday and each error occur.
* **Frames.** Up to three rows with two columns in either spelling, NULL, blank and
  two values: enough for a group on one side only, a NULL in a key, a duplicate of a
  duplicate. Tolerances below, at and above what those rows can reach.
* **Mismatches.** Up to three rows of numbers, two of texts or times, one column, or
  two columns for the concentration; `MinRows`, three in the code, is two. The parts
  that are tolerated, 10^-9 of the factor, 10^-8 of one, 10^-12, are a 64th, a 16th
  and a 64th, with numbers whose ratios come below and above each of them.
* **Reports.** Worksheet names of two letters and titles of up to three, so that
  cutting off, numbering and case all collide; up to three sections of up to five
  rows, two rows to a sheet, a batch and a PDF section; archives of up to three runs,
  whose ids all begin differently or all alike.
* **Extraction.** A ceiling of three, chunks of two, sources of up to five rows,
  limits below, at and above the ceiling; every type of connection.
* **Startup.** Three processes, two keys, three columns, any column to start from.
* **Stores and pages.** Two sessions, two connections with one typed name and its
  copies, one use each; two projects besides the default and three suites; three ids
  under two labels.
* **Comparison.** Texts: two rows each side of three cell values and two keys that
  fold together, under all eight combinations of the options. Numbers: up to two
  rows of integers or one of doubles, every pair, keys on one side or both or
  NULL. Tolerances 0, 1 and 2 against differences of 0 to 2. Chunks: three rows of
  two columns against every target of up to three rows, chunk sizes 0, 1 and 2.
  Large numbers: `MaxExact` is 8, and 8, 9, 11, 12 and 13 meet as integers, as doubles
  and as objects, with and without a row that has no partner; 9 becomes 8, 11 and
  13 become 12. Mixed columns and keys: texts and numbers in one column, folded.
* **Metadata database.** Three threads with two calls each: one to raise, one to hold
  the lock, one to see what is left; a second call to follow one that failed.

No run checks deadlock: bounds on the clock and on the number of calls end a
behaviour, and an answer is the end of a request.

### Fairness

* `SuiteScheduling`: weak fairness of each process's `JobStep`, which excludes
  crashes and failing writes: a process that is not killed executes its next
  statement, and an extraction ends, by a driver's timeout if nothing else.
  Nothing is assumed about ticks, the clock, editors or people.
* `RunLifecycle`: weak fairness of `DelStep`: `delete_runs` is a loop without
  waits. Executions and exporters need none.
* `FullDataComparison`: weak fairness of `Next`: compare is one call.
* The units state safety only and assume none.

## Where code and documentation part

Six runs end in a violation, each of a sentence the repository states
(`PROJECT.json` quotes them).

* **`schedule_edit`.** `set_schedule` reads a row and writes all of it back,
  `last_run_at` included. If the suite's run is recorded in between, that is
  undone, and a second tick in the same minute runs the suite again.
  `docs/adr/0014` says schedules do not double-fire.
* **`lifecycle_stranded`.** A run is listed before its detail is saved. Deleted at
  that moment, it has no directory to remove; the directory appears afterwards and
  no row leads to it.
* **`db_shared`.** Session A executes an INSERT; session B's statement raises and
  rolls back the shared connection; A's commit stores nothing and A's call
  returns.
* **`comparison_mixed`.** With trimming or case folding on, numbers in an object
  column become NULL before the comparison, so 2 and 3 match.
* **`claims_counted`.** `_ratio_pattern` calls `np.allclose` with `rtol` and leaves its
  `atol` at 1e-8. Ratios that are all that small are one factor to it, be they zero
  and 1e-8; the run's rows have the ratios 0 and 1/16. A row with a NULL on one
  side is counted in `affected_rows` though no detector but those of NULLs looked at
  it. `mismatch_insights.py:47` and `docs/adr/0015:43` promise "exactly" of every row.
* **`connection_reload`.** The table has columns for the fields of JDBC, Databricks
  and cloud storage; the repository's two statements leave them out. Such a
  connection is validated, saved, and then refused whenever it is used.

The same modules reach further states a reader should know of. They have no run of
their own; each appears when the assumption named is dropped.

* With `MaxGap = 1` at the shipped interval `GapBounded` fails: the loop sleeps a
  whole interval after each tick, so its readings drift and a minute passes with
  none (README.md:74 says "tick every minute").
* With a runner beside the daemon `NoDoubleFire` fails: a run by hand that
  finished earlier but is recorded later sets `last_run_at` back.
* With two schedulers a suite can be in two executions at once.
* With `CanLock` `EveryDueSuiteRuns` fails: `run_suites` catches `TestSuiteError`
  only, so one result that cannot be written ends the tick.
* With two deleters `DeletedEventually` fails: the slower session's unlink raises
  `FileNotFoundError` and the rest of its selection stays.
* With `CanFail` `OutcomeRecorded` fails: if saving the detail raises, a run is left
  with its PASS row and an ERROR row beside it.
* "0.0 means any orphan fails" (`referential_integrity_service.py:48`) is kept
  below 2 * `Scale` rows (two million at four decimals) and not from there on, where
  one failing row passes at tolerance zero: theorems `SmallComparisonsAreStrict` and
  `OneFailureIsLost`.
* "0.0 = exact" (`comparison_engine.py:84`) is not kept beyond 2^53: an unmatched row
  turns the column into doubles, and two integers next to each other become one
  double. `MatchesAreAccountedFor` names it as the one reason for which numbers
  that differ match. Integer columns with a tolerance are not judged as meant either:
  whether the tolerance applies to integers depends on whether some row is
  unmatched. `NothingIsLost`, the condition of `RowsAreJudgedAsMeant`, names both.
* With `FirstStartsAlone = FALSE` `UpMeansUsable` fails: two first starts each
  generate a key, and the later one overwrites the key a password was encrypted
  with. A process killed between creating the key file and filling it leaves an
  empty one that no later start accepts.
* Cron: `0-7` in the day of the week means Sunday alone, `7-2` is read as Sunday to
  Tuesday and `5-7` raises, though
  `core/cron.py:11-12` accepts 7 as Sunday, as Vixie cron does; `*/2` in a day field
  counts as restricted when the two day fields are combined.
* Where a frame has both `ID` and `id`, docs/adr/0009:47 lets the first spelling
  win; `comparison_engine.py:228` lets the last one. Schema validation takes
  positions from the last and types from the first.
* Blocks of keys are looked for if the first key is whole, so 1, 1.5 and 3 are one.
  `docs/adr/0015` says fewer than three rows produce no claim at all; claims about
  NULLs, blanks and case need one row only.
* The folder of a run in an archive is its label and, if that is taken, the first
  eight characters of its id, which nothing looks up again: two runs of one label
  whose ids begin alike share a folder. `EveryRowIsExported` asks for different
  folders of the others (`HeadsDiffer`).
* Duplicates of a key with NULL FAIL and show no row. Groups with NULL in their key
  never join in a record count's breakdown. A group missing on one side passes an
  aggregation if its aggregate is zero or NULL. A blank that is also a sentinel is
  counted twice. An integer column with a NULL is a FLOAT to schema validation.
* Copying a connection twice raises IntegrityError past the page. Renaming a
  project keeps the blanks around its name. A suite that is saved after the page
  counted a project's suites goes with the project, unasked.
* Two suites of one name in two projects are one entry of the bulk list; the armed
  list of the runs and suites survives a change of the selection, which the page of
  connections checks; a built archive stays on offer whatever is selected later.
* A row limit of 0 means the ceiling. Two sides cut off at the ceiling are compared
  without a word. `get_catalog_columns` raises where its docstring promises None:
  the engine is made outside its try statement. A failed test leaves its engine open.
* `_unique_sheet_name` tells worksheets apart by case, the writer does not: a report
  with the sections `Top Values - id` and `Top Values - ID` raises. In JSON a title
  stands for one section.
* An archive sanitises titles and does not tell them apart again, as `_unique_slug` does
  in the run's directory: two columns of a profile whose names differ in letters outside
  A-Z only give two files of one name. (Read in the code; no run shows it.)

## Proofs

All theorems are checked by TLAPS with no step left out.

| Module | Theorem | Assuming |
|---|---|---|
| `Units_proofs` | `TypeCorrect`; `GapIsBounded` | - ; interval + longest tick <= `MaxGap` minutes |
| | `StartedProcessesAreUsable` | `FirstStartsAlone` |
| | `OneFailureIsLost` | at least 2 * `Scale` rows |
| | `SmallComparisonsAreStrict` | fewer than 2 * `Scale` rows |
| | `VerdictsAreWithinHalfAUnit` | - |
| `SuiteScheduling_proofs` | `TypeCorrect`, `LastRunIsAlwaysARun`, `DeletedSuitesStayDeleted`, `RunsLeaveSchedulesAlone` | - |
| | `OneDaemonNeverDoubleFires` | one scheduler, no runner, no editor, no crash, no failing write |
| | `OneProcessMovesForward` | one process that runs suites, a scheduler or a session; no editor |
| `RunLifecycle_proofs` | `TypeCorrect`, `DeletionsAreCountedOnce`, `ExportsAreWhole` | - |
| | `FinishedRunsStrandNothing` | `OnlyFinished` |
| | `OutcomesAreRecorded` | `OnlyFinished`, no failing write |
| `MetadataDb_proofs` | `TypeCorrect`, `NoLockIsLeftBehind` | - |
| | `QuietCallsAreStored` | nothing raises; connections may be shared |
| | `PrivateFailuresLeaveNoTrace`, `PrivateActsAtomically` | a connection for each thread |
| `Stores_proofs` | `SuitesKeepTheirProjects`, `UsageIsTheNumberOfExtractions`, `ConfirmationsDeleteWhatWasAsked` | - |
| | `ExtractionsReachTheirLimit`, `OnlyFailedTestsLeak` | - |
| `FullDataComparison_proofs` | `TypeCorrect`, `DiffIsComplete`, `NoRowDisappears`, `MatchesAreAlwaysAccountedFor` | - |
| | `VerdictsAreMeant` | `NothingIsLost`, a condition of the property |
| `Analyses_proofs` | `PreviewsListWhatIsMeant`, `ClaimsAreSo`, `DetailAccounts` | - |
| | `SpellingDoesNotMatter`, `ReportsHoldEveryRow` | - |
| | `VerdictsSayWhatIsMeant` | `RoundingTellsApart` |

`Reports_proofs` holds the lemmas that `ReportsHoldEveryRow` rests on: what each
format makes of any report (`ReportIsExported`) and an archive of any selection
(`SelectionIsExported`), and the laws of lists put together, filtered and cut.

Beyond these, each theorem uses the named ASSUMEs of its module, which say what kind
of value each constant is. For `Analyses` they say more:

* `TasksAssumption`: a request is as a service takes it (`IsRequest`: columns, rows and
  keys are lists, tolerances are not negative, a column that is aggregated holds numbers
  or NULL, a target whose columns are renamed has no two that differ by case alone); a
  frame of mismatches is as the comparison makes one (`IsMismatchFrame`); the calendar
  reaches as far as the search.
* A report is any list of titled lists of rows (`IsReport`; a row is labelled by its
  place so that a lost and a doubled one can be told). A selection of runs
  (`IsSelection`) has each run once, for the page selects rows of a table by their key;
  the sections of a run have different titles, none of which is the summary's or ends
  in a batch number: six services save one section each, full data validation four,
  all under fixed titles. Profiling names sections after columns, and a run of it is
  covered only while those names stay different when sanitised and not numbered. The
  titles of a report are free.
* `ToleranceAssumption`: the tolerances of `np.allclose` and of its callers are parts
  of one, not larger than a quarter.
* `SpellingAssumption`: the other spelling of a name folds to the same name, and two
  columns in it are still two.

TLC evaluates all of them for every task of `units`.

The hypotheses in the last column are the boundaries of what the code does:

* `NothingIsLost`: with trimming or folding on, keys and object columns hold strings
  and NULL only; doubles hold the numbers compared (up to 2^53); a tolerance is not
  asked of a column that is integer on both sides. What happens where one of the first
  two is not so, at tolerance zero, is `MatchesAreAlwaysAccountedFor`, which has no
  condition; `comparison_mixed` runs one such comparison.
* `RoundingTellsApart`: what is judged without tolerance is a percentage rounded to four
  decimals. Fewer than 2 * `Scale` rows (two million) keep one orphan or one row too
  many visible, sums below 2 * `Scale` in the source's groups one unit of difference;
  the nullability score is a mean of rounded percentages that is rounded once more,
  so that rows times columns, and one column more, have to stay below. Schema,
  duplicate and column checks round nothing and need no bound.
  Every task of `units` meets it, and `OneFailureIsLost` says what happens beyond.

The arguments:

* **`GapIsBounded`.** `IInv` adds to `TypeOK` that `age` is the distance from the
  last reading to now (`AgeIsDistance`) and that age and the sleep left fit in one
  interval and one tick (`AgeBudget`). Neither is a consequence of `GapBounded`,
  which only sees minutes.
* **`LastRunIsAlwaysARun`.** The columns are rewritten from three sources: a job's
  outcome, a form's stale copy, a new row. `RunInv` says that each of them already
  describes one execution (`ResultIsARun`, `SeenIsARun`); rows of
  `validation_runs` are only appended, so what described a run still does.
* **`OneDaemonNeverDoubleFires`.** `FireInv` says that a suite fired for a minute
  is in execution, about to be recorded, or has a `lastAt` not before that minute
  (`FiredIsAccountedFor`), and that what is left on the due list has not fired for
  the tick's minute (`TodoIsUnfired`). An edit or a lost write breaks the first.
* **`OneProcessMovesForward`.** `NotAhead`: no row is ahead of the clock, and an outcome
  about to be recorded is not behind the row it goes to. Crashes and failed writes
  are allowed: an outcome that is lost moves nothing back.
* **`FinishedRunsStrandNothing`.** `KeptInv` ties the position of executions and
  deleters to the directories: only a run that ended is being deleted, and before
  its row goes its directory has gone.
* **`OutcomesAreRecorded`** rests on `KeptInv`, on `CountInv` (what is counted has
  been listed and has no row) and on `FiledInv` (which row an execution at each
  position has).
* **`ExportsAreWhole`.** `WholeInv`: a manifest says that every section is there; an
  execution has written what it no longer has left; an export past the manifest
  has every section behind it, in hand or ahead.
* **`PrivateActsAtomically`** is the refinement of `AtomicStore`, step by step:
  `Commit`, `Rollback` and `Return` are its three steps and everything else
  stutters. `PrivateInv` supplies that a connection's pending writes are its own
  thread's current call (`Alone`), which sharing breaks.
* **`SmallComparisonsAreStrict`** and **`VerdictsAreWithinHalfAUnit`** rest on
  `NearestWithinHalf`, which bounds the rounded quotient from both sides, and on
  `Judged`, which says that a status is what the rounded figure called for.
* **`StartedProcessesAreUsable`.** `StartInv`: a process never looks past the columns
  there are (`ColumnsAreThere`); what it knows of the key file at each of its steps
  is still so (`KeyIsKnown`); and until there is a key only one process is on its
  way (`FirstIsAlone`), which is where the assumption enters.
* **`SuitesKeepTheirProjects`** is inductive with the types: a suite is inserted only
  under a project that is there, and only the cascade removes one.
* **`UsageIsTheNumberOfExtractions`.** `NewIsUnused`: a row about to be inserted has
  not been used, an id not given out has handed out nothing, and an extraction is
  under way only through an id that was. Edits and tests fall under `RewriteKeeps`.
* **`ConfirmationsDeleteWhatWasAsked`.** `ArmedWasAsked`: as many ids are armed as
  labels were asked for, and those still listed bear such a label, on the pages
  where labels do not change.
* **`ExtractionsReachTheirLimit`**, **`OnlyFailedTestsLeak`.** `PhaseInv` says for each
  phase what is open and that nothing is fetched beyond the source; the rest is
  arithmetic on the smaller of two numbers.
* **The comparison.** `ComparisonInv` has a part for each stage: `Typed` says what the
  frames look like in each phase, `Prepared` that they are the extracted ones
  normalised, `Masked` that the equality mask of a column already compared is the one
  the definitions give, `Chunked` that the mismatch frame is the description of the
  mismatched rows up to the position reached, whatever the chunk size. `DiffIsComplete`
  and `NoRowDisappears` follow by counting (`SplitInThree`: matched, mismatched and
  one-sided keys partition those there are). For `VerdictsAreMeant` the frames are
  traced back: a normalised frame means its table (`TableIsMeant`), the merge keeps each
  side's cells (`SideIsMeant`), so a row is judged on the cells as extracted (`Judged`),
  and equality of what the code holds is equality of what was meant (`MatchedAsMeant`),
  which is where `NothingIsLost` enters. `MatchesAreAlwaysAccountedFor` does without:
  what is left of a cell is the cell, its folded text or nothing, and a double is at
  most one away from the number it stands for (`ToFloatIsNear`), so that two numbers
  that became one are at most two apart.
* **`PreviewsListWhatIsMeant`.** From the name or number in a field to what it stands for
  (`ValueIsMeant`), to a piece's range and step (`PieceIsMeant`; the modulus is turned
  into multiples of the step), to the whole expression with its two day fields
  (`MatchesAreMeant`). The search is a fold over the minutes ahead; `FoundSoFar` is its
  loop invariant: what is found are the first minutes that match, in order, up to the
  minute looked at.
* **`ClaimsAreSo`.** A detector that fires has looked at enough rows
  (`DetectorsSeeEnough`), and what it says is so in each of them (`DetectorsAreSo`, one
  case per detector). For the numeric ones: fractions are ordered (`FractionsAreOrdered`),
  so the middle ones exist (`RankedIsFraction`) and the median is a fraction
  (`MedianIsFraction`); a ratio near the factor makes one value the factor times the
  other (`NearIsTimes`), and a factor near -1 leaves no two values of one sign
  (`MinusIsOpposite`). The explanations made are finitely many and totally ordered, so
  that what `sort` returns exists (`OrderExists`); and keys that are all different, as
  many as the distance of their ends, leave no hole between them (`BlockIsUnbroken`,
  by counting).
* **`NoLockIsLeftBehind`** is inductive with the types: a write joins the transaction
  of its own thread's connection, which ends by that thread's commit or rollback, or
  by another's, before the call does.
* **`VerdictsSayWhatIsMeant`.** One lemma per service. What is resolved by name is what the
  property reads by name; a group is missing, doubled or different exactly if the
  set the service computes is not empty; and the figure judged is zero, or 100%, exactly
  if that set is empty: `NearestIsNear` and `ShareShows` for one rounding,
  `CompletenessIsMeant` for the mean of many. With no columns named, nullability reads
  every column under its own name, not under the first of its spellings: so does the
  property.
* **`SpellingDoesNotMatter`.** The folded names of the target's columns are those of the
  other spelling, position by position, and `CanonicalMap` takes each to the respelled
  column (`RespelledTable`); keys resolve to the respelled keys
  (`RespelledKeysResolve`), so every cell read is the same cell (`RespelledCells`).
  Then one lemma per service: each is a function of cells, folded names and counts.
  For the engine, a name is on both sides exactly if its folded form is
  (`OnBothSidesByFold`), in either spelling.
* **`ReportsHoldEveryRow`.** `FlattenIsRunning` and `KeptIsAmong` turn the recursive
  definitions of lists put together and filtered into tables of what there is after
  each element, about which induction over numbers proves the rest. The batches of a
  section are the intervals between multiples of the size, which put together are the
  section (`BatchesHoldEveryRow`). A sheet's name is new among those in use: there are
  more numbers to try than names, and the name fits the width (`ExcelHoldsEveryRow`).
  The folders of an archive differ because a label taken before is joined by the run's
  id, and the ids begin differently (`FoldersAreDistinct`), and the files of one folder
  because their titles do (`BuildHoldsEveryRow`).
* **`DetailAccounts`.** Sums over finite sets get their laws from a table of all partial
  sums (`SumTableExists`, `SumLaws`); disjoint parts of a set add up (`PartsAddUp`), so
  do the groups of either frame, and with them a breakdown that keeps groups with NULL
  apart (`BreakdownAddsUp`). A group of duplicates has two rows at least, and a sample
  of the size asked for exists (`SubsetsOfEverySize`).

Only model-checked: the liveness properties (`EveryDueSuiteRuns`,
`EveryFailureIsNotified`, `DeletedEventually`, `Terminates`), which like ENABLED are out
of the prover's reach. Every other property a passing run checks is stated by a theorem.

Where a definition could be reasoned about at no loss it has been written so: sums are
folds over finite sets, list comprehensions folds over lists (`Among`, where the
library's `SelectSeq` is recursive), and induction over sets of naturals and over finite
sets (`SetInduction`, `FiniteInduction`) takes the place of the library's theorems with
an operator parameter.

## What is not modelled

* In the modules above: the text of notifications and what channels do with
  them; the configuration of a suite, reduced to the outcome of its run; SQLite's
  own recovery (taken as given: an open transaction of a killed process is dropped);
  in `FullDataComparison`, keys of several columns or of numeric dtype, dates, and
  rounding inside the tolerance test itself; the splitting of a cron expression's
  text; the wording of explanations and of comparison tables; URLs, SQL dialects and
  file formats; the name and description of a project. `Percentages` is exact
  arithmetic where the code divides doubles; the two can differ only within a
  rounding error of an exact tie. A numbered suffix counts as one letter in
  `Reports`, and titles in an archive are taken as `sanitize_export_name` leaves them.
* **Notifications**: `SuiteScheduling` stops at the hand-over. Behind it is a loop
  over channels, each of which tries once and swallows its errors; nothing is left
  to order or state.
* **Profiling and file checksums**: statistics in floating point, and hashes of
  files; no verdict depends on order, state or boundaries a small model has.
* **Suite reports, dashboard, SQL generation**: aggregation and formatting of rows
  already stored, and text.
* Input and output proper (drivers, file formats, layout) stays out.

## Plan

1. Done: scheduling, the life of a run, the metadata database, verdicts, the
   comparison; cron, column names, the other validations, explanations, reports,
   extraction, startup, connections, projects, the pages that delete; type
   correctness and the safety theorems for every module with state, the meaning of
   previews, verdicts and explanations.
2. Done: theorems for every invariant and action property of a passing run, from which
   spelling in either case and the rows of reports and archives were the last.
3. Next, compositions: a suite's run as an execution of `RunLifecycle`; repository
   calls of `SuiteScheduling` and `Connections` over the calls of `MetadataDb`;
   abstract specifications of the scheduler (each suite at most once per minute) and
   of the run store (a run is there with its detail or not at all).
