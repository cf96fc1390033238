---------------------------- MODULE RunLifecycle ----------------------------
(***************************************************************************)
(* The life of a validation run, which is kept in two stores that nothing  *)
(* keeps in step: a row of validation_runs (SQLite) and, under the run id, *)
(* a directory of Parquet files with a manifest (RunDetailStore).          *)
(*                                                                         *)
(*   Execs      one call each of a validation service's execute: row first,*)
(*              then the sections, then the manifest; any exception writes *)
(*              an ERROR row and is raised again;                          *)
(*   Deleters   sessions in RunManagementService.delete_runs: the files,   *)
(*              the directory, then the row;                               *)
(*   Exporters  sessions in build_export (or the run page), which read the *)
(*              row, the manifest and the sections it names.               *)
(*                                                                         *)
(* Every statement on the database and every call on the file system is a  *)
(* step of its own.                                                        *)
(***************************************************************************)
EXTENDS Integers, FiniteSets

CONSTANTS
  Execs, Deleters, Exporters,
  Sections,     \* the titles of a run's detail sections
  Manifest,     \* the manifest's file name
  CanFail,      \* whether a write to the database or the disk may raise
  CanCrash,     \* whether a process may be killed
  OnlyFinished  \* whether runs are selected for deletion only once they ended

ASSUME ManifestAssumption == Manifest \notin Sections
ASSUME SwitchesAssumption ==
  CanFail \in BOOLEAN /\ CanCrash \in BOOLEAN /\ OnlyFinished \in BOOLEAN

(* An execution draws at most two run ids: one for its PASS or FAIL row and *)
(* one for an ERROR row.  Only the first ever names a detail directory.     *)
RunIds      == Execs \X {"result", "error"}
ResultOf(e) == <<e, "result">>
ErrorOf(e)  == <<e, "error">>
Files       == Sections \cup {Manifest}
None        == <<>>

VARIABLES
  rows,       \* run ids in validation_runs
  dirs,       \* run ids with a directory in the detail store
  files,      \* the files in each directory
  whole,      \* run ids whose manifest is complete, not just opened
  exec,       \* where each execution is, and the sections it has yet to write
  del,        \* where each deleter is
  exp,        \* where each exporter is
  condemned   \* history: run ids ever selected for deletion

vars == <<rows, dirs, files, whole, exec, del, exp, condemned>>

Exec == [pc : {"new", "save", "write", "fill", "except", "returned", "raised",
               "refused", "dead"},
         left : SUBSET Sections]

Ended(e) == exec[e].pc \in {"returned", "raised", "refused", "dead"}

(* pc "loop": between two runs of the selection; "check", "list", "file",   *)
(* "unlink": in RunDetailStore.delete; "row": before the DELETE.            *)
Del == [pc : {"idle", "loop", "check", "list", "file", "unlink", "row"},
        todo : SUBSET RunIds, cur : RunIds \cup {None},
        left : SUBSET Files, file : Files \cup {None},
        counted : SUBSET RunIds]

NoDel == [pc |-> "idle", todo |-> {}, cur |-> None, left |-> {},
          file |-> None, counted |-> {}]

(* pc "loop": between two runs; "manifest", "exists", "read": in load_all;  *)
(* "packed": the run's folder is in the archive.                            *)
Exp == [pc : {"idle", "loop", "manifest", "exists", "read", "packed"},
        todo : SUBSET RunIds, cur : RunIds \cup {None},
        left : SUBSET Sections, file : Sections \cup {None},
        got : SUBSET Sections]

NoExp == [pc |-> "idle", todo |-> {}, cur |-> None, left |-> {},
          file |-> None, got |-> {}]

TypeOK ==
  /\ rows \subseteq RunIds
  /\ dirs \subseteq RunIds
  /\ files \in [RunIds -> SUBSET Files]
  /\ whole \subseteq RunIds
  /\ exec \in [Execs -> Exec]
  /\ del \in [Deleters -> Del]
  /\ exp \in [Exporters -> Exp]
  /\ condemned \subseteq RunIds

Init ==
  /\ rows = {}
  /\ dirs = {}
  /\ files = [id \in RunIds |-> {}]
  /\ whole = {}
  /\ exec = [e \in Execs |-> [pc |-> "new", left |-> {}]]
  /\ del = [d \in Deleters |-> NoDel]
  /\ exp = [x \in Exporters |-> NoExp]
  /\ condemned = {}

-----------------------------------------------------------------------------
(* execute                                                                  *)

ExecGoes(e, pc, left) == exec' = [exec EXCEPT ![e] = [pc |-> pc, left |-> left]]

(* The request is refused before the try statement: nothing is recorded.    *)
Refuse(e) ==
  /\ exec[e].pc = "new"
  /\ ExecGoes(e, "refused", {})
  /\ UNCHANGED <<rows, dirs, files, whole, del, exp, condemned>>

(* Extraction or comparison raises.                                         *)
ComputeFails(e) ==
  /\ exec[e].pc = "new"
  /\ ExecGoes(e, "except", {})
  /\ UNCHANGED <<rows, dirs, files, whole, del, exp, condemned>>

(* The result is there: record_run inserts the PASS or FAIL row.            *)
RecordResult(e) ==
  /\ exec[e].pc = "new"
  /\ rows' = rows \cup {ResultOf(e)}
  /\ ExecGoes(e, "save", {})
  /\ UNCHANGED <<dirs, files, whole, del, exp, condemned>>

(* A module with nothing to show saves no detail.                           *)
SaveNothing(e) ==
  /\ exec[e].pc = "save"
  /\ ExecGoes(e, "returned", {})
  /\ UNCHANGED <<rows, dirs, files, whole, del, exp, condemned>>

MakeDir(e) ==
  /\ exec[e].pc = "save"
  /\ dirs' = dirs \cup {ResultOf(e)}
  /\ ExecGoes(e, "write", Sections)
  /\ UNCHANGED <<rows, files, whole, del, exp, condemned>>

(* to_parquet of the next section; without its directory it raises.         *)
WriteSection(e, sec) ==
  /\ exec[e].pc = "write"
  /\ sec \in exec[e].left
  /\ IF ResultOf(e) \in dirs
       THEN /\ files' = [files EXCEPT
                           ![ResultOf(e)] = files[ResultOf(e)] \cup {sec}]
            /\ ExecGoes(e, "write", exec[e].left \ {sec})
       ELSE /\ ExecGoes(e, "except", {})
            /\ UNCHANGED files
  /\ UNCHANGED <<rows, dirs, whole, del, exp, condemned>>

(* Mutant of OpenManifest: written without waiting for the sections.        *)
OpenManifestEarly(e) ==
  /\ exec[e].pc = "write"
  /\ ResultOf(e) \in dirs
  /\ files' = [files EXCEPT
                  ![ResultOf(e)] = files[ResultOf(e)] \cup {Manifest}]
  /\ ExecGoes(e, "fill", {})
  /\ UNCHANGED <<rows, dirs, whole, del, exp, condemned>>

(* _write_manifest, once every section is on disk: write_text opens the     *)
(* file, empty, and then fills it.                                          *)
OpenManifest(e) ==
  /\ exec[e].pc = "write"
  /\ exec[e].left = {}
  /\ IF ResultOf(e) \in dirs
       THEN /\ files' = [files EXCEPT
                           ![ResultOf(e)] = files[ResultOf(e)] \cup {Manifest}]
            /\ ExecGoes(e, "fill", {})
       ELSE /\ ExecGoes(e, "except", {})
            /\ UNCHANGED files
  /\ UNCHANGED <<rows, dirs, whole, del, exp, condemned>>

(* An open file can be written to even when it has been unlinked.           *)
FillManifest(e) ==
  /\ exec[e].pc = "fill"
  /\ whole' = IF Manifest \in files[ResultOf(e)] THEN whole \cup {ResultOf(e)}
                                                 ELSE whole
  /\ ExecGoes(e, "returned", {})
  /\ UNCHANGED <<rows, dirs, files, del, exp, condemned>>

(* The INSERT of the row, mkdir, or the write of a file raises; a section   *)
(* half written may stay behind, which no manifest names.                   *)
WriteFails(e) ==
  /\ CanFail
  /\ exec[e].pc \in {"new", "save", "write", "fill"}
  /\ ExecGoes(e, "except", {})
  /\ \/ UNCHANGED files
     \/ /\ exec[e].pc = "write" /\ ResultOf(e) \in dirs
        /\ \E sec \in exec[e].left :
             files' = [files EXCEPT
                         ![ResultOf(e)] = files[ResultOf(e)] \cup {sec}]
  /\ UNCHANGED <<rows, dirs, whole, del, exp, condemned>>

(* Mutant of RecordError: the exception goes on unrecorded.                 *)
RecordErrorNever(e) ==
  /\ exec[e].pc = "except"
  /\ ExecGoes(e, "raised", {})
  /\ UNCHANGED <<rows, dirs, files, whole, del, exp, condemned>>

(* Mutant of RecordError: the row is filed under the request's own id.      *)
RecordErrorByRequest(e) ==
  /\ exec[e].pc = "except"
  /\ rows' = rows \cup {<<e>>}
  /\ ExecGoes(e, "raised", {})
  /\ UNCHANGED <<dirs, files, whole, del, exp, condemned>>

(* The except clause: an ERROR row, and the exception goes on.              *)
RecordError(e) ==
  /\ exec[e].pc = "except"
  /\ rows' = rows \cup {ErrorOf(e)}
  /\ ExecGoes(e, "raised", {})
  /\ UNCHANGED <<dirs, files, whole, del, exp, condemned>>

(* The INSERT of the ERROR row raises in its turn.                          *)
RecordErrorFails(e) ==
  /\ CanFail
  /\ exec[e].pc = "except"
  /\ ExecGoes(e, "raised", {})
  /\ UNCHANGED <<rows, dirs, files, whole, del, exp, condemned>>

CrashExec(e) ==
  /\ CanCrash
  /\ ~Ended(e)
  /\ ExecGoes(e, "dead", {})
  /\ UNCHANGED <<rows, dirs, files, whole, del, exp, condemned>>

-----------------------------------------------------------------------------
(* delete_runs                                                              *)

(* What the run table has ever listed; the ids armed for deletion, or       *)
(* picked for an extract, may have been listed several reruns ago.          *)
Listed == rows \cup condemned

Selectable == IF OnlyFinished THEN {id \in Listed : Ended(id[1])} ELSE Listed

DelGoes(d, rec) == del' = [del EXCEPT ![d] = rec]

(* An exception leaves delete_runs: the rest of the selection is dropped,   *)
(* what was counted is not reported.                                        *)
Abort(d) == DelGoes(d, [NoDel EXCEPT !.counted = del[d].counted])

PressDelete(d, chosen) ==
  /\ del[d].pc = "idle"
  /\ chosen # {} /\ chosen \subseteq Selectable
  /\ condemned' = condemned \cup chosen
  /\ DelGoes(d, [NoDel EXCEPT !.pc = "loop", !.todo = chosen,
                              !.counted = del[d].counted])
  /\ UNCHANGED <<rows, dirs, files, whole, exec, exp>>

NextDelete(d, id) ==
  /\ del[d].pc = "loop"
  /\ id \in del[d].todo
  /\ DelGoes(d, [del[d] EXCEPT !.pc = "check", !.cur = id,
                               !.todo = del[d].todo \ {id}])
  /\ UNCHANGED <<rows, dirs, files, whole, exec, exp, condemned>>

(* Mutant of CheckDir: the row goes before the files.                       *)
CheckDirAfterRow(d) ==
  /\ del[d].pc = "check"
  /\ rows' = rows \ {del[d].cur}
  /\ DelGoes(d, [del[d] EXCEPT !.pc = IF del[d].cur \in dirs THEN "list"
                                                             ELSE "row"])
  /\ UNCHANGED <<dirs, files, whole, exec, exp, condemned>>

(* Mutant of CheckDir: a run without a directory is taken to be missing.    *)
CheckDirOrSkip(d) ==
  /\ del[d].pc = "check"
  /\ DelGoes(d, [del[d] EXCEPT !.pc = IF del[d].cur \in dirs THEN "list"
                                                             ELSE "loop"])
  /\ UNCHANGED <<rows, dirs, files, whole, exec, exp, condemned>>

(* run_dir.is_dir()                                                         *)
CheckDir(d) ==
  /\ del[d].pc = "check"
  /\ DelGoes(d, [del[d] EXCEPT !.pc = IF del[d].cur \in dirs THEN "list"
                                                             ELSE "row"])
  /\ UNCHANGED <<rows, dirs, files, whole, exec, exp, condemned>>

(* sorted(run_dir.iterdir()): raises when the directory is gone by now.     *)
ListDir(d) ==
  /\ del[d].pc = "list"
  /\ IF del[d].cur \in dirs
       THEN DelGoes(d, [del[d] EXCEPT !.pc = "file",
                                      !.left = files[del[d].cur]])
       ELSE Abort(d)
  /\ UNCHANGED <<rows, dirs, files, whole, exec, exp, condemned>>

(* path.is_file() of the next listed file.  The manifest is last: in the    *)
(* sorted order its underscore follows the capital every title starts with. *)
CheckFile(d, f) ==
  /\ del[d].pc = "file"
  /\ f \in del[d].left
  /\ f = Manifest => del[d].left = {Manifest}
  /\ IF f \in files[del[d].cur]
       THEN DelGoes(d, [del[d] EXCEPT !.pc = "unlink", !.file = f,
                                      !.left = del[d].left \ {f}])
       ELSE DelGoes(d, [del[d] EXCEPT !.left = del[d].left \ {f}])
  /\ UNCHANGED <<rows, dirs, files, whole, exec, exp, condemned>>

(* path.unlink(): raises when another session was faster.                   *)
Unlink(d) ==
  LET id == del[d].cur IN
  /\ del[d].pc = "unlink"
  /\ IF del[d].file \in files[id]
       THEN /\ files' = [files EXCEPT ![id] = files[id] \ {del[d].file}]
            /\ whole' = IF del[d].file = Manifest THEN whole \ {id} ELSE whole
            /\ DelGoes(d, [del[d] EXCEPT !.pc = "file", !.file = None])
       ELSE /\ Abort(d)
            /\ UNCHANGED <<files, whole>>
  /\ UNCHANGED <<rows, dirs, exec, exp, condemned>>

(* run_dir.rmdir(): raises when the directory is gone, or not empty.        *)
Rmdir(d) ==
  LET id == del[d].cur IN
  /\ del[d].pc = "file"
  /\ del[d].left = {}
  /\ IF id \in dirs /\ files[id] = {}
       THEN /\ dirs' = dirs \ {id}
            /\ DelGoes(d, [del[d] EXCEPT !.pc = "row"])
       ELSE /\ Abort(d)
            /\ UNCHANGED dirs
  /\ UNCHANGED <<rows, files, whole, exec, exp, condemned>>

(* Mutant of DeleteRow: rowcount is not looked at.                          *)
DeleteRowCounts(d) ==
  /\ del[d].pc = "row"
  /\ rows' = rows \ {del[d].cur}
  /\ DelGoes(d, [del[d] EXCEPT !.pc = "loop", !.cur = None,
                               !.counted = del[d].counted \cup {del[d].cur}])
  /\ UNCHANGED <<dirs, files, whole, exec, exp, condemned>>

(* DELETE FROM validation_runs: counted only if there was a row.            *)
DeleteRow(d) ==
  LET id == del[d].cur IN
  /\ del[d].pc = "row"
  /\ rows' = rows \ {id}
  /\ DelGoes(d, [del[d] EXCEPT !.pc = "loop", !.cur = None,
                               !.counted = del[d].counted \cup ({id} \cap rows)])
  /\ UNCHANGED <<dirs, files, whole, exec, exp, condemned>>

(* A file cannot be removed, or the DELETE finds the database locked.       *)
DeleteFails(d) ==
  /\ CanFail
  /\ del[d].pc \in {"list", "unlink", "file", "row"}
  /\ Abort(d)
  /\ UNCHANGED <<rows, dirs, files, whole, exec, exp, condemned>>

FinishDelete(d) ==
  /\ del[d].pc = "loop"
  /\ del[d].todo = {}
  /\ Abort(d)
  /\ UNCHANGED <<rows, dirs, files, whole, exec, exp, condemned>>

(* The server is killed: the sessions in it are gone, whatever they held.   *)
CrashDelete(d) ==
  /\ CanCrash
  /\ del[d].pc # "idle"
  /\ Abort(d)
  /\ UNCHANGED <<rows, dirs, files, whole, exec, exp, condemned>>

-----------------------------------------------------------------------------
(* build_export and load_all                                                *)

ExpGoes(x, rec) == exp' = [exp EXCEPT ![x] = rec]

PressExport(x, chosen) ==
  /\ exp[x].pc = "idle"
  /\ chosen # {} /\ chosen \subseteq Listed
  /\ ExpGoes(x, [NoExp EXCEPT !.pc = "loop", !.todo = chosen])
  /\ UNCHANGED <<rows, dirs, files, whole, exec, del, condemned>>

(* A run whose row is gone is skipped.                                      *)
NextExport(x, id) ==
  /\ exp[x].pc \in {"loop", "packed"}
  /\ id \in exp[x].todo
  /\ ExpGoes(x, [NoExp EXCEPT !.pc = IF id \in rows THEN "manifest" ELSE "loop",
                              !.cur = IF id \in rows THEN id ELSE None,
                              !.todo = exp[x].todo \ {id}])
  /\ UNCHANGED <<rows, dirs, files, whole, exec, del, condemned>>

(* Without a manifest there is no detail; one that is still empty does not  *)
(* parse, and the whole export raises.                                      *)
ReadManifest(x) ==
  LET id == exp[x].cur IN
  /\ exp[x].pc = "manifest"
  /\ \/ /\ Manifest \notin files[id]
        /\ ExpGoes(x, [exp[x] EXCEPT !.pc = "packed"])
     \/ /\ Manifest \in files[id] /\ id \in whole
        /\ ExpGoes(x, [exp[x] EXCEPT !.pc = "exists", !.left = Sections])
     \/ /\ Manifest \in files[id] /\ id \notin whole
        /\ ExpGoes(x, NoExp)
  /\ UNCHANGED <<rows, dirs, files, whole, exec, del, condemned>>

(* path.exists() of the next section named: a missing one is left out.      *)
CheckSection(x, sec) ==
  /\ exp[x].pc = "exists"
  /\ sec \in exp[x].left
  /\ ExpGoes(x, [exp[x] EXCEPT
       !.left = exp[x].left \ {sec},
       !.pc = IF sec \in files[exp[x].cur] THEN "read" ELSE "exists",
       !.file = IF sec \in files[exp[x].cur] THEN sec ELSE None])
  /\ UNCHANGED <<rows, dirs, files, whole, exec, del, condemned>>

(* pd.read_parquet: raises when the file went away since, and the whole     *)
(* export with it.                                                          *)
ReadSection(x) ==
  /\ exp[x].pc = "read"
  /\ IF exp[x].file \in files[exp[x].cur]
       THEN ExpGoes(x, [exp[x] EXCEPT !.pc = "exists", !.file = None,
                                      !.got = exp[x].got \cup {exp[x].file}])
       ELSE ExpGoes(x, NoExp)
  /\ UNCHANGED <<rows, dirs, files, whole, exec, del, condemned>>

(* The sections loaded are written into the run's folder of the archive.    *)
Pack(x) ==
  /\ exp[x].pc = "exists"
  /\ exp[x].left = {}
  /\ ExpGoes(x, [exp[x] EXCEPT !.pc = "packed"])
  /\ UNCHANGED <<rows, dirs, files, whole, exec, del, condemned>>

FinishExport(x) ==
  /\ exp[x].pc \in {"loop", "packed"}
  /\ exp[x].todo = {}
  /\ ExpGoes(x, NoExp)
  /\ UNCHANGED <<rows, dirs, files, whole, exec, del, condemned>>

-----------------------------------------------------------------------------
ExecStep(e) ==
  \/ Refuse(e) \/ ComputeFails(e) \/ RecordResult(e)
  \/ SaveNothing(e) \/ MakeDir(e)
  \/ \E sec \in Sections : WriteSection(e, sec)
  \/ OpenManifest(e) \/ FillManifest(e) \/ WriteFails(e)
  \/ RecordError(e) \/ RecordErrorFails(e) \/ CrashExec(e)

(* Every step of delete_runs but the ones a fault takes.                    *)
DelStep(d) ==
  \/ \E id \in RunIds : NextDelete(d, id)
  \/ CheckDir(d) \/ ListDir(d)
  \/ \E f \in Files : CheckFile(d, f)
  \/ Unlink(d) \/ Rmdir(d) \/ DeleteRow(d) \/ FinishDelete(d)

DelFault(d) == DeleteFails(d) \/ CrashDelete(d)

ExpStep(x) ==
  \/ \E chosen \in SUBSET RunIds : PressExport(x, chosen)
  \/ \E id \in RunIds : NextExport(x, id)
  \/ ReadManifest(x)
  \/ \E sec \in Sections : CheckSection(x, sec)
  \/ ReadSection(x) \/ Pack(x) \/ FinishExport(x)

Next ==
  \/ \E e \in Execs : ExecStep(e)
  \/ \E d \in Deleters : \/ \E chosen \in SUBSET RunIds : PressDelete(d, chosen)
                         \/ DelStep(d) \/ DelFault(d)
  \/ \E x \in Exporters : ExpStep(x)

Spec == Init /\ [][Next]_vars

(* delete_runs is a loop without waits: once entered it runs to its end.    *)
FairSpec == Spec /\ \A d \in Deleters : WF_vars(DelStep(d))

-----------------------------------------------------------------------------
(* A directory of the detail store always belongs to a run that is still    *)
(* listed.  RunDetailStore.delete says why that matters: nothing else knows *)
(* the directory exists, so one without a row is on disk for good.          *)
NoStrandedDetail == dirs \subseteq rows

(* An archive holds a run whole or not at all: unless somebody asked for    *)
(* the run to be deleted, the export found every section of it or, before   *)
(* the manifest was there, none.                                            *)
ExportWhole ==
  \A x \in Exporters :
    exp[x].pc = "packed" /\ exp[x].cur \in RunIds \ condemned
      => exp[x].got \in {{}, Sections}

(* What the caller of execute saw is what the history shows: a result that  *)
(* was returned has its row, an exception has an ERROR row, and never both  *)
(* for one execution, unless somebody asked for the row to be deleted.      *)
OutcomeRecorded ==
  \A e \in Execs :
    /\ exec[e].pc = "returned" => ResultOf(e) \in Listed /\ ErrorOf(e) \notin rows
    /\ exec[e].pc = "raised" => ErrorOf(e) \in Listed /\ ResultOf(e) \notin rows

(* The deletions reported to two sessions never overlap and are all real:   *)
(* a run counted as deleted is gone, and stays gone.                        *)
CountedOnceAndGone ==
  \A d \in Deleters :
    /\ del[d].counted \cap rows = {}
    /\ \A d2 \in Deleters \ {d} : del[d].counted \cap del[d2].counted = {}

(* A deletion that was confirmed takes place: in the end neither the run    *)
(* nor its detail is there.                                                 *)
DeletedEventually ==
  \A id \in RunIds : id \in condemned ~> id \notin rows \cup dirs

=============================================================================
