------------------------ MODULE RunLifecycle_proofs ------------------------
(***************************************************************************)
(* What holds of the two stores of a run for every number of executions,   *)
(* sessions and sections.                                                  *)
(***************************************************************************)
EXTENDS RunLifecycle, TLAPS

(* A deletion in progress is of a run somebody asked to be deleted, an      *)
(* export in progress is of a run.                                          *)
Held ==
  /\ \A d \in Deleters :
       /\ del[d].todo \subseteq condemned
       /\ del[d].pc \in {"check", "list", "file", "unlink", "row"}
            => del[d].cur \in condemned
       /\ del[d].pc = "unlink" => del[d].file \in Files
  /\ \A x \in Exporters :
       /\ exp[x].pc \in {"manifest", "exists", "read", "packed"}
            => exp[x].cur \in RunIds
       /\ exp[x].pc = "read" => exp[x].file \in Sections

TypeInv == TypeOK /\ Held

LEMMA Ids == \A e \in Execs : ResultOf(e) \in RunIds /\ ErrorOf(e) \in RunIds
BY DEF RunIds, ResultOf, ErrorOf

LEMMA ExecTyped ==
  ASSUME TypeOK, NEW e \in Execs, NEW pc, NEW left \in SUBSET Sections,
         pc \in {"new", "save", "write", "fill", "except", "returned",
                 "raised", "refused", "dead"},
         ExecGoes(e, pc, left)
  PROVE  exec' \in [Execs -> Exec]
<1>1. [pc |-> pc, left |-> left] \in Exec
  BY DEF Exec
<1> QED BY <1>1 DEF ExecGoes, TypeOK

LEMMA DelTyped ==
  ASSUME TypeOK, NEW d \in Deleters, NEW rec \in Del, DelGoes(d, rec)
  PROVE  del' \in [Deleters -> Del]
BY DEF DelGoes, TypeOK

LEMMA ExpTyped ==
  ASSUME TypeOK, NEW x \in Exporters, NEW rec \in Exp, ExpGoes(x, rec)
  PROVE  exp' \in [Exporters -> Exp]
BY DEF ExpGoes, TypeOK

LEMMA InitTypeInv == Init => TypeInv
<1> SUFFICES ASSUME Init PROVE TypeInv
  OBVIOUS
<1>1. NoDel \in Del /\ NoExp \in Exp
  BY DEF NoDel, NoExp, Del, Exp
<1>2. [pc |-> "new", left |-> {}] \in Exec
  BY DEF Exec
<1>3. TypeOK
  BY <1>1, <1>2 DEF Init, TypeOK
<1>4. Held
  BY DEF Init, Held, NoDel, NoExp
<1> QED BY <1>3, <1>4 DEF TypeInv

(* Every action leaves the selections and the files it does not write       *)
(* typed: one step per action.                                              *)
LEMMA ExecTypeInv ==
  ASSUME TypeInv, NEW e \in Execs, ExecStep(e)
  PROVE  TypeInv'
<1> USE Ids DEF TypeInv
<1>1. exec[e] \in Exec
  BY DEF TypeOK
<1>2. exec' \in [Execs -> Exec]
  <2>1. ASSUME NEW sec \in Sections, WriteSection(e, sec)
        PROVE  exec' \in [Execs -> Exec]
    BY <1>1, <2>1, ExecTyped DEF WriteSection, Exec
  <2>2. CASE OpenManifest(e)
    BY <2>2, ExecTyped DEF OpenManifest, TypeOK
  <2>3. CASE MakeDir(e)
    BY <2>3, ExecTyped DEF MakeDir
  <2>4. CASE Refuse(e) \/ ComputeFails(e) \/ RecordResult(e) \/ SaveNothing(e)
    BY <2>4, ExecTyped DEF Refuse, ComputeFails, RecordResult, SaveNothing
  <2>5. CASE FillManifest(e) \/ WriteFails(e)
    BY <2>5, ExecTyped DEF FillManifest, WriteFails
  <2>6. CASE RecordError(e) \/ RecordErrorFails(e) \/ CrashExec(e)
    BY <2>6, ExecTyped DEF RecordError, RecordErrorFails, CrashExec
  <2> QED BY <2>1, <2>2, <2>3, <2>4, <2>5, <2>6 DEF ExecStep
<1>3. files' \in [RunIds -> SUBSET Files]
  <2>1. \A sec \in Sections : sec \in Files
    BY DEF Files
  <2>2. Manifest \in Files
    BY DEF Files
  <2> HIDE DEF TypeInv
  <2>3. files \in [RunIds -> SUBSET Files] /\ exec[e].left \subseteq Sections
    BY <1>1 DEF TypeInv, TypeOK, Exec
  <2>4. files' = files \/ \E f \in Files :
            files' = [files EXCEPT ![ResultOf(e)] = files[ResultOf(e)] \cup {f}]
    BY <2>1, <2>2, <2>3 DEF ExecStep, Refuse, ComputeFails, RecordResult,
       SaveNothing, MakeDir, WriteSection, OpenManifest, FillManifest,
       WriteFails, RecordError, RecordErrorFails, CrashExec
  <2> QED BY <2>3, <2>4
<1>4. /\ rows' \subseteq RunIds /\ dirs' \subseteq RunIds
      /\ whole' \subseteq RunIds
      /\ del' = del /\ exp' = exp /\ condemned' = condemned
  BY DEF TypeOK, ExecStep, Refuse, ComputeFails, RecordResult, SaveNothing,
     MakeDir, WriteSection, OpenManifest, FillManifest, WriteFails,
     RecordError, RecordErrorFails, CrashExec
<1>5. TypeOK'
  BY <1>2, <1>3, <1>4 DEF TypeOK
<1>6. Held'
  BY <1>4 DEF Held
<1> QED BY <1>5, <1>6

LEMMA DelTypeInv ==
  ASSUME TypeInv, NEW d \in Deleters,
         \/ \E chosen \in SUBSET RunIds : PressDelete(d, chosen)
         \/ DelStep(d)
         \/ DelFault(d)
  PROVE  TypeInv'
<1> DEFINE new == del'[d]
<1>1. /\ del[d] \in Del /\ condemned \subseteq RunIds
      /\ files \in [RunIds -> SUBSET Files]
  BY DEF TypeInv, TypeOK
<1>2. /\ del[d].todo \subseteq condemned
      /\ del[d].pc \in {"check", "list", "file", "unlink", "row"}
            => del[d].cur \in condemned
      /\ del[d].pc = "unlink" => del[d].file \in Files
  BY DEF TypeInv, Held
<1> DEFINE Fine(rec, cond) ==
      /\ rec \in Del
      /\ rec.todo \subseteq cond
      /\ rec.pc \in {"check", "list", "file", "unlink", "row"} => rec.cur \in cond
      /\ rec.pc = "unlink" => rec.file \in Files
<1>3. Fine([NoDel EXCEPT !.counted = del[d].counted], condemned)
  BY <1>1 DEF NoDel, Del
<1>4. \E rec : DelGoes(d, rec) /\ Fine(rec, condemned')
  <2>1. ASSUME NEW chosen \in SUBSET RunIds, PressDelete(d, chosen)
        PROVE  \E rec : DelGoes(d, rec) /\ Fine(rec, condemned')
    <3>1. Fine([NoDel EXCEPT !.pc = "loop", !.todo = chosen,
                             !.counted = del[d].counted], condemned')
      BY <1>1, <2>1 DEF NoDel, Del, PressDelete
    <3> QED BY <2>1, <3>1 DEF PressDelete
  <2>2. ASSUME NEW id \in RunIds, NextDelete(d, id)
        PROVE  \E rec : DelGoes(d, rec) /\ Fine(rec, condemned')
    <3>1. Fine([del[d] EXCEPT !.pc = "check", !.cur = id,
                              !.todo = del[d].todo \ {id}], condemned')
      BY <1>1, <1>2, <2>2 DEF Del, NextDelete
    <3> QED BY <2>2, <3>1 DEF NextDelete
  <2>3. ASSUME CheckDir(d) PROVE \E rec : DelGoes(d, rec) /\ Fine(rec, condemned')
    <3>1. Fine([del[d] EXCEPT !.pc = IF del[d].cur \in dirs THEN "list" ELSE "row"],
               condemned')
      BY <1>1, <1>2, <2>3 DEF Del, CheckDir
    <3> QED BY <2>3, <3>1 DEF CheckDir
  <2>4. ASSUME ListDir(d) PROVE \E rec : DelGoes(d, rec) /\ Fine(rec, condemned')
    <3>1. Fine([del[d] EXCEPT !.pc = "file", !.left = files[del[d].cur]], condemned')
      BY <1>1, <1>2, <2>4 DEF Del, ListDir
    <3>2. condemned' = condemned
      BY <2>4 DEF ListDir
    <3> QED BY <1>3, <2>4, <3>1, <3>2 DEF ListDir, Abort
  <2>5. ASSUME NEW f \in Files, CheckFile(d, f)
        PROVE  \E rec : DelGoes(d, rec) /\ Fine(rec, condemned')
    <3>1. Fine([del[d] EXCEPT !.pc = "unlink", !.file = f,
                              !.left = del[d].left \ {f}], condemned')
      BY <1>1, <1>2, <2>5 DEF Del, CheckFile
    <3>2. Fine([del[d] EXCEPT !.left = del[d].left \ {f}], condemned')
      BY <1>1, <1>2, <2>5 DEF Del, CheckFile
    <3> QED BY <2>5, <3>1, <3>2 DEF CheckFile
  <2>6. ASSUME Unlink(d) PROVE \E rec : DelGoes(d, rec) /\ Fine(rec, condemned')
    <3>1. Fine([del[d] EXCEPT !.pc = "file", !.file = None], condemned')
      BY <1>1, <1>2, <2>6 DEF Del, Unlink
    <3>2. condemned' = condemned
      BY <2>6 DEF Unlink
    <3> QED BY <1>3, <2>6, <3>1, <3>2 DEF Unlink, Abort
  <2>7. ASSUME Rmdir(d) PROVE \E rec : DelGoes(d, rec) /\ Fine(rec, condemned')
    <3>1. Fine([del[d] EXCEPT !.pc = "row"], condemned')
      BY <1>1, <1>2, <2>7 DEF Del, Rmdir
    <3>2. condemned' = condemned
      BY <2>7 DEF Rmdir
    <3> QED BY <1>3, <2>7, <3>1, <3>2 DEF Rmdir, Abort
  <2>8. ASSUME DeleteRow(d) PROVE \E rec : DelGoes(d, rec) /\ Fine(rec, condemned')
    <3>1. rows \subseteq RunIds
      BY DEF TypeInv, TypeOK
    <3>2. Fine([del[d] EXCEPT !.pc = "loop", !.cur = None,
                 !.counted = del[d].counted \cup ({del[d].cur} \cap rows)],
               condemned')
      BY <1>1, <1>2, <2>8, <3>1 DEF Del, DeleteRow
    <3> QED BY <2>8, <3>2 DEF DeleteRow
  <2>9. CASE FinishDelete(d) \/ DelFault(d)
    BY <1>3, <2>9 DEF FinishDelete, DelFault, DeleteFails, CrashDelete, Abort
  <2> QED BY <2>1, <2>2, <2>3, <2>4, <2>5, <2>6, <2>7, <2>8, <2>9 DEF DelStep
<1>5. PICK rec : DelGoes(d, rec) /\ Fine(rec, condemned')
  BY <1>4
<1>6. del' \in [Deleters -> Del]
  BY <1>5, DelTyped DEF TypeInv
<1>7. /\ rows' \subseteq RunIds /\ dirs' \subseteq RunIds
      /\ whole' \subseteq RunIds /\ condemned' \subseteq RunIds
      /\ condemned \subseteq condemned'
      /\ exec' = exec /\ exp' = exp
  BY DEF TypeInv, TypeOK, DelStep, DelFault, PressDelete, NextDelete, CheckDir,
     ListDir, CheckFile, Unlink, Rmdir, DeleteRow, DeleteFails, FinishDelete,
     CrashDelete
<1>8. files' \in [RunIds -> SUBSET Files]
  <2>1. files' = files \/ Unlink(d)
    BY DEF DelStep, DelFault, PressDelete, NextDelete, CheckDir, ListDir,
       CheckFile, Unlink, Rmdir, DeleteRow, DeleteFails, FinishDelete, CrashDelete
  <2> QED BY <1>1, <2>1 DEF Unlink
<1>9. TypeOK'
  BY <1>6, <1>7, <1>8 DEF TypeInv, TypeOK
<1>10. Held'
  <2>1. \A d2 \in Deleters \ {d} : del'[d2] = del[d2]
    BY <1>5 DEF DelGoes, TypeInv, TypeOK
  <2>2. del'[d] = rec
    BY <1>5 DEF DelGoes, TypeInv, TypeOK
  <2> QED BY <1>5, <1>7, <2>1, <2>2 DEF Held, TypeInv
<1> QED BY <1>9, <1>10 DEF TypeInv

LEMMA ExpTypeInv ==
  ASSUME TypeInv, NEW x \in Exporters, ExpStep(x)
  PROVE  TypeInv'
<1>1. /\ exp[x] \in Exp /\ rows \subseteq RunIds /\ condemned \subseteq RunIds
      /\ files \in [RunIds -> SUBSET Files]
  BY DEF TypeInv, TypeOK
<1>2. /\ exp[x].pc \in {"manifest", "exists", "read", "packed"}
           => exp[x].cur \in RunIds
      /\ exp[x].pc = "read" => exp[x].file \in Sections
  BY DEF TypeInv, Held
<1> DEFINE Fine(rec) ==
      /\ rec \in Exp
      /\ rec.pc \in {"manifest", "exists", "read", "packed"} => rec.cur \in RunIds
      /\ rec.pc = "read" => rec.file \in Sections
<1>3. Fine(NoExp)
  BY DEF NoExp, Exp
<1>4. \E rec : ExpGoes(x, rec) /\ Fine(rec)
  <2>1. ASSUME NEW chosen \in SUBSET RunIds, PressExport(x, chosen)
        PROVE  \E rec : ExpGoes(x, rec) /\ Fine(rec)
    <3>1. Fine([NoExp EXCEPT !.pc = "loop", !.todo = chosen])
      BY DEF NoExp, Exp
    <3> QED BY <2>1, <3>1 DEF PressExport
  <2>2. ASSUME NEW id \in RunIds, NextExport(x, id)
        PROVE  \E rec : ExpGoes(x, rec) /\ Fine(rec)
    <3>1. Fine([NoExp EXCEPT !.pc = IF id \in rows THEN "manifest" ELSE "loop",
                             !.cur = IF id \in rows THEN id ELSE None,
                             !.todo = exp[x].todo \ {id}])
      BY <1>1 DEF NoExp, Exp
    <3> QED BY <2>2, <3>1 DEF NextExport
  <2>3. ASSUME ReadManifest(x) PROVE \E rec : ExpGoes(x, rec) /\ Fine(rec)
    <3>1. Fine([exp[x] EXCEPT !.pc = "packed"])
      BY <1>1, <1>2, <2>3 DEF Exp, ReadManifest
    <3>2. Fine([exp[x] EXCEPT !.pc = "exists", !.left = Sections])
      BY <1>1, <1>2, <2>3 DEF Exp, ReadManifest
    <3> HIDE DEF Fine
    <3> QED BY <1>3, <2>3, <3>1, <3>2 DEF ReadManifest
  <2>4. ASSUME NEW sec \in Sections, CheckSection(x, sec)
        PROVE  \E rec : ExpGoes(x, rec) /\ Fine(rec)
    <3>1. Fine([exp[x] EXCEPT
             !.left = exp[x].left \ {sec},
             !.pc = IF sec \in files[exp[x].cur] THEN "read" ELSE "exists",
             !.file = IF sec \in files[exp[x].cur] THEN sec ELSE None])
      BY <1>1, <1>2, <2>4 DEF Exp, CheckSection
    <3> QED BY <2>4, <3>1 DEF CheckSection
  <2>5. ASSUME ReadSection(x) PROVE \E rec : ExpGoes(x, rec) /\ Fine(rec)
    <3>1. Fine([exp[x] EXCEPT !.pc = "exists", !.file = None,
                              !.got = exp[x].got \cup {exp[x].file}])
      BY <1>1, <1>2, <2>5 DEF Exp, ReadSection
    <3> HIDE DEF Fine
    <3> QED BY <1>3, <2>5, <3>1 DEF ReadSection
  <2>6. ASSUME Pack(x) PROVE \E rec : ExpGoes(x, rec) /\ Fine(rec)
    <3>1. Fine([exp[x] EXCEPT !.pc = "packed"])
      BY <1>1, <1>2, <2>6 DEF Exp, Pack
    <3> QED BY <2>6, <3>1 DEF Pack
  <2>7. CASE FinishExport(x)
    BY <1>3, <2>7 DEF FinishExport
  <2> QED BY <2>1, <2>2, <2>3, <2>4, <2>5, <2>6, <2>7 DEF ExpStep
<1>5. PICK rec : ExpGoes(x, rec) /\ Fine(rec)
  BY <1>4
<1>6. exp' \in [Exporters -> Exp]
  BY <1>5, ExpTyped DEF TypeInv
<1>7. UNCHANGED <<rows, dirs, files, whole, exec, del, condemned>>
  BY DEF ExpStep, PressExport, NextExport, ReadManifest, CheckSection,
     ReadSection, Pack, FinishExport
<1>8. TypeOK'
  BY <1>6, <1>7 DEF TypeInv, TypeOK
<1>9. Held'
  <2>1. \A y \in Exporters \ {x} : exp'[y] = exp[y]
    BY <1>5 DEF ExpGoes, TypeInv, TypeOK
  <2>2. exp'[x] = rec
    BY <1>5 DEF ExpGoes, TypeInv, TypeOK
  <2> QED BY <1>5, <1>7, <2>1, <2>2 DEF Held, TypeInv
<1> QED BY <1>8, <1>9 DEF TypeInv

LEMMA NextTypeInv == TypeInv /\ [Next]_vars => TypeInv'
<1> SUFFICES ASSUME TypeInv, [Next]_vars PROVE TypeInv'
  OBVIOUS
<1>1. CASE UNCHANGED vars
  BY <1>1 DEF vars, TypeInv, TypeOK, Held
<1>2. CASE Next
  BY <1>2, ExecTypeInv, DelTypeInv, ExpTypeInv DEF Next
<1> QED BY <1>1, <1>2

LEMMA AlwaysTypeInv == Spec => []TypeInv
BY InitTypeInv, NextTypeInv, PTL DEF Spec

(* Every variable keeps its type, whatever executes, deletes, exports,      *)
(* fails or is killed, in any order.                                        *)
THEOREM TypeCorrect == Spec => []TypeOK
<1>1. TypeInv => TypeOK
  BY DEF TypeInv
<1> QED BY <1>1, AlwaysTypeInv, PTL

-----------------------------------------------------------------------------
(* Deletions are counted honestly.                                          *)

(* An execution files each of its rows once, and what a session counted was *)
(* selected for deletion by then.                                           *)
FiledOnce ==
  /\ \A e \in Execs : /\ ResultOf(e) \in Listed => exec[e].pc # "new"
                      /\ ErrorOf(e) \in Listed => exec[e].pc = "raised"
  /\ \A d \in Deleters : del[d].counted \subseteq condemned

CountInv == FiledOnce /\ CountedOnceAndGone

LEMMA IdsDiffer ==
  \A e, g \in Execs : /\ ResultOf(e) # ErrorOf(g)
                      /\ ResultOf(e) = ResultOf(g) => e = g
                      /\ ErrorOf(e) = ErrorOf(g) => e = g
BY DEF ResultOf, ErrorOf

LEMMA ExecCountInv ==
  ASSUME TypeInv, CountInv, NEW e \in Execs, ExecStep(e)
  PROVE  CountInv'
<1>1. del' = del /\ condemned' = condemned
  BY DEF ExecStep, Refuse, ComputeFails, RecordResult, SaveNothing,
     MakeDir, WriteSection, OpenManifest, FillManifest, WriteFails,
     RecordError, RecordErrorFails, CrashExec
<1>2. \A g \in Execs \ {e} : exec'[g] = exec[g]
  BY DEF TypeInv, TypeOK, ExecGoes, ExecStep, Refuse, ComputeFails,
     RecordResult, SaveNothing, MakeDir, WriteSection, OpenManifest,
     FillManifest, WriteFails, RecordError, RecordErrorFails, CrashExec
<1>3. exec[e].pc # "raised" /\ exec'[e].pc # "new"
  BY DEF TypeInv, TypeOK, ExecGoes, ExecStep, Refuse, ComputeFails,
     RecordResult, SaveNothing, MakeDir, WriteSection, OpenManifest,
     FillManifest, WriteFails, RecordError, RecordErrorFails, CrashExec, Ended
<1>4. \/ rows' = rows
      \/ rows' = rows \cup {ResultOf(e)} /\ exec[e].pc = "new"
      \/ rows' = rows \cup {ErrorOf(e)} /\ exec'[e].pc = "raised"
  BY DEF TypeInv, TypeOK, ExecGoes, ExecStep, Refuse, ComputeFails,
     RecordResult, SaveNothing, MakeDir, WriteSection, OpenManifest,
     FillManifest, WriteFails, RecordError, RecordErrorFails, CrashExec
<1>5. FiledOnce'
  BY <1>1, <1>2, <1>3, <1>4, IdsDiffer DEF CountInv, FiledOnce, Listed
<1>6. \A d \in Deleters : del[d].counted \cap rows' = {}
  BY <1>3, <1>4 DEF CountInv, FiledOnce, CountedOnceAndGone, Listed
<1>7. CountedOnceAndGone'
  BY <1>1, <1>6 DEF CountInv, CountedOnceAndGone
<1> QED BY <1>5, <1>7 DEF CountInv

LEMMA DelCountInv ==
  ASSUME TypeInv, CountInv, NEW d \in Deleters,
         \/ \E chosen \in SUBSET RunIds : PressDelete(d, chosen)
         \/ DelStep(d)
         \/ DelFault(d)
  PROVE  CountInv'
<1>1. exec' = exec /\ Listed' = Listed
  BY DEF TypeInv, Held, Listed, Selectable, DelStep, DelFault, PressDelete,
     NextDelete, CheckDir, ListDir, CheckFile, Unlink, Rmdir, DeleteRow,
     DeleteFails, FinishDelete, CrashDelete
<1>2. condemned \subseteq condemned'
  BY DEF DelStep, DelFault, PressDelete, NextDelete, CheckDir, ListDir,
     CheckFile, Unlink, Rmdir, DeleteRow, DeleteFails, FinishDelete, CrashDelete
<1>3. \A d2 \in Deleters \ {d} : del'[d2] = del[d2]
  BY DEF TypeInv, TypeOK, DelGoes, Abort, DelStep, DelFault, PressDelete,
     NextDelete, CheckDir, ListDir, CheckFile, Unlink, Rmdir, DeleteRow,
     DeleteFails, FinishDelete, CrashDelete
<1>4. /\ del[d] \in Del /\ NoDel \in Del
      /\ \A rec : DelGoes(d, rec) => del'[d] = rec
  BY DEF TypeInv, TypeOK, NoDel, Del, DelGoes
<1>5. \/ del'[d].counted = del[d].counted /\ rows' = rows
      \/ /\ del'[d].counted = del[d].counted \cup ({del[d].cur} \cap rows)
         /\ rows' = rows \ {del[d].cur}
         /\ del[d].pc = "row"
  <2>1. Abort(d) => del'[d].counted = del[d].counted
    BY <1>4 DEF Abort, Del
  <2>2. CASE \E chosen \in SUBSET RunIds : PressDelete(d, chosen)
    BY <1>4, <2>2 DEF PressDelete, Del
  <2>3. CASE \E id \in RunIds : NextDelete(d, id)
    BY <1>4, <2>3 DEF NextDelete, Del
  <2>4. CASE CheckDir(d)
    BY <1>4, <2>4 DEF CheckDir, Del
  <2>5. CASE ListDir(d)
    BY <1>4, <2>1, <2>5 DEF ListDir, Del
  <2>6. ASSUME NEW f \in Files, CheckFile(d, f)
        PROVE  del'[d].counted = del[d].counted /\ rows' = rows
    <3>1. /\ [del[d] EXCEPT !.pc = "unlink", !.file = f,
                            !.left = del[d].left \ {f}].counted = del[d].counted
          /\ [del[d] EXCEPT !.left = del[d].left \ {f}].counted = del[d].counted
      BY <1>4 DEF Del
    <3> QED BY <1>4, <2>6, <3>1 DEF CheckFile
  <2>7. CASE Unlink(d)
    BY <1>4, <2>1, <2>7 DEF Unlink, Del
  <2>8. CASE Rmdir(d)
    BY <1>4, <2>1, <2>8 DEF Rmdir, Del
  <2>9. CASE DeleteRow(d)
    BY <1>4, <2>9 DEF DeleteRow, Del
  <2>10. CASE FinishDelete(d) \/ DelFault(d)
    BY <2>1, <2>10 DEF FinishDelete, DelFault, DeleteFails, CrashDelete
  <2> QED BY <2>2, <2>3, <2>4, <2>5, <2>6, <2>7, <2>8, <2>9, <2>10 DEF DelStep
<1>6. FiledOnce'
  <2>1. del'[d].counted \subseteq condemned'
    BY <1>2, <1>5 DEF CountInv, FiledOnce, TypeInv, Held
  <2> QED BY <1>1, <1>2, <1>3, <2>1 DEF CountInv, FiledOnce
<1>7. CountedOnceAndGone'
  BY <1>3, <1>5 DEF CountInv, CountedOnceAndGone
<1> QED BY <1>6, <1>7 DEF CountInv

LEMMA NextCountInv == TypeInv /\ CountInv /\ [Next]_vars => CountInv'
<1> SUFFICES ASSUME TypeInv, CountInv, [Next]_vars PROVE CountInv'
  OBVIOUS
<1>1. CASE UNCHANGED vars
  BY <1>1 DEF vars, CountInv, FiledOnce, CountedOnceAndGone, Listed
<1>2. ASSUME NEW x \in Exporters, ExpStep(x) PROVE CountInv'
  <2>1. UNCHANGED <<rows, exec, del, condemned>>
    BY <1>2 DEF ExpStep, PressExport, NextExport, ReadManifest, CheckSection,
       ReadSection, Pack, FinishExport
  <2> QED BY <2>1 DEF CountInv, FiledOnce, CountedOnceAndGone, Listed
<1>3. CASE Next
  BY <1>2, <1>3, ExecCountInv, DelCountInv DEF Next
<1> QED BY <1>1, <1>3

(* Whatever the number of sessions deleting at once, and whatever fails or  *)
(* is killed between two of their steps, no run is counted as deleted by    *)
(* two of them, and none that is counted is ever listed again.              *)
THEOREM DeletionsAreCountedOnce == Spec => []CountedOnceAndGone
<1>1. Init => CountInv
  BY DEF Init, CountInv, FiledOnce, CountedOnceAndGone, Listed, NoDel
<1>2. CountInv => CountedOnceAndGone
  BY DEF CountInv
<1> QED BY <1>1, <1>2, NextCountInv, AlwaysTypeInv, PTL DEF Spec

-----------------------------------------------------------------------------
(* No detail is stranded when only runs that ended are selected.            *)

(* An execution still at work has its row, and its directory once made;     *)
(* nobody is deleting it.  By the time a row goes, its directory is gone.   *)
KeptInv ==
  /\ NoStrandedDetail
  /\ \A e \in Execs :
       /\ exec[e].pc \in {"save", "write", "fill"} => ResultOf(e) \in rows
       /\ exec[e].pc \in {"write", "fill"} => ResultOf(e) \in dirs
       /\ ~Ended(e) => ResultOf(e) \notin condemned
  /\ \A d \in Deleters : del[d].pc = "row" => del[d].cur \notin dirs

LEMMA ExecEffects ==
  ASSUME TypeInv, NEW e \in Execs, ExecStep(e)
  PROVE  /\ UNCHANGED <<del, exp, condemned>>
         /\ ~Ended(e)
         /\ \A g \in Execs \ {e} : exec'[g] = exec[g]
         /\ \/ rows' = rows
            \/ rows' = rows \cup {ResultOf(e)}
            \/ rows' = rows \cup {ErrorOf(e)}
         /\ \/ dirs' = dirs
            \/ dirs' = dirs \cup {ResultOf(e)} /\ exec[e].pc = "save"
         /\ exec'[e].pc = "save" => ResultOf(e) \in rows'
         /\ exec'[e].pc = "write" => exec[e].pc \in {"save", "write"}
         /\ exec'[e].pc = "write" /\ exec[e].pc = "save" => ResultOf(e) \in dirs'
         /\ exec'[e].pc = "fill" => exec[e].pc = "write"
BY DEF TypeInv, TypeOK, Ended, ExecGoes, ExecStep, Refuse, ComputeFails,
   RecordResult, SaveNothing, MakeDir, WriteSection, OpenManifest,
   FillManifest, WriteFails, RecordError, RecordErrorFails, CrashExec

LEMMA DelEffects ==
  ASSUME TypeInv, NEW d \in Deleters,
         \/ \E chosen \in SUBSET RunIds : PressDelete(d, chosen)
         \/ DelStep(d)
         \/ DelFault(d)
  PROVE  /\ UNCHANGED <<exec, exp>>
         /\ condemned' \subseteq condemned \cup Selectable
         /\ Listed' = Listed
         /\ \A d2 \in Deleters \ {d} : del'[d2] = del[d2]
         /\ \/ rows' = rows
            \/ rows' = rows \ {del[d].cur} /\ del[d].pc = "row"
         /\ \/ dirs' = dirs
            \/ dirs' = dirs \ {del[d].cur} /\ del[d].pc = "file"
         /\ dirs' = dirs \/ rows' = rows
         /\ del'[d].pc = "row" => del'[d].cur \notin dirs'
         /\ \A id \in RunIds \ condemned : files'[id] = files[id]
<1>1. UNCHANGED <<exec, exp>> /\ condemned' \subseteq condemned \cup Selectable
  BY DEF DelStep, DelFault, PressDelete, NextDelete, CheckDir, ListDir,
     CheckFile, Unlink, Rmdir, DeleteRow, DeleteFails, FinishDelete, CrashDelete
<1>2. Listed' = Listed
  BY DEF TypeInv, Held, Listed, Selectable, DelStep, DelFault, PressDelete,
     NextDelete, CheckDir, ListDir, CheckFile, Unlink, Rmdir, DeleteRow,
     DeleteFails, FinishDelete, CrashDelete
<1>3. \A d2 \in Deleters \ {d} : del'[d2] = del[d2]
  BY DEF TypeInv, TypeOK, DelGoes, Abort, DelStep, DelFault, PressDelete,
     NextDelete, CheckDir, ListDir, CheckFile, Unlink, Rmdir, DeleteRow,
     DeleteFails, FinishDelete, CrashDelete
<1>4. /\ \/ rows' = rows
         \/ rows' = rows \ {del[d].cur} /\ del[d].pc = "row"
      /\ \/ dirs' = dirs
         \/ dirs' = dirs \ {del[d].cur} /\ del[d].pc = "file"
      /\ dirs' = dirs \/ rows' = rows
  BY DEF DelStep, DelFault, PressDelete, NextDelete, CheckDir, ListDir,
     CheckFile, Unlink, Rmdir, DeleteRow, DeleteFails, FinishDelete, CrashDelete
<1>5. \A id \in RunIds \ condemned : files'[id] = files[id]
  <2>1. files' = files \/ Unlink(d)
    BY DEF DelStep, DelFault, PressDelete, NextDelete, CheckDir, ListDir,
       CheckFile, Unlink, Rmdir, DeleteRow, DeleteFails, FinishDelete, CrashDelete
  <2> QED BY <2>1 DEF Unlink, TypeInv, TypeOK, Held
<1>6. del'[d].pc = "row" => del'[d].cur \notin dirs'
  <2>1. /\ del[d] \in Del /\ NoDel.pc = "idle" /\ NoDel \in Del
        /\ \A rec : DelGoes(d, rec) => del'[d] = rec
    BY DEF TypeInv, TypeOK, NoDel, Del, DelGoes
  <2>2. Abort(d) => del'[d].pc = "idle"
    BY <2>1 DEF Abort, Del
  <2>3. CASE CheckDir(d)
    BY <2>1, <2>3 DEF CheckDir, Del
  <2>4. CASE Rmdir(d)
    BY <2>1, <2>2, <2>4 DEF Rmdir, Del
  <2>5. CASE \E chosen \in SUBSET RunIds : PressDelete(d, chosen)
    BY <2>1, <2>5 DEF PressDelete, Del
  <2>6. CASE \E id \in RunIds : NextDelete(d, id)
    BY <2>1, <2>6 DEF NextDelete, Del
  <2>7. CASE ListDir(d)
    BY <2>1, <2>2, <2>7 DEF ListDir, Del
  <2>8. ASSUME NEW f \in Files, CheckFile(d, f) PROVE del'[d].pc # "row"
    <3>1. /\ [del[d] EXCEPT !.pc = "unlink", !.file = f,
                            !.left = del[d].left \ {f}].pc = "unlink"
          /\ [del[d] EXCEPT !.left = del[d].left \ {f}].pc = del[d].pc
      BY <2>1 DEF Del
    <3> QED BY <2>1, <2>8, <3>1 DEF CheckFile
  <2>9. CASE Unlink(d)
    BY <2>1, <2>2, <2>9 DEF Unlink, Del
  <2>10. CASE DeleteRow(d)
    BY <2>1, <2>10 DEF DeleteRow, Del
  <2>11. CASE FinishDelete(d) \/ DelFault(d)
    BY <2>2, <2>11 DEF FinishDelete, DelFault, DeleteFails, CrashDelete
  <2> QED BY <2>3, <2>4, <2>5, <2>6, <2>7, <2>8, <2>9, <2>10, <2>11 DEF DelStep
<1> QED BY <1>1, <1>2, <1>3, <1>4, <1>5, <1>6

LEMMA NextKeptInv ==
  ASSUME OnlyFinished
  PROVE  TypeInv /\ KeptInv /\ [Next]_vars => KeptInv'
<1> SUFFICES ASSUME TypeInv, KeptInv, [Next]_vars PROVE KeptInv'
  OBVIOUS
<1>1. CASE UNCHANGED vars
  BY <1>1 DEF vars, KeptInv, NoStrandedDetail, Ended
<1>2. ASSUME NEW e \in Execs, ExecStep(e) PROVE KeptInv'
  <2> USE ExecEffects, <1>2
  <2>1. NoStrandedDetail'
    BY DEF KeptInv, NoStrandedDetail
  <2>2. \A d \in Deleters : del'[d].pc = "row" => del'[d].cur \notin dirs'
    BY DEF KeptInv, TypeInv, Held, Ended
  <2>3. ASSUME NEW g \in Execs
        PROVE  /\ exec'[g].pc \in {"save", "write", "fill"} => ResultOf(g) \in rows'
               /\ exec'[g].pc \in {"write", "fill"} => ResultOf(g) \in dirs'
               /\ ~Ended(g)' => ResultOf(g) \notin condemned'
    BY DEF KeptInv, Ended
  <2> QED BY <2>1, <2>2, <2>3 DEF KeptInv
<1>3. ASSUME NEW d \in Deleters,
             \/ \E chosen \in SUBSET RunIds : PressDelete(d, chosen)
             \/ DelStep(d)
             \/ DelFault(d)
      PROVE  KeptInv'
  <2> USE DelEffects, <1>3
  <2>1. NoStrandedDetail'
    BY DEF KeptInv, NoStrandedDetail
  <2>2. \A d2 \in Deleters : del'[d2].pc = "row" => del'[d2].cur \notin dirs'
    BY DEF KeptInv
  <2>3. del[d].pc \in {"row", "file"} => del[d].cur \in condemned
    BY DEF TypeInv, Held
  <2>4. ASSUME NEW g \in Execs, ~Ended(g)
        PROVE  ResultOf(g) \notin condemned'
    <3>1. ResultOf(g)[1] = g
      BY DEF ResultOf
    <3> QED BY <2>4, <3>1 DEF KeptInv, Selectable
  <2>5. ASSUME NEW g \in Execs
        PROVE  /\ exec'[g].pc \in {"save", "write", "fill"} => ResultOf(g) \in rows'
               /\ exec'[g].pc \in {"write", "fill"} => ResultOf(g) \in dirs'
               /\ ~Ended(g)' => ResultOf(g) \notin condemned'
    BY <2>3, <2>4 DEF KeptInv, Ended
  <2> QED BY <2>1, <2>2, <2>5 DEF KeptInv
<1>4. ASSUME NEW x \in Exporters, ExpStep(x) PROVE KeptInv'
  <2>1. UNCHANGED <<rows, dirs, exec, del, condemned>>
    BY <1>4 DEF ExpStep, PressExport, NextExport, ReadManifest, CheckSection,
       ReadSection, Pack, FinishExport
  <2> QED BY <2>1 DEF KeptInv, NoStrandedDetail, Ended
<1> QED BY <1>1, <1>2, <1>3, <1>4 DEF Next

(* As long as only runs whose execution ended are selected for deletion,    *)
(* the detail store never holds a directory that no row leads to, whatever  *)
(* fails or is killed half-way.  Lifecycle_stranded shows what happens      *)
(* without the assumption, which the code does not enforce.                 *)
THEOREM FinishedRunsStrandNothing ==
  ASSUME OnlyFinished
  PROVE  Spec => []NoStrandedDetail
<1>1. Init => KeptInv
  BY DEF Init, KeptInv, NoStrandedDetail, NoDel
<1>2. KeptInv => NoStrandedDetail
  BY DEF KeptInv
<1> QED BY <1>1, <1>2, NextKeptInv, AlwaysTypeInv, PTL DEF Spec

-----------------------------------------------------------------------------
(* What the caller of execute saw is what the history shows.                *)

(* An execution that has filed its result does not fail any more.           *)
FiledInv ==
  \A e \in Execs :
    /\ exec[e].pc \in {"save", "write", "fill", "returned"}
         => ResultOf(e) \in Listed
    /\ exec[e].pc = "except" => ResultOf(e) \notin rows
    /\ exec[e].pc = "raised" => ErrorOf(e) \in Listed /\ ResultOf(e) \notin rows

LEMMA NextFiledInv ==
  ASSUME ~CanFail
  PROVE  TypeInv /\ CountInv /\ KeptInv /\ FiledInv /\ [Next]_vars => FiledInv'
<1> SUFFICES ASSUME TypeInv, CountInv, KeptInv, FiledInv, [Next]_vars
             PROVE  FiledInv'
  OBVIOUS
<1>1. CASE UNCHANGED vars
  BY <1>1 DEF vars, FiledInv, Listed
<1>2. ASSUME NEW e \in Execs, ExecStep(e) PROVE FiledInv'
  <2>1. /\ UNCHANGED <<condemned>>
        /\ \A g \in Execs \ {e} : exec'[g] = exec[g]
        /\ \/ rows' = rows
           \/ rows' = rows \cup {ResultOf(e)}
           \/ rows' = rows \cup {ErrorOf(e)}
    BY <1>2, ExecEffects
  <2>2. ASSUME NEW g \in Execs \ {e}
        PROVE  /\ ResultOf(g) \in rows' <=> ResultOf(g) \in rows
               /\ ErrorOf(g) \in rows' <=> ErrorOf(g) \in rows
    BY <2>1, IdsDiffer
  <2>3. exec[e].pc = "new" => ResultOf(e) \notin rows
    BY DEF CountInv, FiledOnce, Listed
  <2>4. exec[e].pc \in {"write", "fill"} => ResultOf(e) \in dirs
    BY DEF KeptInv
  <2>5. /\ exec'[e].pc \in {"save", "write", "fill", "returned"}
             => ResultOf(e) \in rows' \cup condemned
        /\ exec'[e].pc = "except" => ResultOf(e) \notin rows'
        /\ exec'[e].pc = "raised"
             => ErrorOf(e) \in rows' \cup condemned /\ ResultOf(e) \notin rows'
    BY <1>2, <2>3, <2>4, IdsDiffer
       DEF FiledInv, Listed, TypeInv, TypeOK, ExecGoes, ExecStep, Refuse,
           ComputeFails, RecordResult, SaveNothing, MakeDir, WriteSection,
           OpenManifest, FillManifest, WriteFails, RecordError,
           RecordErrorFails, CrashExec
  <2> QED BY <2>1, <2>2, <2>5 DEF FiledInv, Listed
<1>3. ASSUME NEW d \in Deleters,
             \/ \E chosen \in SUBSET RunIds : PressDelete(d, chosen)
             \/ DelStep(d)
             \/ DelFault(d)
      PROVE  FiledInv'
  <2>1. exec' = exec /\ Listed' = Listed /\ rows' \subseteq rows
    BY <1>3, DelEffects
  <2> QED BY <2>1 DEF FiledInv
<1>4. ASSUME NEW x \in Exporters, ExpStep(x) PROVE FiledInv'
  <2>1. UNCHANGED <<rows, exec, condemned>>
    BY <1>4 DEF ExpStep, PressExport, NextExport, ReadManifest, CheckSection,
       ReadSection, Pack, FinishExport
  <2> QED BY <2>1 DEF FiledInv, Listed
<1> QED BY <1>1, <1>2, <1>3, <1>4 DEF Next

(* Without failing writes, and while only ended runs are deleted, a result  *)
(* that was returned has its row and no ERROR row beside it, an exception   *)
(* has an ERROR row and no other.                                           *)
THEOREM OutcomesAreRecorded ==
  ASSUME OnlyFinished, ~CanFail
  PROVE  Spec => []OutcomeRecorded
<1>1. Init => CountInv /\ KeptInv /\ FiledInv
  BY DEF Init, CountInv, FiledOnce, CountedOnceAndGone, Listed, NoDel,
     KeptInv, NoStrandedDetail, FiledInv
<1>2. CountInv /\ FiledInv => OutcomeRecorded
  BY DEF CountInv, FiledOnce, FiledInv, OutcomeRecorded, Listed
<1> QED BY <1>1, <1>2, NextCountInv, NextKeptInv, NextFiledInv,
           AlwaysTypeInv, PTL DEF Spec

-----------------------------------------------------------------------------
(* An archive holds a run whole or not at all.                              *)

(* Of a run nobody deletes, a manifest says that every section is there;    *)
(* before it, the execution has written what it no longer has left.  An     *)
(* export past the manifest has every section behind it, in hand or ahead.  *)
WholeInv ==
  /\ \A id \in RunIds \ condemned :
       Manifest \in files[id] => Sections \subseteq files[id]
  /\ \A e \in Execs :
       exec[e].pc = "write" /\ ResultOf(e) \notin condemned
         => Sections \ exec[e].left \subseteq files[ResultOf(e)]
  /\ \A x \in Exporters :
       exp[x].cur \in RunIds \ condemned =>
         /\ exp[x].pc = "manifest" => exp[x].got = {}
         /\ exp[x].pc \in {"exists", "read"} =>
              Sections \subseteq files[exp[x].cur]
         /\ exp[x].pc = "exists" => exp[x].got \cup exp[x].left = Sections
         /\ exp[x].pc = "read" =>
              exp[x].got \cup exp[x].left \cup {exp[x].file} = Sections
         /\ exp[x].pc = "packed" => exp[x].got \in {{}, Sections}

LEMMA ExecWholeInv ==
  ASSUME TypeInv, WholeInv, NEW e \in Execs, ExecStep(e)
  PROVE  WholeInv'
<1> USE Ids, ManifestAssumption
<1>1. /\ UNCHANGED <<exp, condemned>>
      /\ \A g \in Execs \ {e} : exec'[g] = exec[g]
  BY ExecEffects
<1>2. /\ \A id \in RunIds : files[id] \subseteq files'[id]
      /\ \A id \in RunIds \ {ResultOf(e)} : files'[id] = files[id]
  <2>1. files \in [RunIds -> SUBSET Files]
    BY DEF TypeInv, TypeOK
  <2>2. \/ files' = files
        \/ \E f : files' = [files EXCEPT
                              ![ResultOf(e)] = files[ResultOf(e)] \cup {f}]
    <3>1. CASE \/ Refuse(e) \/ ComputeFails(e) \/ RecordResult(e)
               \/ SaveNothing(e) \/ MakeDir(e) \/ FillManifest(e)
               \/ RecordError(e) \/ RecordErrorFails(e) \/ CrashExec(e)
      BY <3>1 DEF Refuse, ComputeFails, RecordResult, SaveNothing, MakeDir,
                  FillManifest, RecordError, RecordErrorFails, CrashExec
    <3>2. CASE \E sec \in Sections : WriteSection(e, sec)
      BY <3>2 DEF WriteSection
    <3>3. CASE OpenManifest(e) \/ WriteFails(e)
      BY <3>3 DEF OpenManifest, WriteFails
    <3> QED BY <3>1, <3>2, <3>3 DEF ExecStep
  <2> QED BY <2>1, <2>2
<1>3. ASSUME ResultOf(e) \notin condemned
      PROVE  /\ Manifest \in files'[ResultOf(e)]
                  => Sections \subseteq files'[ResultOf(e)]
             /\ exec'[e].pc = "write"
                  => Sections \ exec'[e].left \subseteq files'[ResultOf(e)]
  <2>1. exec[e] \in Exec /\ files[ResultOf(e)] \subseteq Files
    BY DEF TypeInv, TypeOK
  <2>2. ASSUME NEW sec \in Sections, WriteSection(e, sec)
        PROVE  /\ exec'[e].pc = "write"
                    => Sections \ exec'[e].left \subseteq files'[ResultOf(e)]
               /\ Manifest \in files'[ResultOf(e)]
                    => Manifest \in files[ResultOf(e)]
    BY <1>3, <2>1, <2>2 DEF WriteSection, ExecGoes, WholeInv, TypeInv, TypeOK, Exec
  <2>3. CASE OpenManifest(e)
    BY <1>3, <2>1, <2>3 DEF OpenManifest, ExecGoes, WholeInv, TypeInv, TypeOK
  <2>4. CASE MakeDir(e)
    BY <1>3, <2>4 DEF MakeDir, ExecGoes, WholeInv, TypeInv, TypeOK
  <2>5. CASE WriteFails(e)
    BY <1>3, <2>1, <2>5 DEF WriteFails, ExecGoes, WholeInv, TypeInv, TypeOK, Exec
  <2>6. CASE \/ Refuse(e) \/ ComputeFails(e) \/ RecordResult(e) \/ SaveNothing(e)
             \/ FillManifest(e) \/ RecordError(e) \/ RecordErrorFails(e)
             \/ CrashExec(e)
    BY <1>3, <2>6 DEF Refuse, ComputeFails, RecordResult, SaveNothing,
       FillManifest, RecordError, RecordErrorFails, CrashExec, ExecGoes,
       WholeInv, TypeInv, TypeOK
  <2> QED BY <1>2, <1>3, <2>2, <2>3, <2>4, <2>5, <2>6 DEF ExecStep, WholeInv
<1>4. ASSUME NEW x \in Exporters, exp'[x].cur \in RunIds \ condemned'
      PROVE  exp'[x].pc \in {"exists", "read"}
               => Sections \subseteq files'[exp'[x].cur]
  BY <1>1, <1>2, <1>4 DEF WholeInv
<1>5. \A id \in RunIds \ condemned' :
        Manifest \in files'[id] => Sections \subseteq files'[id]
  BY <1>1, <1>2, <1>3 DEF WholeInv
<1>6. ASSUME NEW g \in Execs, exec'[g].pc = "write", ResultOf(g) \notin condemned'
      PROVE  Sections \ exec'[g].left \subseteq files'[ResultOf(g)]
  BY <1>1, <1>2, <1>3, <1>6 DEF WholeInv
<1> QED BY <1>1, <1>4, <1>5, <1>6 DEF WholeInv

LEMMA ExpWholeInv ==
  ASSUME TypeInv, WholeInv, NEW x \in Exporters, ExpStep(x)
  PROVE  WholeInv'
<1>1. UNCHANGED <<rows, dirs, files, whole, exec, del, condemned>>
  BY DEF ExpStep, PressExport, NextExport, ReadManifest, CheckSection,
     ReadSection, Pack, FinishExport
<1>2. /\ exp[x] \in Exp /\ NoExp \in Exp /\ NoExp.pc = "idle"
      /\ \A rec : ExpGoes(x, rec) => exp'[x] = rec
      /\ \A rec : ExpGoes(x, rec) => \A y \in Exporters \ {x} : exp'[y] = exp[y]
  BY DEF TypeInv, TypeOK, NoExp, Exp, ExpGoes
<1> DEFINE Fine(rec) ==
      rec.cur \in RunIds \ condemned =>
         /\ rec.pc = "manifest" => rec.got = {}
         /\ rec.pc \in {"exists", "read"} => Sections \subseteq files[rec.cur]
         /\ rec.pc = "exists" => rec.got \cup rec.left = Sections
         /\ rec.pc = "read" => rec.got \cup rec.left \cup {rec.file} = Sections
         /\ rec.pc = "packed" => rec.got \in {{}, Sections}
<1>3. Fine(exp[x]) /\ Fine(NoExp)
  BY <1>2 DEF WholeInv
<1>4. Fine(exp'[x]) /\ \A y \in Exporters \ {x} : exp'[y] = exp[y]
  <2>1. ASSUME NEW chosen \in SUBSET RunIds, PressExport(x, chosen)
        PROVE  Fine(exp'[x])
    BY <1>2, <2>1 DEF PressExport, Exp
  <2>2. ASSUME NEW id \in RunIds, NextExport(x, id) PROVE Fine(exp'[x])
    <3> DEFINE rec == [NoExp EXCEPT
                         !.pc = IF id \in rows THEN "manifest" ELSE "loop",
                         !.cur = IF id \in rows THEN id ELSE None,
                         !.todo = exp[x].todo \ {id}]
    <3>1. rec.pc \in {"manifest", "loop"} /\ rec.got = {}
      BY DEF NoExp
    <3>2. exp'[x] = rec
      BY <1>2, <2>2 DEF NextExport
    <3> QED BY <3>1, <3>2
  <2>3. ASSUME ReadManifest(x) PROVE Fine(exp'[x])
    <3>1. CASE Manifest \notin files[exp[x].cur]
      <4>1. /\ exp[x].pc = "manifest"
            /\ exp'[x] = [exp[x] EXCEPT !.pc = "packed"]
        BY <1>2, <2>3, <3>1 DEF ReadManifest
      <4>2. /\ exp'[x].pc = "packed" /\ exp'[x].cur = exp[x].cur
            /\ exp'[x].got = exp[x].got
        BY <1>2, <4>1 DEF Exp
      <4> QED BY <1>3, <4>1, <4>2
    <3>2. CASE Manifest \in files[exp[x].cur] /\ exp[x].cur \in whole
      <4>1. /\ exp[x].pc = "manifest"
            /\ exp'[x] = [exp[x] EXCEPT !.pc = "exists", !.left = Sections]
        BY <1>2, <2>3, <3>2 DEF ReadManifest
      <4>2. /\ exp'[x].pc = "exists" /\ exp'[x].cur = exp[x].cur
            /\ exp'[x].got = exp[x].got /\ exp'[x].left = Sections
        BY <1>2, <4>1 DEF Exp
      <4>3. exp[x].cur \in RunIds \ condemned => Sections \subseteq files[exp[x].cur]
        BY <3>2 DEF WholeInv
      <4> QED BY <1>3, <4>1, <4>2, <4>3
    <3>3. CASE Manifest \in files[exp[x].cur] /\ exp[x].cur \notin whole
      <4>1. exp'[x] = NoExp
        BY <1>2, <2>3, <3>3 DEF ReadManifest
      <4> QED BY <1>3, <4>1
    <3> QED BY <3>1, <3>2, <3>3
  <2>4. ASSUME NEW sec \in Sections, CheckSection(x, sec) PROVE Fine(exp'[x])
    <3> DEFINE rec == [exp[x] EXCEPT
             !.left = exp[x].left \ {sec},
             !.pc = IF sec \in files[exp[x].cur] THEN "read" ELSE "exists",
             !.file = IF sec \in files[exp[x].cur] THEN sec ELSE None]
    <3>1. /\ rec.cur = exp[x].cur /\ rec.got = exp[x].got
          /\ rec.left = exp[x].left \ {sec}
          /\ sec \in files[exp[x].cur] => rec.pc = "read" /\ rec.file = sec
          /\ sec \notin files[exp[x].cur] => rec.pc = "exists"
      BY <1>2 DEF Exp
    <3>2. exp'[x] = rec /\ exp[x].pc = "exists" /\ sec \in exp[x].left
      BY <1>2, <2>4 DEF CheckSection
    <3> HIDE DEF rec
    <3> QED BY <1>3, <3>1, <3>2
  <2>5. ASSUME ReadSection(x) PROVE Fine(exp'[x])
    <3> DEFINE rec == [exp[x] EXCEPT !.pc = "exists", !.file = None,
                                     !.got = exp[x].got \cup {exp[x].file}]
    <3>1. /\ rec.cur = exp[x].cur /\ rec.got = exp[x].got \cup {exp[x].file}
          /\ rec.left = exp[x].left /\ rec.pc = "exists"
      BY <1>2 DEF Exp
    <3>2. exp[x].pc = "read" /\ (exp'[x] = rec \/ exp'[x] = NoExp)
      BY <1>2, <2>5 DEF ReadSection
    <3> HIDE DEF rec
    <3> QED BY <1>3, <3>1, <3>2
  <2>6. ASSUME Pack(x) PROVE Fine(exp'[x])
    <3>1. exp[x].pc = "exists" /\ exp[x].left = {}
      BY <2>6 DEF Pack
    <3>2. exp'[x] = [exp[x] EXCEPT !.pc = "packed"]
      BY <1>2, <2>6 DEF Pack
    <3>3. exp'[x].cur = exp[x].cur /\ exp'[x].got = exp[x].got
          /\ exp'[x].pc = "packed"
      BY <1>2, <3>2 DEF Exp
    <3> QED BY <1>3, <3>1, <3>3
  <2>7. CASE FinishExport(x)
    BY <1>2, <1>3, <2>7 DEF FinishExport
  <2>8. \A y \in Exporters \ {x} : exp'[y] = exp[y]
    BY <1>2 DEF ExpStep, PressExport, NextExport, ReadManifest, CheckSection,
       ReadSection, Pack, FinishExport
  <2> QED BY <2>1, <2>2, <2>3, <2>4, <2>5, <2>6, <2>7, <2>8 DEF ExpStep
<1> QED BY <1>1, <1>4 DEF WholeInv

LEMMA NextWholeInv == TypeInv /\ WholeInv /\ [Next]_vars => WholeInv'
<1> SUFFICES ASSUME TypeInv, WholeInv, [Next]_vars PROVE WholeInv'
  OBVIOUS
<1>1. CASE UNCHANGED vars
  BY <1>1 DEF vars, WholeInv
<1>2. ASSUME NEW d \in Deleters,
             \/ \E chosen \in SUBSET RunIds : PressDelete(d, chosen)
             \/ DelStep(d)
             \/ DelFault(d)
      PROVE  WholeInv'
  <2>1. /\ UNCHANGED <<exec, exp>>
        /\ \A id \in RunIds \ condemned : files'[id] = files[id]
    BY <1>2, DelEffects
  <2>2. condemned \subseteq condemned'
    BY <1>2 DEF DelStep, DelFault, PressDelete, NextDelete, CheckDir, ListDir,
       CheckFile, Unlink, Rmdir, DeleteRow, DeleteFails, FinishDelete, CrashDelete
  <2> QED BY <2>1, <2>2, Ids DEF WholeInv
<1>3. CASE Next
  BY <1>2, <1>3, ExecWholeInv, ExpWholeInv DEF Next
<1> QED BY <1>1, <1>3

(* Whatever executes, fails or is killed meanwhile, an archive holds of a   *)
(* run nobody deletes every section or none.                                *)
THEOREM ExportsAreWhole == Spec => []ExportWhole
<1>1. Init => WholeInv
  BY Ids DEF Init, WholeInv, NoExp
<1>2. WholeInv => ExportWhole
  BY DEF WholeInv, ExportWhole
<1> QED BY <1>1, <1>2, NextWholeInv, AlwaysTypeInv, PTL DEF Spec

=============================================================================
