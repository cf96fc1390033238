---------------------------- MODULE Stores_proofs ----------------------------
(***************************************************************************)
(* Theorems about the tables of connections and projects, about the pages  *)
(* that delete from lists, and about what an extraction hands out and      *)
(* leaves open.                                                            *)
(***************************************************************************)
EXTENDS Connections, Projects, ListPages, Extraction, FiniteSetTheorems, TLAPS

-----------------------------------------------------------------------------
(* PROJECTS.  A suite can be saved only under a project that is there, so   *)
(* only the deletion of a project could leave one behind; it cascades.      *)
Statuses == Others \cup {Default, Unsaved, Gone}

ProjectsType ==
  /\ projects \subseteq Others \cup {Default}
  /\ suites \in [Suites -> Statuses]
  /\ busy \in [Users -> [op : {"none", "delete", "save"}, project : Others \cup {Default},
                         count : {0, 1}]]

ProjectsInv == ProjectsType /\ EverySuiteHasItsProject

(* The projects and suites keep their types, and a suite its project, from  *)
(* one statement to the next.                                               *)
LEMMA ProjectsInvHolds == ProjectsSpec => []ProjectsInv
<1>1. ProjectsInit => ProjectsInv
  BY DEF ProjectsInit, ProjectsInv, ProjectsType, EverySuiteHasItsProject, Statuses, Free
<1>2. ProjectsInv /\ [ProjectsNext]_workspace => ProjectsInv'
  <2> SUFFICES ASSUME ProjectsInv, [ProjectsNext]_workspace PROVE ProjectsInv'
    OBVIOUS
  <2> USE DEF ProjectsInv, ProjectsType, EverySuiteHasItsProject, Statuses, Free
  <2>1. ASSUME NEW u \in Users, CreateProject(u) PROVE ProjectsInv'
    BY <2>1 DEF CreateProject
  <2>2. ASSUME NEW u \in Users, DeleteProject(u) PROVE ProjectsInv'
    <3>1. busy' \in [Users -> [op : {"none", "delete", "save"}, project : Others \cup {Default},
                               count : {0, 1}]]
      BY <2>2 DEF DeleteProject, Done
    <3>2. projects' \subseteq Others \cup {Default} /\ suites' \in [Suites -> Statuses]
      BY <2>2 DEF DeleteProject
    <3>3. EverySuiteHasItsProject'
      BY <2>2 DEF DeleteProject
    <3> QED BY <3>1, <3>2, <3>3
  <2>3. ASSUME NEW u \in Users, SaveSuite(u) PROVE ProjectsInv'
    <3>1. busy' \in [Users -> [op : {"none", "delete", "save"}, project : Others \cup {Default},
                               count : {0, 1}]]
      BY <2>3 DEF SaveSuite, Done
    <3>2. projects' = projects /\ suites' \in [Suites -> Statuses]
      BY <2>3 DEF SaveSuite
    <3>3. EverySuiteHasItsProject'
      BY <2>3 DEF SaveSuite
    <3> QED BY <3>1, <3>2, <3>3
  <2>4. ASSUME NEW u \in Users, NEW p \in Others \cup {Default}, CountSuites(u, p)
        PROVE ProjectsInv'
    BY <2>4 DEF CountSuites, Look
  <2>5. ASSUME NEW u \in Users, NEW p \in Others \cup {Default}, FindProject(u, p)
        PROVE ProjectsInv'
    BY <2>5 DEF FindProject, Look
  <2>6. ASSUME NEW u \in Users, NEW t \in Suites, DeleteSuite(u, t) PROVE ProjectsInv'
    BY <2>6 DEF DeleteSuite
  <2>7. CASE UNCHANGED workspace
    BY <2>7 DEF workspace
  <2> QED BY <2>1, <2>2, <2>3, <2>4, <2>5, <2>6, <2>7 DEF ProjectsNext
<1> QED BY <1>1, <1>2, PTL DEF ProjectsSpec

(* Every suite there is has its project, for every number of sessions,      *)
(* projects and suites.                                                     *)
THEOREM SuitesKeepTheirProjects == ProjectsSpec => []EverySuiteHasItsProject
<1>1. ProjectsInv => EverySuiteHasItsProject
  BY DEF ProjectsInv
<1> QED BY <1>1, ProjectsInvHolds, PTL

-----------------------------------------------------------------------------
(* CONNECTIONS.  What an extraction adds one to, a row and the history, is  *)
(* there from the id's first use on, and no id is used twice.               *)
ConnectionNames == [typed : Typed, copies : Nat]
Rows   == [name : ConnectionNames, tested : {"never", "PASS", "FAIL"}, used : Nat]
Doings == [op : {"none", "create", "clone", "edit", "test", "extract"},
           id : Ids \cup {NoId}, row : Rows]

ConnectionsType ==
  /\ made \subseteq Ids
  /\ DOMAIN table \subseteq made
  /\ table \in [DOMAIN table -> Rows]
  /\ doing \in [Sessions -> Doings]
  /\ handed \in [Ids -> Nat]

(* Rows about to be inserted have not been used, nor have ids not given out.*)
NewIsUnused ==
  /\ \A s \in Sessions : doing[s].op \in {"create", "clone"} => doing[s].row.used = 0
  /\ \A s \in Sessions : doing[s].op = "extract" => doing[s].id \in made
  /\ \A i \in Ids \ made : handed[i] = 0

ConnectionsInv == ConnectionsType /\ NewIsUnused /\ UsageCountsExtractions

LEMMA RowIsARow ==
  ASSUME NEW name \in ConnectionNames
  PROVE  Row(name) \in Rows /\ Row(name).used = 0
  BY DEF Row, Rows

LEMMA NoRowIsARow == NoRow \in Rows /\ NoRow.used = 0
  BY TypedAssumption, RowIsARow DEF NoRow, NameOf, ConnectionNames

(* Beginning an operation changes nothing but what its session is doing.   *)
LEMMA BeginKeeps ==
  ASSUME ConnectionsInv, NEW s \in Sessions, NEW id \in Ids \cup {NoId}, NEW row \in Rows,
         NEW op \in {"create", "clone", "edit", "test", "extract"}, Begin(s, op, id, row),
         op \in {"create", "clone"} => row.used = 0, op = "extract" => id \in made
  PROVE  ConnectionsInv'
<1>1. [op |-> op, id |-> id, row |-> row] \in Doings
  BY DEF Doings
<1>2. doing' \in [Sessions -> Doings] /\ UNCHANGED <<table, made, handed>>
  BY <1>1 DEF Begin, ConnectionsInv, ConnectionsType
<1>3. \A r \in Sessions : doing'[r] = IF r = s THEN [op |-> op, id |-> id, row |-> row] ELSE doing[r]
  BY DEF Begin, ConnectionsInv, ConnectionsType
<1>4. NewIsUnused'
  BY <1>2, <1>3 DEF ConnectionsInv, NewIsUnused
<1> QED
  BY <1>2, <1>4 DEF ConnectionsInv, ConnectionsType, UsageCountsExtractions

(* What ending an operation leaves of its session.                         *)
LEMMA InKeeps ==
  ASSUME ConnectionsInv, NEW s \in Sessions, NEW op, In(s, op)
  PROVE  /\ doing' \in [Sessions -> Doings]
         /\ \A r \in Sessions : doing'[r] = IF r = s THEN Waiting ELSE doing[r]
         /\ doing[s] \in Doings /\ doing[s].op = op
         /\ Waiting.op = "none"
<1>1. Waiting \in Doings /\ Waiting.op = "none"
  BY NoRowIsARow DEF Waiting, Doings
<1> QED
  BY <1>1 DEF In, ConnectionsInv, ConnectionsType

(* A row inserted gets an id nothing was extracted through.                *)
LEMMA InsertKeeps ==
  ASSUME ConnectionsInv, NEW s \in Sessions, NEW op \in {"create", "clone"}, In(s, op),
         Insert(doing[s].row), UNCHANGED handed
  PROVE  ConnectionsInv'
<1>1. /\ doing' \in [Sessions -> Doings]
      /\ \A r \in Sessions : doing'[r] = IF r = s THEN Waiting ELSE doing[r]
      /\ doing[s] \in Doings /\ doing[s].op = op /\ Waiting.op = "none"
  BY InKeeps
<1>2. doing[s].row \in Rows /\ doing[s].row.used = 0
  BY <1>1 DEF Doings, ConnectionsInv, NewIsUnused
<1>3. CASE UNCHANGED <<table, made>>
  <2>1. NewIsUnused'
    BY <1>1, <1>3 DEF ConnectionsInv, NewIsUnused
  <2> QED
    BY <1>1, <1>3, <2>1 DEF ConnectionsInv, ConnectionsType, UsageCountsExtractions
<1>4. ASSUME NEW i \in Ids \ made, made' = made \cup {i},
             table' = [j \in DOMAIN table \cup {i} |-> IF j = i THEN doing[s].row ELSE table[j]]
      PROVE  ConnectionsInv'
  <2>1. /\ DOMAIN table' = DOMAIN table \cup {i}
        /\ i \notin DOMAIN table /\ table'[i] = doing[s].row
        /\ \A j \in DOMAIN table : table'[j] = table[j]
    BY <1>4 DEF ConnectionsInv, ConnectionsType
  <2>2. table' = [j \in DOMAIN table' |-> table'[j]]
    BY <1>4
  <2>3. ConnectionsType'
    <3>1. \A j \in DOMAIN table' : table'[j] \in Rows
      BY <1>2, <2>1 DEF ConnectionsInv, ConnectionsType
    <3>2. table' \in [DOMAIN table' -> Rows]
      BY <2>2, <3>1
    <3>3. made' \subseteq Ids /\ DOMAIN table' \subseteq made' /\ handed' \in [Ids -> Nat]
      BY <1>4, <2>1 DEF ConnectionsInv, ConnectionsType
    <3> QED BY <1>1, <3>2, <3>3 DEF ConnectionsType
  <2>4. NewIsUnused'
    BY <1>1, <1>4 DEF ConnectionsInv, NewIsUnused
  <2>5. UsageCountsExtractions'
    BY <1>2, <1>4, <2>1 DEF ConnectionsInv, ConnectionsType, NewIsUnused, UsageCountsExtractions
  <2> QED BY <2>3, <2>4, <2>5 DEF ConnectionsInv
<1> QED BY <1>3, <1>4 DEF Insert

(* Rewriting rows in place, without a change to what they count, by the end *)
(* of an operation.                                                         *)
LEMMA RewriteKeeps ==
  ASSUME ConnectionsInv, NEW s \in Sessions, NEW op, In(s, op),
         DOMAIN table' = DOMAIN table, table' \in [DOMAIN table -> Rows],
         \A i \in DOMAIN table : table'[i].used = table[i].used,
         UNCHANGED <<made, handed>>
  PROVE  ConnectionsInv'
<1>1. /\ doing' \in [Sessions -> Doings]
      /\ \A r \in Sessions : doing'[r] = IF r = s THEN Waiting ELSE doing[r]
      /\ Waiting.op = "none"
  BY InKeeps
<1>2. NewIsUnused'
  BY <1>1 DEF ConnectionsInv, NewIsUnused
<1> QED
  BY <1>1, <1>2 DEF ConnectionsInv, ConnectionsType, UsageCountsExtractions

LEMMA ConnectionsInvHolds == ConnectionsSpec => []ConnectionsInv
<1>1. ConnectionsInit => ConnectionsInv
  <2>1. Waiting \in Doings /\ Waiting.op = "none"
    BY NoRowIsARow DEF Waiting, Doings
  <2> QED
    BY <2>1 DEF ConnectionsInit, ConnectionsInv, ConnectionsType, NewIsUnused, UsageCountsExtractions
<1>2. ConnectionsInv /\ [ConnectionsNext]_connections => ConnectionsInv'
  <2> SUFFICES ASSUME ConnectionsInv, [ConnectionsNext]_connections PROVE ConnectionsInv'
    OBVIOUS
  <2>a. /\ \A i \in DOMAIN table : table[i] \in Rows /\ i \in Ids
        /\ \A s \in Sessions : doing[s] \in Doings
    BY DEF ConnectionsInv, ConnectionsType
  <2>1. ASSUME NEW s \in Sessions, Create(s) \/ Clone(s) PROVE ConnectionsInv'
    BY <2>1, InsertKeeps DEF Create, Clone
  <2>2. ASSUME NEW s \in Sessions, SaveEdit(s) PROVE ConnectionsInv'
    <3>1. doing[s].row.name \in ConnectionNames
      BY <2>a DEF Doings, Rows
    <3>2. CASE UNCHANGED table
      BY <2>2, <3>2, <2>a, RewriteKeeps DEF SaveEdit, ConnectionsInv, ConnectionsType
    <3>3. CASE Present(doing[s].id) /\ table' = [table EXCEPT ![doing[s].id].name = doing[s].row.name]
      <4>1. /\ DOMAIN table' = DOMAIN table
            /\ \A i \in DOMAIN table :
                 table'[i] = IF i = doing[s].id THEN [table[i] EXCEPT !.name = doing[s].row.name]
                             ELSE table[i]
        BY <3>3 DEF ConnectionsInv, ConnectionsType
      <4>2. \A i \in DOMAIN table : table'[i] \in Rows /\ table'[i].used = table[i].used
        BY <4>1, <3>1, <2>a DEF Rows
      <4>3. table' \in [DOMAIN table -> Rows]
        BY <3>3, <4>1, <4>2 DEF ConnectionsInv, ConnectionsType
      <4> QED BY <2>2, <4>1, <4>2, <4>3, RewriteKeeps DEF SaveEdit
    <3> QED BY <2>2, <3>2, <3>3 DEF SaveEdit
  <2>3. ASSUME NEW s \in Sessions, RecordTest(s) PROVE ConnectionsInv'
    <3>1. PICK result \in {"PASS", "FAIL"} :
            table' = [i \in DOMAIN table |->
              IF i = doing[s].id THEN [table[i] EXCEPT !.tested = result] ELSE table[i]]
      BY <2>3 DEF RecordTest
    <3>2. \A i \in DOMAIN table : table'[i] \in Rows /\ table'[i].used = table[i].used
      BY <3>1, <2>a DEF Rows
    <3>3. DOMAIN table' = DOMAIN table /\ table' \in [DOMAIN table -> Rows]
      BY <3>1, <3>2
    <3> QED BY <2>3, <3>2, <3>3, RewriteKeeps DEF RecordTest
  <2>4. ASSUME NEW s \in Sessions, ExtractRaises(s) PROVE ConnectionsInv'
    BY <2>4, <2>a, RewriteKeeps DEF ExtractRaises, ConnectionsInv, ConnectionsType
  <2>5. ASSUME NEW s \in Sessions, IncrementUsage(s) PROVE ConnectionsInv'
    <3>1. /\ doing' \in [Sessions -> Doings]
          /\ \A r \in Sessions : doing'[r] = IF r = s THEN Waiting ELSE doing[r]
          /\ doing[s].op = "extract" /\ Waiting.op = "none"
      BY <2>5, InKeeps DEF IncrementUsage
    <3>2. doing[s].id \in made /\ doing[s].id \in Ids
      BY <3>1 DEF ConnectionsInv, NewIsUnused, ConnectionsType
    <3>3. /\ handed' \in [Ids -> Nat]
          /\ \A i \in Ids : handed'[i] = IF i = doing[s].id THEN handed[i] + 1 ELSE handed[i]
      BY <2>5, <3>2 DEF IncrementUsage, ConnectionsInv, ConnectionsType
    <3>4. /\ DOMAIN table' = DOMAIN table /\ made' = made
          /\ \A i \in DOMAIN table :
               table'[i] = IF i = doing[s].id THEN [table[i] EXCEPT !.used = @ + 1] ELSE table[i]
      BY <2>5 DEF IncrementUsage
    <3>5. \A i \in DOMAIN table :
            /\ table'[i] \in Rows
            /\ table'[i].used = IF i = doing[s].id THEN table[i].used + 1 ELSE table[i].used
      BY <3>4, <2>a DEF Rows
    <3>6. table' \in [DOMAIN table' -> Rows]
      BY <2>5, <3>4, <3>5 DEF IncrementUsage
    <3>7. ConnectionsType'
      BY <3>1, <3>3, <3>4, <3>6 DEF ConnectionsInv, ConnectionsType
    <3>8. NewIsUnused'
      BY <3>1, <3>2, <3>3, <3>4 DEF ConnectionsInv, NewIsUnused
    <3>9. UsageCountsExtractions'
      BY <2>a, <3>3, <3>4, <3>5 DEF ConnectionsInv, UsageCountsExtractions
    <3> QED BY <3>7, <3>8, <3>9 DEF ConnectionsInv
  <2>6. ASSUME NEW s \in Sessions, NEW typed \in Typed, CheckName(s, NameOf(typed))
        PROVE  ConnectionsInv'
    <3>1. NameOf(typed) \in ConnectionNames
      BY DEF NameOf, ConnectionNames
    <3> QED BY <2>6, <3>1, RowIsARow, BeginKeeps DEF CheckName
  <2>7. ASSUME NEW s \in Sessions, NEW id \in Ids, ReadForClone(s, id) PROVE ConnectionsInv'
    <3>1. [table[id].name EXCEPT !.copies = @ + 1] \in ConnectionNames
      BY <2>7, <2>a DEF ReadForClone, Present, Rows, ConnectionNames
    <3> QED BY <2>7, <3>1, RowIsARow, BeginKeeps DEF ReadForClone
  <2>8. ASSUME NEW s \in Sessions, NEW id \in Ids, ReadForTest(s, id) \/ ReadForExtract(s, id)
        PROVE  ConnectionsInv'
    <3>1. id \in DOMAIN table /\ id \in made /\ table[id] \in Rows
      BY <2>8, <2>a DEF ReadForTest, ReadForExtract, Present, ConnectionsInv, ConnectionsType
    <3> QED BY <2>8, <3>1, BeginKeeps DEF ReadForTest, ReadForExtract
  <2>9. ASSUME NEW s \in Sessions, NEW id \in Ids, NEW typed \in Typed,
               ReadForEdit(s, id, NameOf(typed))
        PROVE  ConnectionsInv'
    <3>1. [table[id] EXCEPT !.name = NameOf(typed)] \in Rows
      BY <2>9, <2>a DEF ReadForEdit, Present, Rows, NameOf, ConnectionNames
    <3> QED BY <2>9, <3>1, BeginKeeps DEF ReadForEdit
  <2>10. ASSUME NEW s \in Sessions, NEW id \in Ids, Delete(s, id) PROVE ConnectionsInv'
    <3>1. /\ table' = [i \in DOMAIN table \ {id} |-> table[i]]
          /\ UNCHANGED <<made, doing, handed>>
      BY <2>10 DEF Delete, Restrict
    <3>2. table' \in [DOMAIN table' -> Rows] /\ DOMAIN table' \subseteq DOMAIN table
      BY <3>1, <2>a
    <3>3. NewIsUnused'
      BY <3>1 DEF ConnectionsInv, NewIsUnused
    <3> QED
      BY <3>1, <3>2, <3>3 DEF ConnectionsInv, ConnectionsType, UsageCountsExtractions
  <2>11. CASE UNCHANGED connections
    BY <2>11 DEF connections, ConnectionsInv, ConnectionsType, NewIsUnused, UsageCountsExtractions
  <2> QED
    BY <2>1, <2>2, <2>3, <2>4, <2>5, <2>6, <2>7, <2>8, <2>9, <2>10, <2>11 DEF ConnectionsNext
<1> QED BY <1>1, <1>2, PTL DEF ConnectionsSpec

(* The use a connection shows is the number of extractions through it, for  *)
(* every number of sessions and connections.                                *)
THEOREM UsageIsTheNumberOfExtractions == ConnectionsSpec => []UsageCountsExtractions
<1>1. ConnectionsInv => UsageCountsExtractions
  BY DEF ConnectionsInv
<1> QED BY <1>1, ConnectionsInvHolds, PTL

-----------------------------------------------------------------------------
(* PAGES.  What is armed is as many ids as labels were asked for; runs and  *)
(* suites keep their labels, and an id that is gone does not come back.     *)
Entries == [label : Labels, archived : BOOLEAN]

PagesType ==
  /\ known \subseteq Items /\ DOMAIN listed \subseteq known
  /\ listed \in [DOMAIN listed -> Entries]

ArmedWasAsked ==
  /\ armed \subseteq known
  /\ Cardinality(armed) = Cardinality(asked)
  /\ page # "connections" => \A i \in armed \cap DOMAIN listed : listed[i].label \in asked

PagesInv == PagesType /\ ArmedWasAsked

LEMMA ArmedIsFinite == PagesInv => IsFiniteSet(armed) /\ Cardinality(armed) \in Nat
<1>1. PagesInv => armed \subseteq Items
  BY DEF PagesInv, PagesType, ArmedWasAsked
<1> QED
  BY <1>1, ItemsAssumption, FS_Subset, FS_CardinalityType

(* Entries that leave the list, or keep their labels, stay as asked for.    *)
LEMMA ListKeeps ==
  ASSUME PagesInv, UNCHANGED <<page, known, armed, asked>>,
         DOMAIN listed' \subseteq DOMAIN listed, listed' \in [DOMAIN listed' -> Entries],
         page # "connections" => \A i \in DOMAIN listed' : listed'[i].label = listed[i].label
  PROVE  PagesInv'
  BY DEF PagesInv, PagesType, ArmedWasAsked

LEMMA NothingArmed ==
  ASSUME PagesInv, UNCHANGED <<known>>, armed' = {}, asked' = {},
         DOMAIN listed' \subseteq DOMAIN listed, listed' \in [DOMAIN listed' -> Entries]
  PROVE  PagesInv'
  BY DEF PagesInv, PagesType, ArmedWasAsked

LEMMA PagesInvHolds == ListPagesSpec => []PagesInv
<1>1. ListPagesInit => PagesInv
  BY DEF ListPagesInit, PagesInv, PagesType, ArmedWasAsked
<1>2. PagesInv /\ [ListPagesNext]_pages => PagesInv'
  <2> SUFFICES ASSUME PagesInv, [ListPagesNext]_pages PROVE PagesInv'
    OBVIOUS
  <2>a. listed \in [DOMAIN listed -> Entries] /\ Shown \subseteq DOMAIN listed
    BY DEF PagesInv, PagesType, Shown
  <2>1. ASSUME NEW labels \in SUBSET Labels, Choose(labels) \/ QuickSelect(labels) PROVE PagesInv'
    BY <2>1, <2>a, ListKeeps DEF Choose, QuickSelect
  <2>2. CASE ApplyStaged \/ ShowArchived
    BY <2>2, <2>a, ListKeeps DEF ApplyStaged, ShowArchived
  <2>3. CASE PressDelete
    <3>1. /\ armed' \subseteq Shown /\ Cardinality(armed') = Cardinality(asked')
          /\ \A i \in armed' : listed[i].label \in asked'
          /\ UNCHANGED <<page, listed, known>>
      BY <2>3 DEF PressDelete, Picks
    <3> QED BY <3>1, <2>a DEF PagesInv, PagesType, ArmedWasAsked
  <2>4. CASE Confirm
    <3>1. listed' = [i \in DOMAIN listed \ armed |-> listed[i]]
      BY <2>4 DEF Confirm, Restrict
    <3> QED BY <2>4, <3>1, <2>a, NothingArmed DEF Confirm, Dismiss
  <2>5. CASE Cancel
    BY <2>5, <2>a, NothingArmed DEF Cancel
  <2>6. CASE Archive
    <3>1. /\ DOMAIN listed' = DOMAIN listed
          /\ \A i \in DOMAIN listed :
               /\ listed'[i].label = listed[i].label
               /\ listed'[i] \in Entries
          /\ listed' = [i \in DOMAIN listed' |-> listed'[i]]
      <4>1. PICK ids \in Picks :
              LET restoring == \A i \in ids : listed[i].archived
              IN  listed' = [i \in DOMAIN listed |->
                    IF i \in ids THEN [listed[i] EXCEPT !.archived = ~restoring] ELSE listed[i]]
        BY <2>6 DEF Archive
      <4> DEFINE restoring == \A i \in ids : listed[i].archived
      <4>2. restoring \in BOOLEAN
        OBVIOUS
      <4>3. \A i \in DOMAIN listed :
              [listed[i] EXCEPT !.archived = ~restoring] \in Entries
              /\ [listed[i] EXCEPT !.archived = ~restoring].label = listed[i].label
        <5> HIDE DEF restoring
        <5> QED BY <2>a, <4>2 DEF Entries
      <4>4. listed' = [i \in DOMAIN listed |->
                         IF i \in ids THEN [listed[i] EXCEPT !.archived = ~restoring] ELSE listed[i]]
        BY <4>1
      <4> HIDE DEF restoring
      <4> QED BY <2>a, <4>3, <4>4
    <3> QED BY <2>6, <3>1, ListKeeps DEF Archive
  <2>7. CASE OthersAct
    <3>0. UNCHANGED <<page, armed, asked>>
      BY <2>7 DEF OthersAct
    <3>1. ASSUME NEW i \in Items \ known, NEW l \in Labels, known' = known \cup {i},
                 listed' = [j \in DOMAIN listed \cup {i} |-> IF j = i THEN Entry(l) ELSE listed[j]]
          PROVE  PagesInv'
      <4>1. Entry(l) \in Entries
        BY DEF Entry, Entries
      <4>2. PagesType'
        BY <3>1, <4>1, <2>a DEF PagesInv, PagesType
      <4>3. i \notin armed /\ \A j \in DOMAIN listed : j # i /\ listed'[j] = listed[j]
        BY <3>1 DEF PagesInv, PagesType, ArmedWasAsked
      <4>4. ArmedWasAsked'
        BY <3>0, <3>1, <4>3 DEF PagesInv, ArmedWasAsked
      <4> QED BY <4>2, <4>4 DEF PagesInv
    <3>2. ASSUME NEW i \in DOMAIN listed, listed' = Restrict(listed, DOMAIN listed \ {i}),
                 UNCHANGED known
          PROVE  PagesInv'
      <4>1. listed' = [j \in DOMAIN listed \ {i} |-> listed[j]]
        BY <3>2 DEF Restrict
      <4> QED BY <3>0, <3>2, <4>1, <2>a, ListKeeps
    <3>3. ASSUME page = "connections", NEW i \in DOMAIN listed, NEW l \in Labels,
                 listed' = [listed EXCEPT ![i].label = l], UNCHANGED known
          PROVE  PagesInv'
      <4>1. [listed[i] EXCEPT !.label = l] \in Entries
        BY <2>a DEF Entries
      <4>2. listed' \in [DOMAIN listed -> Entries] /\ DOMAIN listed' = DOMAIN listed
        BY <3>3, <4>1, <2>a
      <4> QED BY <3>0, <3>3, <4>2, ListKeeps
    <3> QED BY <2>7, <3>1, <3>2, <3>3 DEF OthersAct
  <2>8. CASE UNCHANGED pages
    BY <2>8, <2>a, ListKeeps DEF pages
  <2> QED
    BY <2>1, <2>2, <2>3, <2>4, <2>5, <2>6, <2>7, <2>8 DEF ListPagesNext
<1> QED BY <1>1, <1>2, PTL DEF ListPagesSpec

(* A confirmation deletes nothing but what was asked for, in lists of every *)
(* length.                                                                  *)
THEOREM ConfirmationsDeleteWhatWasAsked == ListPagesSpec => DeletesWhatWasAsked
<1> DEFINE deleted == DOMAIN listed \ DOMAIN listed'
<1>1. ASSUME PagesInv, [ListPagesNext]_pages, armed # {}, armed' = {}
      PROVE  /\ Cardinality(deleted) <= Cardinality(asked)
             /\ \A i \in deleted :
                  listed[i].label \in IF page = "connections" THEN chosen ELSE asked
  <2>1. CASE Confirm
    <3>1. DOMAIN listed' = DOMAIN listed \ armed
      BY <2>1 DEF Confirm, Restrict
    <3>2. deleted = DOMAIN listed \cap armed
      BY <3>1
    <3>3. Cardinality(deleted) <= Cardinality(armed)
      BY <1>1, <3>2, ArmedIsFinite, FS_Subset
    <3>4. page = "connections" => \A i \in armed : listed[i].label \in chosen
      BY <2>1 DEF Confirm, Confirming, Picks, Selection
    <3> HIDE DEF deleted
    <3> QED BY <1>1, <3>2, <3>3, <3>4 DEF PagesInv, ArmedWasAsked
  <2>2. CASE UNCHANGED listed
    <3>1. deleted = {}
      BY <2>2
    <3>2. Cardinality(asked) \in Nat
      BY <1>1, ArmedIsFinite DEF PagesInv, ArmedWasAsked
    <3> HIDE DEF deleted
    <3> QED BY <3>1, <3>2, FS_EmptySet
  <2>3. CASE UNCHANGED armed
    BY <1>1, <2>3
  <2> QED
    BY <1>1, <2>1, <2>2, <2>3
    DEF ListPagesNext, pages, Choose, QuickSelect, ApplyStaged, PressDelete, Cancel, Archive,
        ShowArchived, OthersAct
<1> HIDE DEF deleted
<1>2. PagesInv /\ [ListPagesNext]_pages =>
        [armed # {} /\ armed' = {} =>
           LET gone == DOMAIN listed \ DOMAIN listed'
           IN  /\ Cardinality(gone) <= Cardinality(asked)
               /\ \A i \in gone :
                    listed[i].label \in IF page = "connections" THEN chosen ELSE asked]_pages
  BY <1>1 DEF deleted
<1> QED BY <1>2, PagesInvHolds, PTL DEF ListPagesSpec, DeletesWhatWasAsked

-----------------------------------------------------------------------------
(* EXTRACTIONS, for every ceiling, chunk, limit and source.                 *)
LEMMA MinOfTwo ==
  ASSUME NEW a \in Nat, NEW b \in Nat
  PROVE  Min({a, b}) = IF a <= b THEN a ELSE b
<1>1. \E x \in {a, b} : \A y \in {a, b} : x <= y
  OBVIOUS
<1>2. Min({a, b}) \in {a, b} /\ \A y \in {a, b} : Min({a, b}) <= y
  BY <1>1 DEF Min
<1> QED
  BY <1>2

InChunks == Connector \in {"engine", "dbapi"}
Opens    == Connector \in {"engine", "dbapi", "mongo"}
LimitIn  == request.limit \in {NoLimit} \cup (Nat \ {0})

(* What a request has fetched and left open, from phase to phase.          *)
PhaseInv ==
  /\ phase \in {"form", "saved", "asked", "open", "ended"}
  /\ phase \in {"form", "saved", "asked"} => fetched = 0 /\ handles = 0
  /\ phase = "open"  => handles = IF Opens THEN 1 ELSE 0
  /\ phase = "open"  => fetched <= available
  /\ phase # "ended" => answer = Unanswered

ExtractionType == available \in Nat /\ fetched \in Nat /\ LimitIn

ExtractionInv == ExtractionType /\ PhaseInv /\ FirstRowsUpToLimit /\ NothingLeftOpen

LEMMA LimitIsPositive == LimitIn => Limit \in Nat \ {0}
  BY MinOfTwo, CeilingAssumption DEF LimitIn, Limit

(* The requests name a limit, or none.                                      *)
LEMMA RequestsHaveLimits ==
  ASSUME NEW r \in Requests(Connector)
  PROVE  r.limit \in {NoLimit} \cup (Nat \ {0})
  BY LimitAssumption DEF Requests

(* An answer given before anything is fetched or opened.                   *)
LEMMA EndEarlyKeeps ==
  ASSUME ExtractionInv, NEW status \in {"unknown", "unanswerable", "refused", "raised"},
         EndEarly(status)
  PROVE  ExtractionInv'
<1>1. /\ phase' = "ended" /\ answer'.status # "data"
      /\ UNCHANGED <<conn, request, available, fetched, handles>>
  BY DEF EndEarly, End
<1>2. Limit' = Limit /\ Connector' = Connector
  BY <1>1 DEF Limit, Connector
<1>3. handles = 0
  BY DEF EndEarly, ExtractionInv, PhaseInv
<1> QED
  BY <1>1, <1>2, <1>3
  DEF ExtractionInv, ExtractionType, LimitIn, PhaseInv, FirstRowsUpToLimit, NothingLeftOpen

LEMMA ExtractionInvHolds == ExtractionSpec => []ExtractionInv
<1>1. ExtractionInit => ExtractionInv
  <2>1. ExtractionInit => ExtractionType /\ PhaseInv
    BY DEF ExtractionInit, ExtractionType, LimitIn, Nothing, PhaseInv, Unanswered
  <2>2. ExtractionInit => FirstRowsUpToLimit
    BY DEF ExtractionInit, Unanswered, FirstRowsUpToLimit
  <2>3. ExtractionInit => NothingLeftOpen
    BY <2>1, LimitIsPositive, CeilingAssumption DEF ExtractionInit, ExtractionType, NothingLeftOpen
  <2> QED BY <2>1, <2>2, <2>3 DEF ExtractionInv
<1>2. ExtractionInv /\ [ExtractionNext]_extraction => ExtractionInv'
  <2> SUFFICES ASSUME ExtractionInv, [ExtractionNext]_extraction PROVE ExtractionInv'
    OBVIOUS
  <2>a. /\ available \in Nat /\ fetched \in Nat /\ Limit \in Nat \ {0}
        /\ Chunk \in Nat \ {0}
    BY LimitIsPositive, CeilingAssumption DEF ExtractionInv, ExtractionType
  <2>b. ASSUME UNCHANGED <<conn, request>> PROVE Limit' = Limit /\ Connector' = Connector
    BY <2>b DEF Limit, Connector
  <2>1. CASE SubmitForm
    <3>1. Limit' = Limit
      BY <2>1 DEF SubmitForm, Limit
    <3> QED
      BY <2>1, <2>a, <3>1
      DEF SubmitForm, ExtractionInv, ExtractionType, LimitIn, PhaseInv, FirstRowsUpToLimit,
          NothingLeftOpen, Unanswered
  <2>2. CASE Ask
    <3>1. LimitIn' /\ available' \in Nat /\ fetched' = 0 /\ handles' = 0 /\ phase' = "asked"
      BY <2>2, RequestsHaveLimits, SizesAssumption DEF Ask, LimitIn, ExtractionInv, PhaseInv
    <3>2. Limit' \in Nat \ {0}
      BY <3>1, MinOfTwo, CeilingAssumption DEF LimitIn, Limit
    <3>3. answer' = Unanswered
      BY <2>2 DEF Ask, ExtractionInv, PhaseInv
    <3>4. ExtractionType' /\ PhaseInv'
      BY <2>a, <3>1, <3>3 DEF ExtractionType, PhaseInv
    <3>5. FirstRowsUpToLimit'
      BY <3>3 DEF FirstRowsUpToLimit, Unanswered
    <3>6. fetched' < Limit' + Chunk
      <4>1. fetched' = 0 /\ Chunk \in Nat
        BY <2>a, <3>1
      <4>2. \A limit \in Nat \ {0} : 0 < limit + Chunk
        BY <4>1
      <4> QED BY <4>1, <4>2, <3>2
    <3>7. NothingLeftOpen'
      BY <3>1, <3>6 DEF NothingLeftOpen
    <3> QED BY <3>4, <3>5, <3>7 DEF ExtractionInv
  <2>3. CASE InspectNoCatalog \/ Refuse \/ ConnectFails
    BY <2>3, EndEarlyKeeps DEF InspectNoCatalog, Refuse, ConnectFails
  <2>4. CASE Connect
    <3>1. UNCHANGED <<conn, request>> /\ fetched = 0
      BY <2>4 DEF Connect, ExtractionInv, PhaseInv
    <3> QED
      BY <2>4, <2>a, <2>b, <3>1
      DEF Connect, ExtractionInv, ExtractionType, LimitIn, PhaseInv, Opens, FirstRowsUpToLimit,
          NothingLeftOpen, Unanswered
  <2>5. CASE Fetch
    <3>1. /\ fetched < Limit /\ fetched < available
          /\ fetched' \in Nat /\ fetched' <= available /\ fetched' <= fetched + Chunk
      BY <2>5, <2>a, MinOfTwo DEF Fetch
    <3>2. UNCHANGED <<conn, request, available, phase, handles, answer>> /\ phase = "open"
      BY <2>5 DEF Fetch, Reading
    <3>3. fetched' < Limit + Chunk
      BY <3>1, <2>a
    <3> QED
      BY <3>1, <3>2, <3>3, <2>a, <2>b
      DEF ExtractionInv, ExtractionType, LimitIn, PhaseInv, Opens, FirstRowsUpToLimit,
          NothingLeftOpen, Unanswered
  <2>6. CASE HandOut
    <3>1. /\ fetched >= Min({Limit, available}) /\ fetched <= available
          /\ UNCHANGED <<conn, request, available, fetched>> /\ handles' = 0
          /\ phase' = "ended" /\ answer'.rows = Min({fetched, Limit})
      BY <2>6 DEF HandOut, Reading, Close, End, ExtractionInv, PhaseInv
    <3>2. Min({fetched, Limit}) = Min({Limit, available})
      BY <3>1, <2>a, MinOfTwo
    <3> QED
      BY <3>1, <3>2, <2>a, <2>b
      DEF ExtractionInv, ExtractionType, LimitIn, PhaseInv, FirstRowsUpToLimit, NothingLeftOpen
  <2>7. CASE ReadAtOnce
    <3>1. /\ fetched' = IF Connector = "mongo" THEN Min({Limit, available}) ELSE available
          /\ UNCHANGED <<conn, request, available>> /\ handles' = 0 /\ ~InChunks
          /\ phase' = "ended" /\ answer'.rows = Min({fetched', Limit})
      BY <2>7 DEF ReadAtOnce, ReadWhole, Close, End, InChunks
    <3>2. fetched' \in Nat /\ Min({fetched', Limit}) = Min({Limit, available})
      BY <3>1, <2>a, MinOfTwo
    <3> QED
      BY <3>1, <3>2, <2>a, <2>b
      DEF ExtractionInv, ExtractionType, LimitIn, PhaseInv, InChunks, FirstRowsUpToLimit,
          NothingLeftOpen
  <2>8. CASE ReadRaises \/ Inspect \/ TestPasses
    <3>1. /\ UNCHANGED <<conn, request, available, fetched>> /\ handles' = 0
          /\ phase' = "ended" /\ answer'.status # "data"
      BY <2>8 DEF ReadRaises, Inspect, TestPasses, Close, End
    <3> QED
      BY <3>1, <2>a, <2>b
      DEF ExtractionInv, ExtractionType, LimitIn, PhaseInv, FirstRowsUpToLimit, NothingLeftOpen
  <2>9. CASE TestFails
    <3>1. /\ UNCHANGED <<conn, request, available, fetched>> /\ request.kind = "test"
          /\ handles' # 0 => Connector = "engine"
          /\ phase' = "ended" /\ answer'.status = "FAIL"
      BY <2>9 DEF TestFails, End
    <3> QED
      BY <3>1, <2>a, <2>b
      DEF ExtractionInv, ExtractionType, LimitIn, PhaseInv, FirstRowsUpToLimit, NothingLeftOpen
  <2>10. CASE UNCHANGED extraction
    <3>1. /\ UNCHANGED <<conn, request, available, phase, fetched, handles, answer>>
      BY <2>10 DEF extraction
    <3> QED
      BY <3>1, <2>b
      DEF ExtractionInv, ExtractionType, LimitIn, PhaseInv, Opens, FirstRowsUpToLimit, NothingLeftOpen
  <2> QED
    BY <2>1, <2>2, <2>3, <2>4, <2>5, <2>6, <2>7, <2>8, <2>9, <2>10 DEF ExtractionNext
<1> QED BY <1>1, <1>2, PTL DEF ExtractionSpec

(* An extraction hands out the first rows up to its limit, however it reads.*)
THEOREM ExtractionsReachTheirLimit == ExtractionSpec => []FirstRowsUpToLimit
<1>1. ExtractionInv => FirstRowsUpToLimit
  BY DEF ExtractionInv
<1> QED BY <1>1, ExtractionInvHolds, PTL

(* Chunks overshoot by less than one, and only a failed test of an engine   *)
(* leaves anything open.                                                    *)
THEOREM OnlyFailedTestsLeak == ExtractionSpec => []NothingLeftOpen
<1>1. ExtractionInv => NothingLeftOpen
  BY DEF ExtractionInv
<1> QED BY <1>1, ExtractionInvHolds, PTL
=============================================================================
