----------------------------- MODULE Connections -----------------------------
(***************************************************************************)
(* The table of connections under several sessions: created, edited,       *)
(* cloned, tested, deleted and extracted through, each operation one       *)
(* statement of the metadata database after the other.  A name is what the *)
(* user typed and how many times " (Copy)" was appended.                   *)
(***************************************************************************)
EXTENDS Naturals, Functions

CONSTANTS
  Sessions,
  Ids,     \* bound: the connections that can ever be made
  Typed,   \* bound: what users type for a name
  MaxUse,  \* bound: extractions through one connection
  NoId

ASSUME TypedAssumption == Typed # {}

VARIABLES
  table,   \* id -> the row of a connection
  made,    \* the ids given out
  doing,   \* session -> the operation it is in the middle of, with its row
  handed   \* id -> how many extractions handed data out

connections == <<table, made, doing, handed>>

NameOf(typed) == [typed |-> typed, copies |-> 0]
Row(name)     == [name |-> name, tested |-> "never", used |-> 0]
NoRow         == Row(NameOf(CHOOSE typed \in Typed : TRUE))
Waiting       == [op |-> "none", id |-> NoId, row |-> NoRow]

ConnectionsInit ==
  /\ table = [i \in {} |-> NoRow]
  /\ made = {}
  /\ doing = [s \in Sessions |-> Waiting]
  /\ handed = [i \in Ids |-> 0]

Present(id) == id \in DOMAIN table
Taken(name) == \E i \in DOMAIN table : table[i].name = name

Begin(s, op, id, row) ==
  /\ doing[s] = Waiting
  /\ doing' = [doing EXCEPT ![s] = [op |-> op, id |-> id, row |-> row]]
  /\ UNCHANGED <<table, made, handed>>

In(s, op) == doing[s].op = op /\ doing' = [doing EXCEPT ![s] = Waiting]

(* The schema has a name once: otherwise the statement raises.             *)
Insert(row) ==
  IF Taken(row.name) THEN UNCHANGED <<table, made>>
  ELSE \E i \in Ids \ made :
         /\ table' = [j \in DOMAIN table \cup {i} |-> IF j = i THEN row ELSE table[j]]
         /\ made' = made \cup {i}

-----------------------------------------------------------------------------
(* create_connection looks for the name before it inserts the row.         *)
CheckName(s, name) == ~Taken(name) /\ Begin(s, "create", NoId, Row(name))
Create(s) == In(s, "create") /\ Insert(doing[s].row) /\ UNCHANGED handed

(* clone_connection copies the row it finds, under a name of its own.      *)
ReadForClone(s, id) ==
  /\ Present(id)
  /\ Begin(s, "clone", id, Row([table[id].name EXCEPT !.copies = @ + 1]))
Clone(s) == In(s, "clone") /\ Insert(doing[s].row) /\ UNCHANGED handed

(* Submitting the form reads the row to edit and lays the fields of the     *)
(* form over it.  The statement that follows writes those, not the use that *)
(* was counted nor the test, and affects nothing if the row is gone.        *)
ReadForEdit(s, id, name) ==
  Present(id) /\ Begin(s, "edit", id, [table[id] EXCEPT !.name = name])

NameFree(id, name) == \A i \in DOMAIN table \ {id} : table[i].name # name

(* Mutant of SaveEdit: every column of the row that was read is written.   *)
SaveEditWholeRow(s) ==
  /\ In(s, "edit")
  /\ LET id == doing[s].id
     IN  IF Present(id) /\ NameFree(id, doing[s].row.name)
           THEN table' = [table EXCEPT ![id] = doing[s].row]
           ELSE UNCHANGED table
  /\ UNCHANGED <<made, handed>>

SaveEdit(s) ==
  /\ In(s, "edit")
  /\ LET id == doing[s].id
     IN  IF Present(id) /\ NameFree(id, doing[s].row.name)
           THEN table' = [table EXCEPT ![id].name = doing[s].row.name]
           ELSE UNCHANGED table
  /\ UNCHANGED <<made, handed>>

(* The result of a test is recorded when it is over.                       *)
ReadForTest(s, id) == Present(id) /\ Begin(s, "test", id, table[id])
RecordTest(s) ==
  /\ In(s, "test")
  /\ \E result \in {"PASS", "FAIL"} :
       table' = [i \in DOMAIN table |->
                   IF i = doing[s].id THEN [table[i] EXCEPT !.tested = result] ELSE table[i]]
  /\ UNCHANGED <<made, handed>>

(* An extraction that raises leaves no trace, one that hands out data adds  *)
(* one to the row that is there by then.                                    *)
ReadForExtract(s, id) ==
  Present(id) /\ handed[id] < MaxUse /\ Begin(s, "extract", id, table[id])
ExtractRaises(s) == In(s, "extract") /\ UNCHANGED <<table, made, handed>>
IncrementUsage(s) ==
  /\ In(s, "extract")
  /\ handed' = [handed EXCEPT ![doing[s].id] = @ + 1]
  /\ table' = [i \in DOMAIN table |->
                 IF i = doing[s].id THEN [table[i] EXCEPT !.used = @ + 1] ELSE table[i]]
  /\ UNCHANGED made

Delete(s, id) ==
  /\ doing[s] = Waiting /\ Present(id)
  /\ table' = Restrict(table, DOMAIN table \ {id})
  /\ UNCHANGED <<made, doing, handed>>

ConnectionsNext ==
  \E s \in Sessions :
    \/ Create(s) \/ Clone(s) \/ SaveEdit(s) \/ RecordTest(s) \/ ExtractRaises(s)
    \/ IncrementUsage(s)
    \/ \E typed \in Typed : CheckName(s, NameOf(typed))
    \/ \E id \in Ids :
         \/ ReadForClone(s, id) \/ ReadForTest(s, id) \/ ReadForExtract(s, id) \/ Delete(s, id)
         \/ \E typed \in Typed : ReadForEdit(s, id, NameOf(typed))

ConnectionsSpec == ConnectionsInit /\ [][ConnectionsNext]_connections

-----------------------------------------------------------------------------
(* The usage a connection shows is the number of extractions that handed    *)
(* out its data, whatever was edited, tested or renamed meanwhile: edits    *)
(* and extractions write different columns of one row.                      *)
UsageCountsExtractions ==
  \A i \in DOMAIN table : table[i].used = handed[i]

=============================================================================
