----------------------------- MODULE ListPages ------------------------------
(***************************************************************************)
(* The pages that list connections, suites or runs and delete what was     *)
(* chosen from the list once the user has confirmed, in a session whose    *)
(* script runs again for every click while other sessions change the list. *)
(* What is chosen are labels; which ids they stand for is looked up in     *)
(* the list of each rerun.                                                 *)
(***************************************************************************)
EXTENDS Naturals, FiniteSets, Functions

CONSTANTS
  Items,   \* bound: ids
  Labels   \* bound: what they are called

ASSUME ItemsAssumption == IsFiniteSet(Items)

VARIABLES
  page,    \* "connections", "suites" or "runs"
  listed,  \* id -> its label and whether it is archived
  known,   \* the ids given out so far
  archivedToo, \* does the list show the archived runs?
  chosen,  \* the labels selected
  staged,  \* labels to be selected when the script runs next
  armed,   \* the ids the confirmation is about
  asked    \* the labels selected when Delete was pressed

pages == <<page, listed, known, archivedToo, chosen, staged, armed, asked>>

Entry(label)    == [label |-> label, archived |-> FALSE]
NothingStaged == [ready |-> FALSE, labels |-> {}]

ListPagesInit ==
  /\ page \in {"connections", "suites", "runs"}
  /\ listed = [i \in {} |-> Entry(CHOOSE l \in Labels : TRUE)]
  /\ known = {} /\ archivedToo = FALSE
  /\ chosen = {} /\ staged = NothingStaged /\ armed = {} /\ asked = {}

Shown   == {i \in DOMAIN listed : archivedToo \/ ~listed[i].archived}
Options == {listed[i].label : i \in Shown}

(* The ids the selection stands for: of two suites of one name, in two      *)
(* projects, the last of the list.                                          *)
Selection == chosen \cap Options
Picks ==
  {ids \in SUBSET Shown :
     /\ {listed[i].label : i \in ids} = Selection
     /\ Cardinality(ids) = Cardinality(Selection)}

-----------------------------------------------------------------------------
(* Choosing by hand; one connection, any number of the others.  A list box  *)
(* whose connection is gone or renamed falls back to another one.           *)
Choose(labels) ==
  /\ ~staged.ready
  /\ labels \subseteq Options
  /\ page = "connections" => Cardinality(labels) = 1
  /\ chosen' = labels
  /\ UNCHANGED <<page, listed, known, archivedToo, staged, armed, asked>>

(* The quick buttons stage a selection for the rerun that follows, which    *)
(* keeps those of its labels that are still listed.                         *)
QuickSelect(labels) ==
  /\ page # "connections" /\ ~staged.ready
  /\ labels \in {{}, Options}
  /\ staged' = [ready |-> TRUE, labels |-> labels]
  /\ UNCHANGED <<page, listed, known, archivedToo, chosen, armed, asked>>

ApplyStaged ==
  /\ staged.ready
  /\ chosen' = staged.labels \cap Options
  /\ staged' = NothingStaged
  /\ UNCHANGED <<page, listed, known, archivedToo, armed, asked>>

PressDelete ==
  /\ ~staged.ready /\ Selection # {}
  /\ armed' \in Picks /\ asked' = Selection
  /\ UNCHANGED <<page, listed, known, archivedToo, chosen, staged>>

(* The confirmation is on the page: of a connection while it is the one     *)
(* selected, of the others while anything is.                               *)
Confirming ==
  /\ ~staged.ready /\ armed # {} /\ Selection # {}
  /\ page = "connections" => armed \in Picks

Dismiss ==
  /\ armed' = {} /\ asked' = {}
  /\ staged' = IF page = "connections" THEN staged ELSE [ready |-> TRUE, labels |-> {}]

(* Mutant of Confirm: what is selected by now is deleted.                  *)
ConfirmSelected ==
  /\ Confirming
  /\ \E ids \in Picks : listed' = Restrict(listed, DOMAIN listed \ ids)
  /\ Dismiss
  /\ UNCHANGED <<page, known, archivedToo, chosen>>

Confirm ==
  /\ Confirming
  /\ listed' = Restrict(listed, DOMAIN listed \ armed)
  /\ Dismiss
  /\ UNCHANGED <<page, known, archivedToo, chosen>>

Cancel ==
  /\ Confirming
  /\ armed' = {} /\ asked' = {}
  /\ UNCHANGED <<page, listed, known, archivedToo, chosen, staged>>

(* Runs are archived, or restored if all of them are archived.             *)
Archive ==
  /\ page = "runs" /\ ~staged.ready /\ Selection # {}
  /\ \E ids \in Picks :
       LET restoring == \A i \in ids : listed[i].archived
       IN  listed' = [i \in DOMAIN listed |->
                        IF i \in ids THEN [listed[i] EXCEPT !.archived = ~restoring] ELSE listed[i]]
  /\ staged' = [ready |-> TRUE, labels |-> {}]
  /\ UNCHANGED <<page, known, archivedToo, chosen, armed, asked>>

ShowArchived ==
  /\ page = "runs" /\ ~staged.ready
  /\ archivedToo' = ~archivedToo
  /\ UNCHANGED <<page, listed, known, chosen, staged, armed, asked>>

(* Other sessions.  Runs and connections have labels of their own, and only *)
(* connections change theirs.                                               *)
Unused(label) == page = "suites" \/ \A i \in DOMAIN listed : listed[i].label # label
OthersAct ==
  /\ \/ \E i \in Items \ known, l \in Labels :
          /\ Unused(l)
          /\ listed' = [j \in DOMAIN listed \cup {i} |-> IF j = i THEN Entry(l) ELSE listed[j]]
          /\ known' = known \cup {i}
     \/ \E i \in DOMAIN listed :
          listed' = Restrict(listed, DOMAIN listed \ {i}) /\ UNCHANGED known
     \/ /\ page = "connections"
        /\ \E i \in DOMAIN listed, l \in Labels :
             Unused(l) /\ listed' = [listed EXCEPT ![i].label = l]
        /\ UNCHANGED known
  /\ UNCHANGED <<page, archivedToo, chosen, staged, armed, asked>>

ListPagesNext ==
  \/ \E labels \in SUBSET Labels : Choose(labels) \/ QuickSelect(labels)
  \/ ApplyStaged \/ PressDelete \/ Confirm \/ Cancel \/ Archive \/ ShowArchived \/ OthersAct

ListPagesSpec == ListPagesInit /\ [][ListPagesNext]_pages

-----------------------------------------------------------------------------
(* "Two clicks to delete" (test_suites_view.py:193): a confirmation deletes *)
(* nothing but what was selected when Delete was pressed, one id a label,   *)
(* whatever has been selected, archived or added since; and a connection    *)
(* only while its name is the one the page shows as selected, though other  *)
(* sessions rename connections and give their names to new ones.            *)
DeletesWhatWasAsked ==
  [][armed # {} /\ armed' = {} =>
       LET deleted == DOMAIN listed \ DOMAIN listed'
       IN  /\ Cardinality(deleted) <= Cardinality(asked)
           /\ \A i \in deleted :
                listed[i].label \in IF page = "connections" THEN chosen ELSE asked]_pages

=============================================================================
