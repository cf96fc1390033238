------------------------------ MODULE Projects ------------------------------
(***************************************************************************)
(* Projects and the suites saved under them, by several sessions.  A suite *)
(* refers to its project with ON DELETE CASCADE, and the metadata database *)
(* opens its connection with foreign_keys = ON.                            *)
(***************************************************************************)
EXTENDS Naturals

CONSTANTS
  Users,    \* the sessions
  Default,  \* the project that is always there
  Others,   \* bound: the projects that can ever be made
  Suites    \* bound: the suites that can ever be saved

VARIABLES
  projects, \* the projects there are
  suites,   \* suite -> its project, or what it is before and after
  busy      \* session -> what it found, and is about to act upon

workspace == <<projects, suites, busy>>

Unsaved == "unsaved"
Gone    == "gone"
Free    == [op |-> "none", project |-> Default, count |-> 0]

SuitesOf(p) == {t \in Suites : suites[t] = p}

ProjectsInit ==
  /\ projects = {Default}
  /\ suites = [t \in Suites |-> Unsaved]
  /\ busy = [u \in Users |-> Free]

Look(u, op, p, n) ==
  busy[u] = Free /\ busy' = [busy EXCEPT ![u] = [op |-> op, project |-> p, count |-> n]]
Done(u, op) == busy[u].op = op /\ busy' = [busy EXCEPT ![u] = Free]

(* create_project: ids are not given out twice.                            *)
CreateProject(u) ==
  /\ busy[u] = Free
  /\ \E p \in Others \ projects :
       (\A t \in Suites : suites[t] # p) /\ projects' = projects \cup {p}
  /\ UNCHANGED <<suites, busy>>

(* The page counts the suites of a project whenever it is drawn; its delete *)
(* button, out of reach for the default project, acts upon that count.      *)
CountSuites(u, p) ==
  /\ p \in projects \ {Default}
  /\ \E n \in {0, 1} : (n = 0 <=> SuitesOf(p) = {}) /\ Look(u, "delete", p, n)
  /\ UNCHANGED <<projects, suites>>

DeleteProject(u) ==
  /\ Done(u, "delete")
  /\ LET p == busy[u].project
     IN  IF busy[u].count = 0
           THEN /\ projects' = projects \ {p}
                /\ suites' = [t \in Suites |-> IF suites[t] = p THEN Gone ELSE suites[t]]
           ELSE UNCHANGED <<projects, suites>>

(* save_suite looks for the project, then inserts the suite; the insertion  *)
(* raises if the project is gone by then.                                   *)
FindProject(u, p) ==
  p \in projects /\ Look(u, "save", p, 0) /\ UNCHANGED <<projects, suites>>

(* Mutant of SaveSuite: the reference to the project is not enforced.      *)
SaveSuiteUnchecked(u) ==
  /\ Done(u, "save")
  /\ \E t \in Suites : suites[t] = Unsaved /\ suites' = [suites EXCEPT ![t] = busy[u].project]
  /\ UNCHANGED projects

SaveSuite(u) ==
  /\ Done(u, "save")
  /\ IF busy[u].project \in projects
       THEN \E t \in Suites :
              suites[t] = Unsaved /\ suites' = [suites EXCEPT ![t] = busy[u].project]
       ELSE UNCHANGED suites
  /\ UNCHANGED projects

DeleteSuite(u, t) ==
  /\ busy[u] = Free /\ suites[t] \notin {Unsaved, Gone}
  /\ suites' = [suites EXCEPT ![t] = Gone]
  /\ UNCHANGED <<projects, busy>>

ProjectsNext ==
  \E u \in Users :
    \/ CreateProject(u) \/ DeleteProject(u) \/ SaveSuite(u)
    \/ \E p \in Others \cup {Default} : CountSuites(u, p) \/ FindProject(u, p)
    \/ \E t \in Suites : DeleteSuite(u, t)

ProjectsSpec == ProjectsInit /\ [][ProjectsNext]_workspace

-----------------------------------------------------------------------------
(* Every suite there is has its project, which the pages and the runs it    *)
(* records go by: deleting the one while the other is being saved leaves    *)
(* none behind.                                                             *)
EverySuiteHasItsProject ==
  \A t \in Suites : suites[t] \in projects \cup {Unsaved, Gone}

=============================================================================
