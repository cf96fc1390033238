----------------------------- MODULE AtomicStore -----------------------------
(***************************************************************************)
(* What a repository promises its callers: a call that returns has stored  *)
(* its write, a call that raises has stored nothing, and nothing stored is *)
(* lost.  A call interrupted by the end of its process may have stored its *)
(* write or not, but nobody is told either.                                *)
(***************************************************************************)
CONSTANT Calls

VARIABLES
  db,       \* the calls whose write is stored
  outcome   \* what became of each call

vars == <<db, outcome>>

Outcome == {"none", "stored", "returned", "raised"}

Init ==
  /\ db = {}
  /\ outcome = [c \in Calls |-> "none"]

Store(c) ==
  /\ outcome[c] = "none"
  /\ db' = db \cup {c}
  /\ outcome' = [outcome EXCEPT ![c] = "stored"]

Return(c) ==
  /\ outcome[c] = "stored"
  /\ outcome' = [outcome EXCEPT ![c] = "returned"]
  /\ UNCHANGED db

Raise(c) ==
  /\ outcome[c] = "none"
  /\ outcome' = [outcome EXCEPT ![c] = "raised"]
  /\ UNCHANGED db

Next == \E c \in Calls : Store(c) \/ Return(c) \/ Raise(c)

Spec == Init /\ [][Next]_vars

==============================================================================
