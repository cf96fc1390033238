----------------------------- MODULE MetadataDb -----------------------------
(***************************************************************************)
(* MetadataDatabase.cursor: every repository call is a statement inside    *)
(* "with db.cursor()", which commits on the way out and rolls back when    *)
(* anything raises.  Both act on the whole connection.  The Streamlit      *)
(* server opens one connection for all of its sessions (check_same_thread  *)
(* is off), a scheduler process opens its own: ConnOf says who shares.     *)
(*                                                                         *)
(* A write is an opaque value, the k-th call of its thread; what matters   *)
(* here is which writes are stored and which callers believe theirs is.    *)
(***************************************************************************)
EXTENDS Integers

CONSTANTS
  Threads, Conns,
  ConnOf,      \* the connection each thread uses
  MaxCalls,    \* bound: write calls per thread
  CanRaise,    \* whether a statement may raise (UNIQUE, foreign key)
  CanLock,     \* whether the wait for another connection's lock may time out
  CanCrash     \* whether a process may be killed

ASSUME ConnOfAssumption == ConnOf \in [Threads -> Conns]
ASSUME MaxCallsAssumption == MaxCalls \in Nat
ASSUME SwitchesAssumption ==
  CanRaise \in BOOLEAN /\ CanLock \in BOOLEAN /\ CanCrash \in BOOLEAN

Calls == Threads \X (1..MaxCalls)

VARIABLES
  db,        \* writes in the database file
  pending,   \* writes of each connection's open transaction
  stage,     \* where each thread is
  calls,     \* write calls each thread has begun
  returned,  \* history: calls that returned normally
  raised     \* history: calls that raised

dbVars == <<db, pending, stage, calls, returned, raised>>

Call(t) == <<t, calls[t]>>

DbTypeOK ==
  /\ db \subseteq Calls
  /\ pending \in [Conns -> SUBSET Calls]
  /\ stage \in [Threads -> {"idle", "begun", "wrote", "read", "undo", "undoread",
                            "committed", "dead"}]
  /\ calls \in [Threads -> 0..MaxCalls]
  /\ returned \subseteq Calls
  /\ raised \subseteq Calls

DbInit ==
  /\ db = {}
  /\ pending = [c \in Conns |-> {}]
  /\ stage = [t \in Threads |-> "idle"]
  /\ calls = [t \in Threads |-> 0]
  /\ returned = {}
  /\ raised = {}

Goes(t, at) == stage' = [stage EXCEPT ![t] = at]

(* SQLite lets one connection at a time hold an uncommitted write.          *)
Locked(t) == \E c \in Conns \ {ConnOf[t]} : pending[c] # {}

BeginWrite(t) ==
  /\ stage[t] = "idle"
  /\ calls[t] < MaxCalls
  /\ calls' = [calls EXCEPT ![t] = calls[t] + 1]
  /\ Goes(t, "begun")
  /\ UNCHANGED <<db, pending, returned, raised>>

(* The statement runs; sqlite3 opens a transaction for it if none is open.  *)
Execute(t) ==
  /\ stage[t] = "begun"
  /\ ~Locked(t)
  /\ pending' = [pending EXCEPT ![ConnOf[t]] = pending[ConnOf[t]] \cup {Call(t)}]
  /\ Goes(t, "wrote")
  /\ UNCHANGED <<db, calls, returned, raised>>

(* The statement violates a constraint, or gives up waiting for the lock.   *)
ExecuteRaises(t) ==
  /\ stage[t] = "begun"
  /\ CanRaise \/ (CanLock /\ Locked(t))
  /\ Goes(t, "undo")
  /\ UNCHANGED <<db, pending, calls, returned, raised>>

(* A call that only selects: no transaction, but the same way out.          *)
Select(t) ==
  /\ stage[t] = "idle"
  /\ Goes(t, "read")
  /\ UNCHANGED <<db, pending, calls, returned, raised>>

(* It meets another connection's commit and gives up waiting.               *)
SelectRaises(t) ==
  /\ CanLock /\ Locked(t)
  /\ stage[t] = "read"
  /\ Goes(t, "undoread")
  /\ UNCHANGED <<db, pending, calls, returned, raised>>

StoresPending(t) ==
  /\ db' = db \cup pending[ConnOf[t]]
  /\ pending' = [pending EXCEPT ![ConnOf[t]] = {}]

(* Mutant of Commit: the call returns before the commit has been made.      *)
CommitLater(t) ==
  /\ stage[t] \in {"wrote", "read"}
  /\ Goes(t, IF stage[t] = "wrote" THEN "committed" ELSE "idle")
  /\ UNCHANGED <<db, pending, calls, returned, raised>>

(* connection.commit(): whatever the connection has pending is stored.      *)
Commit(t) ==
  /\ stage[t] \in {"wrote", "read"}
  /\ StoresPending(t)
  /\ Goes(t, IF stage[t] = "wrote" THEN "committed" ELSE "idle")
  /\ UNCHANGED <<calls, returned, raised>>

(* Mutant of CommitRaises: the commit stands after the try, so that nothing  *)
(* rolls back when it raises.                                                *)
CommitRaisesOutside(t) ==
  /\ CanLock
  /\ stage[t] \in {"wrote", "read"}
  /\ pending[ConnOf[t]] # {}
  /\ raised' = IF stage[t] = "wrote" THEN raised \cup {Call(t)} ELSE raised
  /\ Goes(t, "idle")
  /\ UNCHANGED <<db, pending, calls, returned>>

(* Another connection is reading: the commit gives up, the transaction      *)
(* stays open.                                                              *)
CommitRaises(t) ==
  /\ CanLock
  /\ stage[t] \in {"wrote", "read"}
  /\ pending[ConnOf[t]] # {}
  /\ Goes(t, IF stage[t] = "wrote" THEN "undo" ELSE "undoread")
  /\ UNCHANGED <<db, pending, calls, returned, raised>>

(* Mutant of Rollback: the transaction is left open.                        *)
RollbackForgotten(t) ==
  /\ stage[t] \in {"undo", "undoread"}
  /\ raised' = IF stage[t] = "undo" THEN raised \cup {Call(t)} ELSE raised
  /\ Goes(t, "idle")
  /\ UNCHANGED <<db, pending, calls, returned>>

(* connection.rollback(): whatever the connection has pending is dropped,   *)
(* and the exception goes on to the caller.                                 *)
Rollback(t) ==
  /\ stage[t] \in {"undo", "undoread"}
  /\ pending' = [pending EXCEPT ![ConnOf[t]] = {}]
  /\ raised' = IF stage[t] = "undo" THEN raised \cup {Call(t)} ELSE raised
  /\ Goes(t, "idle")
  /\ UNCHANGED <<db, calls, returned>>

Return(t) ==
  /\ stage[t] = "committed"
  /\ returned' = returned \cup {Call(t)}
  /\ Goes(t, "idle")
  /\ UNCHANGED <<db, pending, calls, raised>>

(* The process behind a connection is killed: SQLite drops its transaction. *)
Crash(c) ==
  /\ CanCrash
  /\ pending' = [pending EXCEPT ![c] = {}]
  /\ stage' = [t \in Threads |-> IF ConnOf[t] = c THEN "dead" ELSE stage[t]]
  /\ UNCHANGED <<db, calls, returned, raised>>

DbNext ==
  \/ \E t \in Threads :
       \/ BeginWrite(t) \/ Execute(t) \/ ExecuteRaises(t)
       \/ Select(t) \/ SelectRaises(t)
       \/ Commit(t) \/ CommitRaises(t) \/ Rollback(t) \/ Return(t)
  \/ \E c \in Conns : Crash(c)

DbSpec == DbInit /\ [][DbNext]_dbVars

-----------------------------------------------------------------------------
(* A repository call that returned has stored its write, for good.          *)
ReturnedIsStored == returned \subseteq db

(* A repository call that raised has stored nothing.                        *)
RaisedLeavesNoTrace == raised \cap db = {}

(* A connection keeps a write, and with it the lock every other connection  *)
(* waits for, only while the call that made it is on its way out: a cursor  *)
(* left through a return or through any exception, its own commit's too,    *)
(* leaves no transaction open for somebody else to store, drop or wait for. *)
NoLockLeftBehind ==
  \A c \in Conns : \A w \in pending[c] :
    /\ ConnOf[w[1]] = c
    /\ stage[w[1]] \in {"wrote", "undo"}
    /\ Call(w[1]) = w

(* With a connection of its own for every thread, the database is the store *)
(* of atomic calls its callers take it for.                                 *)
OutcomeOf(c) ==
  IF c \in returned THEN "returned"
  ELSE IF c \in db THEN "stored"
  ELSE IF c \in raised THEN "raised"
  ELSE "none"

Store == INSTANCE AtomicStore WITH outcome <- [c \in Calls |-> OutcomeOf(c)]

ActsAtomically == Store!Spec

==============================================================================
