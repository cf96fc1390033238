-------------------------- MODULE MetadataDb_proofs --------------------------
(***************************************************************************)
(* What MetadataDatabase guarantees for any number of threads and calls:   *)
(* everything its callers assume when no two threads share a connection,   *)
(* and that returned calls are stored, even on a shared connection, as     *)
(* long as nothing raises.                                                 *)
(***************************************************************************)
EXTENDS MetadataDb, TLAPS

(* A thread in a write call has begun one.                                  *)
Begun == \A t \in Threads :
  stage[t] \in {"begun", "wrote", "undo", "committed"} => calls[t] \in 1..MaxCalls

TypeInv == DbTypeOK /\ Begun

LEMMA CallTyped ==
  \A t \in Threads : calls[t] \in 1..MaxCalls => Call(t) \in Calls
BY DEF Call, Calls

LEMMA NextTypeInv == TypeInv /\ [DbNext]_dbVars => TypeInv'
<1> SUFFICES ASSUME TypeInv, [DbNext]_dbVars PROVE TypeInv'
  OBVIOUS
<1> USE ConnOfAssumption, MaxCallsAssumption, CallTyped DEF TypeInv, DbTypeOK, Begun
<1>1. ASSUME NEW t \in Threads, BeginWrite(t) PROVE TypeInv'
  BY <1>1 DEF BeginWrite, Goes
<1>2. ASSUME NEW t \in Threads, Execute(t) PROVE TypeInv'
  BY <1>2 DEF Execute, Goes
<1>3. ASSUME NEW t \in Threads,
             ExecuteRaises(t) \/ Select(t) \/ SelectRaises(t) \/ CommitRaises(t)
      PROVE  TypeInv'
  BY <1>3 DEF ExecuteRaises, Select, SelectRaises, CommitRaises, Goes
<1>4. ASSUME NEW t \in Threads, Commit(t) PROVE TypeInv'
  BY <1>4 DEF Commit, StoresPending, Goes
<1>5. ASSUME NEW t \in Threads, Rollback(t) PROVE TypeInv'
  BY <1>5 DEF Rollback, Goes
<1>6. ASSUME NEW t \in Threads, Return(t) PROVE TypeInv'
  BY <1>6 DEF Return, Goes
<1>7. ASSUME NEW c \in Conns, Crash(c) PROVE TypeInv'
  BY <1>7 DEF Crash
<1>8. CASE UNCHANGED dbVars
  BY <1>8 DEF dbVars
<1> QED BY <1>1, <1>2, <1>3, <1>4, <1>5, <1>6, <1>7, <1>8 DEF DbNext

LEMMA AlwaysTypeInv == DbSpec => []TypeInv
<1>1. DbInit => TypeInv
  BY MaxCallsAssumption DEF DbInit, TypeInv, DbTypeOK, Begun
<1> QED BY <1>1, NextTypeInv, PTL DEF DbSpec

(* Every variable keeps its type, for any sharing of connections.           *)
THEOREM TypeCorrect == DbSpec => []DbTypeOK
<1>1. TypeInv => DbTypeOK
  BY DEF TypeInv
<1> QED BY <1>1, AlwaysTypeInv, PTL

-----------------------------------------------------------------------------
(* Whatever raises, whoever shares a connection and whoever is killed, a    *)
(* transaction stays open only for calls still on their way out, so nobody  *)
(* waits for the lock of a call that has ended.                             *)
THEOREM NoLockIsLeftBehind == DbSpec => []NoLockLeftBehind
<1>1. DbInit => NoLockLeftBehind
  BY DEF DbInit, NoLockLeftBehind
<1>2. TypeInv /\ NoLockLeftBehind /\ [DbNext]_dbVars => NoLockLeftBehind'
  <2> SUFFICES ASSUME TypeInv, NoLockLeftBehind, [DbNext]_dbVars,
                      NEW c \in Conns, NEW w \in pending'[c]
               PROVE  /\ ConnOf[w[1]] = c
                      /\ stage'[w[1]] \in {"wrote", "undo"}
                      /\ <<w[1], calls'[w[1]]>> = w
    BY DEF NoLockLeftBehind, Call
  <2> USE ConnOfAssumption, CallTyped
      DEF TypeInv, DbTypeOK, Begun, NoLockLeftBehind, Call, Calls
  <2>1. ASSUME NEW t \in Threads, Execute(t)
        PROVE  /\ ConnOf[w[1]] = c /\ stage'[w[1]] \in {"wrote", "undo"}
               /\ <<w[1], calls'[w[1]]>> = w
    <3>1. CASE w \in pending[c]
      BY <2>1, <3>1 DEF Execute, Goes
    <3>2. CASE w \notin pending[c]
      <4>1. w = <<t, calls[t]>> /\ c = ConnOf[t]
        BY <2>1, <3>2 DEF Execute
      <4> QED BY <2>1, <4>1 DEF Execute, Goes
    <3> QED BY <3>1, <3>2
  <2>2. ASSUME NEW t \in Threads, Commit(t) \/ Rollback(t)
        PROVE  /\ ConnOf[w[1]] = c /\ stage'[w[1]] \in {"wrote", "undo"}
               /\ <<w[1], calls'[w[1]]>> = w
    <3>1. w \in pending[c] /\ c # ConnOf[t]
      BY <2>2 DEF Commit, Rollback, StoresPending
    <3>2. w[1] # t /\ calls' = calls /\ stage'[w[1]] = stage[w[1]]
      BY <2>2, <3>1 DEF Commit, Rollback, Goes
    <3> QED BY <3>1, <3>2
  <2>3. ASSUME NEW t \in Threads,
               \/ BeginWrite(t) \/ ExecuteRaises(t) \/ Select(t) \/ SelectRaises(t)
               \/ CommitRaises(t) \/ Return(t)
        PROVE  /\ ConnOf[w[1]] = c /\ stage'[w[1]] \in {"wrote", "undo"}
               /\ <<w[1], calls'[w[1]]>> = w
    <3>1. w \in pending[c]
      BY <2>3 DEF BeginWrite, ExecuteRaises, Select, SelectRaises, CommitRaises, Return
    <3> QED BY <2>3, <3>1
         DEF BeginWrite, ExecuteRaises, Select, SelectRaises, CommitRaises, Return, Goes
  <2>4. ASSUME NEW d \in Conns, Crash(d)
        PROVE  /\ ConnOf[w[1]] = c /\ stage'[w[1]] \in {"wrote", "undo"}
               /\ <<w[1], calls'[w[1]]>> = w
    <3>1. w \in pending[c] /\ c # d
      BY <2>4 DEF Crash
    <3> QED BY <2>4, <3>1 DEF Crash
  <2>5. CASE UNCHANGED dbVars
    BY <2>5 DEF dbVars
  <2> QED BY <2>1, <2>2, <2>3, <2>4, <2>5 DEF DbNext
<1> QED BY <1>1, <1>2, AlwaysTypeInv, PTL DEF DbSpec

-----------------------------------------------------------------------------
(* Nothing raises.                                                          *)

(* Nobody rolls back; a write made is pending or stored.                    *)
QuietInv == \A t \in Threads :
  /\ stage[t] \notin {"undo", "undoread"}
  /\ stage[t] = "wrote" => Call(t) \in db \cup pending[ConnOf[t]]
  /\ stage[t] = "committed" => Call(t) \in db

LEMMA NextQuiet ==
  ASSUME ~CanRaise, ~CanLock
  PROVE  TypeInv /\ QuietInv /\ ReturnedIsStored /\ [DbNext]_dbVars
           => QuietInv' /\ ReturnedIsStored'
<1> SUFFICES ASSUME TypeInv, QuietInv, ReturnedIsStored, [DbNext]_dbVars
             PROVE  QuietInv' /\ ReturnedIsStored'
  OBVIOUS
<1> USE ConnOfAssumption DEF TypeInv, DbTypeOK, QuietInv, ReturnedIsStored, Call
<1>1. ASSUME NEW t \in Threads, BeginWrite(t)
      PROVE  QuietInv' /\ ReturnedIsStored'
  BY <1>1 DEF BeginWrite, Goes
<1>2. ASSUME NEW t \in Threads, Execute(t)
      PROVE  QuietInv' /\ ReturnedIsStored'
  BY <1>2 DEF Execute, Goes
<1>3. ASSUME NEW t \in Threads,
             \/ ExecuteRaises(t) \/ Select(t) \/ SelectRaises(t)
             \/ CommitRaises(t) \/ Rollback(t)
      PROVE  QuietInv' /\ ReturnedIsStored'
  BY <1>3 DEF ExecuteRaises, Select, SelectRaises, CommitRaises, Rollback, Goes
<1>4. ASSUME NEW t \in Threads, Commit(t)
      PROVE  QuietInv' /\ ReturnedIsStored'
  BY <1>4 DEF Commit, StoresPending, Goes
<1>5. ASSUME NEW t \in Threads, Return(t)
      PROVE  QuietInv' /\ ReturnedIsStored'
  BY <1>5 DEF Return, Goes
<1>6. ASSUME NEW c \in Conns, Crash(c)
      PROVE  QuietInv' /\ ReturnedIsStored'
  BY <1>6 DEF Crash
<1>7. CASE UNCHANGED dbVars
  BY <1>7 DEF dbVars
<1> QED BY <1>1, <1>2, <1>3, <1>4, <1>5, <1>6, <1>7 DEF DbNext

(* While no statement and no commit raises, a call that returned is stored, *)
(* whoever shares a connection with it and whenever the process ends.       *)
THEOREM QuietCallsAreStored ==
  ASSUME ~CanRaise, ~CanLock
  PROVE  DbSpec => []ReturnedIsStored
<1>1. DbInit => QuietInv /\ ReturnedIsStored
  BY DEF DbInit, QuietInv, ReturnedIsStored
<1> QED BY <1>1, NextQuiet, AlwaysTypeInv, PTL DEF DbSpec

-----------------------------------------------------------------------------
(* A connection for every thread.                                           *)

Private == \A t, u \in Threads : ConnOf[t] = ConnOf[u] => t = u

(* A connection has nothing pending but the write its thread is making;     *)
(* that write, and those the thread has not begun, are nowhere else.        *)
Alone ==
  \A t \in Threads :
    /\ stage[t] = "wrote" => pending[ConnOf[t]] = {Call(t)}
    /\ stage[t] = "undo" => pending[ConnOf[t]] \subseteq {Call(t)}
    /\ stage[t] \notin {"wrote", "undo"} => pending[ConnOf[t]] = {}

Fresh ==
  \A t \in Threads :
    /\ stage[t] \in {"begun", "wrote", "undo"}
         => Call(t) \notin db \cup returned \cup raised
    /\ stage[t] = "committed" => Call(t) \in db /\ Call(t) \notin returned \cup raised
    /\ \A k \in 1..MaxCalls :
         k > calls[t] => <<t, k>> \notin db \cup returned \cup raised

PrivateInv == Alone /\ Fresh /\ ReturnedIsStored /\ RaisedLeavesNoTrace

LEMMA NextPrivate ==
  ASSUME Private
  PROVE  TypeInv /\ PrivateInv /\ [DbNext]_dbVars => PrivateInv'
<1> SUFFICES ASSUME TypeInv, PrivateInv, [DbNext]_dbVars PROVE PrivateInv'
  OBVIOUS
<1> USE ConnOfAssumption, MaxCallsAssumption
    DEF TypeInv, DbTypeOK, Begun, PrivateInv, ReturnedIsStored,
        RaisedLeavesNoTrace, Call, Private
<1>1. ASSUME NEW t \in Threads, BeginWrite(t) PROVE PrivateInv'
  <2>1. /\ UNCHANGED <<db, pending, returned, raised>>
        /\ calls[t] \in Nat /\ calls'[t] = calls[t] + 1 /\ calls'[t] \in 1..MaxCalls
        /\ stage[t] = "idle" /\ stage'[t] = "begun"
        /\ \A u \in Threads \ {t} : stage'[u] = stage[u] /\ calls'[u] = calls[u]
    BY <1>1 DEF BeginWrite, Goes
  <2>2. Alone'
    BY <2>1 DEF Alone
  <2>3. ASSUME NEW u \in Threads
        PROVE  /\ stage'[u] \in {"begun", "wrote", "undo"}
                    => <<u, calls'[u]>> \notin db \cup returned \cup raised
               /\ stage'[u] = "committed"
                    => /\ <<u, calls'[u]>> \in db
                       /\ <<u, calls'[u]>> \notin returned \cup raised
               /\ \A k \in 1..MaxCalls :
                    k > calls'[u] => <<u, k>> \notin db \cup returned \cup raised
    <3>1. CASE u # t
      BY <2>1, <3>1 DEF Fresh
    <3>2. CASE u = t
      <4>1. \A k \in 1..MaxCalls : k > calls[t] =>
              <<t, k>> \notin db \cup returned \cup raised
        BY DEF Fresh
      <4>2. calls'[t] > calls[t] /\ \A k \in 1..MaxCalls : k > calls'[t] => k > calls[t]
        BY <2>1
      <4> QED BY <2>1, <3>2, <4>1, <4>2
    <3> QED BY <3>1, <3>2
  <2>4. Fresh'
    BY <2>1, <2>3 DEF Fresh
  <2> QED BY <2>1, <2>2, <2>4
<1>2. ASSUME NEW t \in Threads, Execute(t) PROVE PrivateInv'
  <2>0. /\ \A u \in Threads \ {t} : stage'[u] = stage[u] /\ ConnOf[u] # ConnOf[t]
        /\ stage'[t] = "wrote" /\ UNCHANGED calls
        /\ pending' = [pending EXCEPT ![ConnOf[t]] = {Call(t)}]
    <3>1. pending[ConnOf[t]] = {}
      BY <1>2 DEF Execute, Alone
    <3> QED BY <1>2, <3>1 DEF Execute, Goes
  <2>1. Alone'
    BY <2>0 DEF Alone
  <2>2. Fresh'
    BY <1>2 DEF Execute, Goes, Fresh
  <2> QED BY <1>2, <2>1, <2>2 DEF Execute
<1>3. ASSUME NEW t \in Threads,
             ExecuteRaises(t) \/ Select(t) \/ SelectRaises(t) \/ CommitRaises(t)
      PROVE  PrivateInv'
  <2>1. /\ UNCHANGED <<db, pending, calls, returned, raised>>
        /\ \A u \in Threads \ {t} : stage'[u] = stage[u]
        /\ \/ stage[t] = "begun" /\ stage'[t] = "undo"
           \/ stage[t] = "idle" /\ stage'[t] = "read"
           \/ stage[t] = "read" /\ stage'[t] = "undoread"
           \/ stage[t] = "wrote" /\ stage'[t] = "undo"
    BY <1>3 DEF ExecuteRaises, Select, SelectRaises, CommitRaises, Goes, Alone
  <2>2. Alone'
    BY <2>1 DEF Alone
  <2>3. Fresh'
    BY <2>1 DEF Fresh
  <2> QED BY <2>1, <2>2, <2>3
<1>4. ASSUME NEW t \in Threads, Commit(t) PROVE PrivateInv'
  <2>1. /\ UNCHANGED <<calls, returned, raised>>
        /\ \A u \in Threads \ {t} : stage'[u] = stage[u]
        /\ pending' = [pending EXCEPT ![ConnOf[t]] = {}]
        /\ \/ stage[t] = "wrote" /\ stage'[t] = "committed" /\ db' = db \cup {Call(t)}
           \/ stage[t] = "read" /\ stage'[t] = "idle" /\ db' = db
    BY <1>4 DEF Commit, StoresPending, Goes, Alone
  <2>2. Alone'
    BY <2>1 DEF Alone
  <2>3. Fresh'
    BY <2>1 DEF Fresh
  <2>4. stage[t] = "wrote" => Call(t) \notin raised
    BY DEF Fresh
  <2> QED BY <2>1, <2>2, <2>3, <2>4
<1>5. ASSUME NEW t \in Threads, Rollback(t) PROVE PrivateInv'
  <2>1. /\ UNCHANGED <<db, calls, returned>>
        /\ \A u \in Threads \ {t} : stage'[u] = stage[u]
        /\ pending' = [pending EXCEPT ![ConnOf[t]] = {}]
        /\ stage'[t] = "idle"
        /\ \/ stage[t] = "undo" /\ raised' = raised \cup {Call(t)}
           \/ stage[t] = "undoread" /\ raised' = raised
    BY <1>5 DEF Rollback, Goes
  <2>2. Alone'
    BY <2>1 DEF Alone
  <2>3. Fresh'
    BY <2>1 DEF Fresh
  <2>4. stage[t] = "undo" => Call(t) \notin db
    BY DEF Fresh
  <2> QED BY <2>1, <2>2, <2>3, <2>4
<1>6. ASSUME NEW t \in Threads, Return(t) PROVE PrivateInv'
  <2>1. Alone'
    BY <1>6 DEF Return, Goes, Alone
  <2>2. Fresh'
    BY <1>6 DEF Return, Goes, Fresh
  <2> QED BY <1>6, <2>1, <2>2 DEF Return, Fresh
<1>7. ASSUME NEW c \in Conns, Crash(c) PROVE PrivateInv'
  BY <1>7 DEF Crash, Alone, Fresh
<1>8. CASE UNCHANGED dbVars
  BY <1>8 DEF dbVars, Alone, Fresh
<1> QED BY <1>1, <1>2, <1>3, <1>4, <1>5, <1>6, <1>7, <1>8 DEF DbNext

LEMMA AlwaysPrivate ==
  ASSUME Private
  PROVE  DbSpec => []PrivateInv
<1>1. DbInit => PrivateInv
  BY ConnOfAssumption DEF DbInit, PrivateInv, Alone, Fresh, ReturnedIsStored,
     RaisedLeavesNoTrace
<1> QED BY <1>1, NextPrivate, AlwaysTypeInv, PTL DEF DbSpec

(* A call that raised has stored nothing when no connection is shared.      *)
THEOREM PrivateFailuresLeaveNoTrace ==
  ASSUME Private
  PROVE  DbSpec => []RaisedLeavesNoTrace
<1>1. PrivateInv => RaisedLeavesNoTrace
  BY DEF PrivateInv
<1> QED BY <1>1, AlwaysPrivate, PTL

LEMMA StepIsAtomic ==
  ASSUME Private
  PROVE  TypeInv /\ PrivateInv /\ PrivateInv' /\ [DbNext]_dbVars
           => [Store!Next]_(Store!vars)
<1> SUFFICES ASSUME TypeInv, PrivateInv, PrivateInv', [DbNext]_dbVars
             PROVE  [Store!Next]_(Store!vars)
  OBVIOUS
<1> DEFINE out == [c \in Calls |-> OutcomeOf(c)]
<1>1. ASSUME UNCHANGED <<db, returned, raised>>
      PROVE  UNCHANGED Store!vars
  BY <1>1 DEF OutcomeOf, Store!vars
<1>2. ASSUME NEW t \in Threads, Commit(t) PROVE [Store!Next]_(Store!vars)
  <2>1. CASE stage[t] = "read"
    <3>1. UNCHANGED <<db, returned, raised>>
      BY <1>2, <2>1 DEF Commit, StoresPending, PrivateInv, Alone
    <3> QED BY <1>1, <3>1
  <2>2. CASE stage[t] = "wrote"
    <3>1. /\ db' = db \cup {Call(t)} /\ UNCHANGED <<returned, raised>>
          /\ Call(t) \in Calls /\ Call(t) \notin db \cup returned \cup raised
      BY <1>2, <2>2, CallTyped
         DEF Commit, StoresPending, PrivateInv, Alone, Fresh, TypeInv, Begun
    <3>2. out' = [out EXCEPT ![Call(t)] = "stored"] /\ out[Call(t)] = "none"
      BY <3>1 DEF OutcomeOf
    <3>3. Store!Store(Call(t))
      BY <3>1, <3>2 DEF Store!Store
    <3> QED BY <3>1, <3>3 DEF Store!Next
  <2> QED BY <1>2, <2>1, <2>2 DEF Commit
<1>3. ASSUME NEW t \in Threads, Rollback(t) PROVE [Store!Next]_(Store!vars)
  <2>1. CASE stage[t] = "undoread"
    <3>1. UNCHANGED <<db, returned, raised>>
      BY <1>3, <2>1 DEF Rollback
    <3> QED BY <1>1, <3>1
  <2>2. CASE stage[t] = "undo"
    <3>1. /\ raised' = raised \cup {Call(t)} /\ UNCHANGED <<db, returned>>
          /\ Call(t) \in Calls /\ Call(t) \notin db \cup returned \cup raised
      BY <1>3, <2>2, CallTyped DEF Rollback, PrivateInv, Fresh, TypeInv, Begun
    <3>2. out' = [out EXCEPT ![Call(t)] = "raised"] /\ out[Call(t)] = "none"
      BY <3>1 DEF OutcomeOf
    <3>3. Store!Raise(Call(t))
      BY <3>1, <3>2 DEF Store!Raise
    <3> QED BY <3>1, <3>3 DEF Store!Next
  <2> QED BY <1>3, <2>1, <2>2 DEF Rollback
<1>4. ASSUME NEW t \in Threads, Return(t) PROVE [Store!Next]_(Store!vars)
  <2>1. /\ returned' = returned \cup {Call(t)} /\ UNCHANGED <<db, raised>>
        /\ Call(t) \in Calls /\ Call(t) \in db /\ Call(t) \notin returned
    BY <1>4, CallTyped DEF Return, PrivateInv, Fresh, TypeInv, Begun
  <2>2. out' = [out EXCEPT ![Call(t)] = "returned"] /\ out[Call(t)] = "stored"
    BY <2>1 DEF OutcomeOf
  <2>3. Store!Return(Call(t))
    BY <2>1, <2>2 DEF Store!Return
  <2> QED BY <2>1, <2>3 DEF Store!Next
<1>5. ASSUME NEW t \in Threads,
             \/ BeginWrite(t) \/ Execute(t) \/ ExecuteRaises(t) \/ Select(t)
             \/ SelectRaises(t) \/ CommitRaises(t)
      PROVE  [Store!Next]_(Store!vars)
  BY <1>1, <1>5 DEF BeginWrite, Execute, ExecuteRaises, Select, SelectRaises,
     CommitRaises
<1>6. ASSUME NEW c \in Conns, Crash(c) PROVE [Store!Next]_(Store!vars)
  BY <1>1, <1>6 DEF Crash
<1>7. CASE UNCHANGED dbVars
  BY <1>1, <1>7 DEF dbVars
<1> QED BY <1>2, <1>3, <1>4, <1>5, <1>6, <1>7 DEF DbNext

(* When no connection is shared, the database and its callers, statements,  *)
(* commits, rollbacks and all, implement a store of atomic calls.           *)
THEOREM PrivateActsAtomically ==
  ASSUME Private
  PROVE  DbSpec => ActsAtomically
<1>1. DbInit => Store!Init
  BY DEF DbInit, Store!Init, OutcomeOf
<1> QED BY <1>1, StepIsAtomic, AlwaysPrivate, AlwaysTypeInv, PTL
        DEF DbSpec, ActsAtomically, Store!Spec

==============================================================================
