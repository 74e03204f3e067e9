-------------------------- MODULE ConnPool_proofs --------------------------
(***************************************************************************)
(* Proofs about ConnPool: the accounting of connections, the ownership of  *)
(* row locks, and the absence of a gridlock in a pool of sufficient size.  *)
(***************************************************************************)
EXTENDS ConnPool, FiniteSetTheorems, TLAPS

\* Inside the body of a loop something is left to handle.
LoopCounters ==
  \A c \in Calls :
    /\ pc[c] \in {"diLookup", "diLookupQ", "diRelation", "diRelationQ",
                  "diRows", "dmRows", "amService", "amServiceQ", "amInsert",
                  "amInsertQ", "amGet", "amGetQ"} => services[c] > 0
    /\ pc[c] \in {"diRelation", "diRelationQ", "amCheck", "amCheckQ",
                  "amCreate"} => events[c] > 0

\* TypeOK with a counter of connections that is not bounded yet: its bounds
\* follow from the accounting below and from the guard of Acquire above.
Typing ==
  /\ pc \in [Calls -> Places]
  /\ obj \in [Calls -> Objects]
  /\ services \in [Calls -> Nat]
  /\ events \in [Calls -> Nat]
  /\ inUse \in Int
  /\ inUse <= MaxOpen
  /\ lock \in [Objects -> Calls \cup {Nobody, Orphan}]
  /\ leaked \in 0..MaxLeaks

\* The inductive invariant.
IInv == Typing /\ LoopCounters /\ PoolAccounting /\ LockOwnership

-----------------------------------------------------------------------------
(* How a move of one call changes the number of calls in a set of places. *)

One(p, S) == IF p \in S THEN 1 ELSE 0

\* When one call moves from f[c] to p, the number of calls in S loses one if
\* it left S and gains one if it entered S.
LEMMA MoveCount ==
  ASSUME NEW f \in [Calls -> Places], NEW c \in Calls, NEW p \in Places, NEW S,
         NEW g, g = [f EXCEPT ![c] = p]
  PROVE  /\ Cardinality({d \in Calls : f[d] \in S}) \in Nat
         /\ Cardinality({d \in Calls : g[d] \in S})
              = Cardinality({d \in Calls : f[d] \in S}) - One(f[c], S) + One(p, S)
<1> DEFINE F == {d \in Calls : f[d] \in S}
           G == {d \in Calls : g[d] \in S}
<1>1. IsFiniteSet(F) /\ Cardinality(F) \in Nat
  <2>1. F \in SUBSET Calls
    OBVIOUS
  <2> QED
    BY <2>1, PoolAssumption, FS_Subset, FS_CardinalityType
<1>2. CASE p \in S
  <2>1. G = F \cup {c}
    BY <1>2
  <2>2. c \in F <=> f[c] \in S
    OBVIOUS
  <2>3. Cardinality(G) = IF c \in F THEN Cardinality(F) ELSE Cardinality(F) + 1
    BY <1>1, <2>1, FS_AddElement
  <2> QED
    BY <1>1, <1>2, <2>2, <2>3 DEF One
<1>3. CASE p \notin S
  <2>1. G = F \ {c}
    BY <1>3
  <2>2. c \in F <=> f[c] \in S
    OBVIOUS
  <2>3. Cardinality(G) = IF c \in F THEN Cardinality(F) - 1 ELSE Cardinality(F)
    BY <1>1, <2>1, FS_RemoveElement
  <2> QED
    BY <1>1, <1>3, <2>2, <2>3 DEF One
<1> QED
  BY <1>2, <1>3

\* The accounting is kept by a move that changes the counters by as much as it
\* changes the membership of the two kinds of places.
LEMMA AccountingMove ==
  ASSUME Typing, PoolAccounting, NEW c \in Calls,
         pc'[c] \in Places, pc' = [pc EXCEPT ![c] = pc'[c]], leaked' \in Int,
         inUse' = inUse - One(pc[c], InTx) + One(pc'[c], InTx)
                        - One(pc[c], InStmt) + One(pc'[c], InStmt)
                        + (leaked' - leaked)
  PROVE  PoolAccounting'
<1> DEFINE p == pc'[c]
<1>0. p \in Places /\ pc \in [Calls -> Places] /\ pc' = [pc EXCEPT ![c] = p]
  BY DEF Typing
<1> HIDE DEF p
<1>1. /\ Cardinality(TxCalls) \in Nat
      /\ Cardinality(TxCalls') = Cardinality(TxCalls) - One(pc[c], InTx) + One(p, InTx)
  <2>1. /\ Cardinality({d \in Calls : pc[d] \in InTx}) \in Nat
        /\ Cardinality({d \in Calls : pc'[d] \in InTx})
             = Cardinality({d \in Calls : pc[d] \in InTx}) - One(pc[c], InTx) + One(p, InTx)
    BY <1>0, MoveCount
  <2> QED
    BY <2>1 DEF TxCalls
<1>2. /\ Cardinality(StmtCalls) \in Nat
      /\ Cardinality(StmtCalls') = Cardinality(StmtCalls) - One(pc[c], InStmt) + One(p, InStmt)
  <2>1. /\ Cardinality({d \in Calls : pc[d] \in InStmt}) \in Nat
        /\ Cardinality({d \in Calls : pc'[d] \in InStmt})
             = Cardinality({d \in Calls : pc[d] \in InStmt}) - One(pc[c], InStmt) + One(p, InStmt)
    BY <1>0, MoveCount
  <2> QED
    BY <2>1 DEF StmtCalls
<1> QED
  BY <1>1, <1>2 DEF PoolAccounting, One, Typing, p

-----------------------------------------------------------------------------
(* Every step keeps the accounting. *)

LEMMA InitInv == Init => IInv
<1> SUFFICES ASSUME Init PROVE IInv
  OBVIOUS
<1>1. TxCalls = {} /\ StmtCalls = {}
  BY DEF Init, TxCalls, StmtCalls, InTx, InStmt, WantSecond
<1>2. PoolAccounting
  BY <1>1, FS_EmptySet DEF PoolAccounting, Init
<1>3. Typing
  BY PoolAssumption DEF Init, Typing, Places
<1>4. LoopCounters
  BY DEF Init, LoopCounters
<1>5. LockOwnership
  BY PoolAssumption DEF Init, LockOwnership
<1> QED
  BY <1>2, <1>3, <1>4, <1>5 DEF IInv

-----------------------------------------------------------------------------
(* The steps. *)

\* Every step keeps the types.
LEMMA TypingStep ==
  ASSUME Typing, LoopCounters, [Next]_vars
  PROVE  Typing'
<1> USE PoolAssumption DEF Typing, LoopCounters, Places, WantTx, WantSecond, WantOne, InTx, InStmt
<1>1. ASSUME NEW c \in Calls, NEW o \in Objects, Start(c, o) PROVE Typing'
  BY <1>1 DEF Start, Goto
<1>2. ASSUME NEW c \in Calls, Acquire(c) PROVE Typing'
  BY <1>2 DEF Acquire, Goto, Granted
<1>3. ASSUME NEW c \in Calls, FindServices(c) PROVE Typing'
  BY <1>3 DEF FindServices, Goto, Rollback, EndTx, Unlock, InstanceLoop
<1>4. ASSUME NEW c \in Calls, LookupEvents(c) PROVE Typing'
  BY <1>4 DEF LookupEvents, Goto, EndStmt
<1>5. ASSUME NEW c \in Calls, DeleteRelation(c) PROVE Typing'
  BY <1>5 DEF DeleteRelation, Goto, EndStmt
<1>6. ASSUME NEW c \in Calls, DeleteRows(c) PROVE Typing'
  BY <1>6 DEF DeleteRows, Goto, Rollback, EndTx, Unlock, InstanceLoop
<1>7. ASSUME NEW c \in Calls, DeleteParents(c) PROVE Typing'
  BY <1>7 DEF DeleteParents, Goto, Rollback, EndTx, Unlock
<1>8. ASSUME NEW c \in Calls, DeleteAlerts(c) PROVE Typing'
  BY <1>8 DEF DeleteAlerts, Goto, Unlock
<1>9. ASSUME NEW c \in Calls, CommitInstance(c) PROVE Typing'
  BY <1>9 DEF CommitInstance, Goto, EndTx, Unlock
<1>10. ASSUME NEW c \in Calls, FindServiceModels(c) PROVE Typing'
  BY <1>10 DEF FindServiceModels, Goto, EndStmt, Unlock, ModelLoop
<1>11. ASSUME NEW c \in Calls, DeleteModelRows(c) PROVE Typing'
  BY <1>11 DEF DeleteModelRows, Goto, Rollback, EndTx, Unlock, ModelLoop
<1>12. ASSUME NEW c \in Calls, DeleteModelParents(c) PROVE Typing'
  BY <1>12 DEF DeleteModelParents, Goto, Rollback, EndTx, Unlock
<1>13. ASSUME NEW c \in Calls, CommitModel(c) PROVE Typing'
  BY <1>13 DEF CommitModel, Goto, EndTx, Unlock
<1>14. ASSUME NEW c \in Calls, CheckModelName(c) PROVE Typing'
  BY <1>14 DEF CheckModelName, Goto, EndStmt
<1>15. ASSUME NEW c \in Calls, CreateModel(c) PROVE Typing'
  BY <1>15 DEF CreateModel, Goto, EndStmt
<1>16. ASSUME NEW c \in Calls, ReadModel(c) PROVE Typing'
  BY <1>16 DEF ReadModel, Goto, EndStmt, AddLoop
<1>17. ASSUME NEW c \in Calls, CheckServiceName(c) PROVE Typing'
  BY <1>17 DEF CheckServiceName, Goto, EndStmt
<1>18. ASSUME NEW c \in Calls, CreateService(c) PROVE Typing'
  BY <1>18 DEF CreateService, Goto, EndStmt
<1>19. ASSUME NEW c \in Calls, ReadService(c) PROVE Typing'
  BY <1>19 DEF ReadService, Goto, EndStmt
<1>20. ASSUME NEW c \in Calls, NextName(c) PROVE Typing'
  BY <1>20 DEF NextName, Goto, EndTx, AddLoop, Unlock
<1>21. ASSUME NEW c \in Calls, CheckName(c) PROVE Typing'
  BY <1>21 DEF CheckName, Goto, EndStmt
<1>22. ASSUME NEW c \in Calls, CreateRow(c) PROVE Typing'
  BY <1>22 DEF CreateRow, Goto, Rollback, EndTx, Unlock
<1>23. ASSUME NEW c \in Calls, Read(c) PROVE Typing'
  BY <1>23 DEF Read, Goto, EndStmt
<1>24. ASSUME NEW c \in Calls, Write(c) PROVE Typing'
  BY <1>24 DEF Write, Goto, EndStmt
<1>25. ASSUME UNCHANGED vars PROVE Typing'
  BY <1>25 DEF vars
<1> QED
  BY <1>1, <1>2, <1>3, <1>4, <1>5, <1>6, <1>7, <1>8, <1>9, <1>10, <1>11, <1>12, <1>13, <1>14, <1>15, <1>16, <1>17, <1>18, <1>19, <1>20, <1>21, <1>22, <1>23, <1>24, <1>25 DEF Next, Step

\* Every step into a loop body leaves something to handle there.
LEMMA CountersStep ==
  ASSUME Typing, LoopCounters, [Next]_vars
  PROVE  LoopCounters'
<1> USE PoolAssumption DEF Typing, LoopCounters, Places, WantTx, WantSecond, WantOne, InTx, InStmt
<1>1. ASSUME NEW c \in Calls, NEW o \in Objects, Start(c, o) PROVE LoopCounters'
  BY <1>1 DEF Start, Goto
<1>2. ASSUME NEW c \in Calls, Acquire(c) PROVE LoopCounters'
  BY <1>2 DEF Acquire, Goto, Granted
<1>3. ASSUME NEW c \in Calls, FindServices(c) PROVE LoopCounters'
  BY <1>3 DEF FindServices, Goto, Rollback, EndTx, Unlock, InstanceLoop
<1>4. ASSUME NEW c \in Calls, LookupEvents(c) PROVE LoopCounters'
  BY <1>4 DEF LookupEvents, Goto, EndStmt
<1>5. ASSUME NEW c \in Calls, DeleteRelation(c) PROVE LoopCounters'
  BY <1>5 DEF DeleteRelation, Goto, EndStmt
<1>6. ASSUME NEW c \in Calls, DeleteRows(c) PROVE LoopCounters'
  BY <1>6 DEF DeleteRows, Goto, Rollback, EndTx, Unlock, InstanceLoop
<1>7. ASSUME NEW c \in Calls, DeleteParents(c) PROVE LoopCounters'
  BY <1>7 DEF DeleteParents, Goto, Rollback, EndTx, Unlock
<1>8. ASSUME NEW c \in Calls, DeleteAlerts(c) PROVE LoopCounters'
  BY <1>8 DEF DeleteAlerts, Goto, Unlock
<1>9. ASSUME NEW c \in Calls, CommitInstance(c) PROVE LoopCounters'
  BY <1>9 DEF CommitInstance, Goto, EndTx, Unlock
<1>10. ASSUME NEW c \in Calls, FindServiceModels(c) PROVE LoopCounters'
  BY <1>10 DEF FindServiceModels, Goto, EndStmt, Unlock, ModelLoop
<1>11. ASSUME NEW c \in Calls, DeleteModelRows(c) PROVE LoopCounters'
  BY <1>11 DEF DeleteModelRows, Goto, Rollback, EndTx, Unlock, ModelLoop
<1>12. ASSUME NEW c \in Calls, DeleteModelParents(c) PROVE LoopCounters'
  BY <1>12 DEF DeleteModelParents, Goto, Rollback, EndTx, Unlock
<1>13. ASSUME NEW c \in Calls, CommitModel(c) PROVE LoopCounters'
  BY <1>13 DEF CommitModel, Goto, EndTx, Unlock
<1>14. ASSUME NEW c \in Calls, CheckModelName(c) PROVE LoopCounters'
  BY <1>14 DEF CheckModelName, Goto, EndStmt
<1>15. ASSUME NEW c \in Calls, CreateModel(c) PROVE LoopCounters'
  BY <1>15 DEF CreateModel, Goto, EndStmt
<1>16. ASSUME NEW c \in Calls, ReadModel(c) PROVE LoopCounters'
  BY <1>16 DEF ReadModel, Goto, EndStmt, AddLoop
<1>17. ASSUME NEW c \in Calls, CheckServiceName(c) PROVE LoopCounters'
  BY <1>17 DEF CheckServiceName, Goto, EndStmt
<1>18. ASSUME NEW c \in Calls, CreateService(c) PROVE LoopCounters'
  BY <1>18 DEF CreateService, Goto, EndStmt
<1>19. ASSUME NEW c \in Calls, ReadService(c) PROVE LoopCounters'
  BY <1>19 DEF ReadService, Goto, EndStmt
<1>20. ASSUME NEW c \in Calls, NextName(c) PROVE LoopCounters'
  BY <1>20 DEF NextName, Goto, EndTx, AddLoop, Unlock
<1>21. ASSUME NEW c \in Calls, CheckName(c) PROVE LoopCounters'
  BY <1>21 DEF CheckName, Goto, EndStmt
<1>22. ASSUME NEW c \in Calls, CreateRow(c) PROVE LoopCounters'
  BY <1>22 DEF CreateRow, Goto, Rollback, EndTx, Unlock
<1>23. ASSUME NEW c \in Calls, Read(c) PROVE LoopCounters'
  BY <1>23 DEF Read, Goto, EndStmt
<1>24. ASSUME NEW c \in Calls, Write(c) PROVE LoopCounters'
  BY <1>24 DEF Write, Goto, EndStmt
<1>25. ASSUME UNCHANGED vars PROVE LoopCounters'
  BY <1>25 DEF vars
<1> QED
  BY <1>1, <1>2, <1>3, <1>4, <1>5, <1>6, <1>7, <1>8, <1>9, <1>10, <1>11, <1>12, <1>13, <1>14, <1>15, <1>16, <1>17, <1>18, <1>19, <1>20, <1>21, <1>22, <1>23, <1>24, <1>25 DEF Next, Step

\* Every step that ends a transaction also gives up its rows.
LEMMA OwnershipStep ==
  ASSUME Typing, LoopCounters, LockOwnership, [Next]_vars
  PROVE  LockOwnership'
<1> USE PoolAssumption DEF Typing, LockOwnership, WantTx, WantSecond, WantOne, InTx, InStmt
<1>1. ASSUME NEW c \in Calls, NEW o \in Objects, Start(c, o) PROVE LockOwnership'
  BY <1>1 DEF Start, Goto, RowsFree
<1>2. ASSUME NEW c \in Calls, Acquire(c) PROVE LockOwnership'
  BY <1>2 DEF Acquire, Goto, Granted, RowsFree
<1>3. ASSUME NEW c \in Calls, FindServices(c) PROVE LockOwnership'
  BY <1>3 DEF FindServices, Goto, Rollback, EndTx, Unlock, InstanceLoop, RowsFree
<1>4. ASSUME NEW c \in Calls, LookupEvents(c) PROVE LockOwnership'
  BY <1>4 DEF LookupEvents, Goto, EndStmt, RowsFree
<1>5. ASSUME NEW c \in Calls, DeleteRelation(c) PROVE LockOwnership'
  BY <1>5 DEF DeleteRelation, Goto, EndStmt, RowsFree
<1>6. ASSUME NEW c \in Calls, DeleteRows(c) PROVE LockOwnership'
  BY <1>6 DEF DeleteRows, Goto, Rollback, EndTx, Unlock, InstanceLoop, RowsFree
<1>7. ASSUME NEW c \in Calls, DeleteParents(c) PROVE LockOwnership'
  BY <1>7 DEF DeleteParents, Goto, Rollback, EndTx, Unlock, RowsFree
<1>8. ASSUME NEW c \in Calls, DeleteAlerts(c) PROVE LockOwnership'
  BY <1>8 DEF DeleteAlerts, Goto, Unlock, RowsFree
<1>9. ASSUME NEW c \in Calls, CommitInstance(c) PROVE LockOwnership'
  BY <1>9 DEF CommitInstance, Goto, EndTx, Unlock, RowsFree
<1>10. ASSUME NEW c \in Calls, FindServiceModels(c) PROVE LockOwnership'
  BY <1>10 DEF FindServiceModels, Goto, EndStmt, Unlock, ModelLoop, RowsFree
<1>11. ASSUME NEW c \in Calls, DeleteModelRows(c) PROVE LockOwnership'
  BY <1>11 DEF DeleteModelRows, Goto, Rollback, EndTx, Unlock, ModelLoop, RowsFree
<1>12. ASSUME NEW c \in Calls, DeleteModelParents(c) PROVE LockOwnership'
  BY <1>12 DEF DeleteModelParents, Goto, Rollback, EndTx, Unlock, RowsFree
<1>13. ASSUME NEW c \in Calls, CommitModel(c) PROVE LockOwnership'
  BY <1>13 DEF CommitModel, Goto, EndTx, Unlock, RowsFree
<1>14. ASSUME NEW c \in Calls, CheckModelName(c) PROVE LockOwnership'
  BY <1>14 DEF CheckModelName, Goto, EndStmt, RowsFree
<1>15. ASSUME NEW c \in Calls, CreateModel(c) PROVE LockOwnership'
  BY <1>15 DEF CreateModel, Goto, EndStmt, RowsFree
<1>16. ASSUME NEW c \in Calls, ReadModel(c) PROVE LockOwnership'
  BY <1>16 DEF ReadModel, Goto, EndStmt, AddLoop, RowsFree
<1>17. ASSUME NEW c \in Calls, CheckServiceName(c) PROVE LockOwnership'
  BY <1>17 DEF CheckServiceName, Goto, EndStmt, RowsFree
<1>18. ASSUME NEW c \in Calls, CreateService(c) PROVE LockOwnership'
  BY <1>18 DEF CreateService, Goto, EndStmt, RowsFree
<1>19. ASSUME NEW c \in Calls, ReadService(c) PROVE LockOwnership'
  BY <1>19 DEF ReadService, Goto, EndStmt, RowsFree
<1>20. ASSUME NEW c \in Calls, NextName(c) PROVE LockOwnership'
  BY <1>20 DEF NextName, Goto, EndTx, AddLoop, Unlock, RowsFree
<1>21. ASSUME NEW c \in Calls, CheckName(c) PROVE LockOwnership'
  BY <1>21 DEF CheckName, Goto, EndStmt, RowsFree
<1>22. ASSUME NEW c \in Calls, CreateRow(c) PROVE LockOwnership'
  BY <1>22 DEF CreateRow, Goto, Rollback, EndTx, Unlock, RowsFree
<1>23. ASSUME NEW c \in Calls, Read(c) PROVE LockOwnership'
  BY <1>23 DEF Read, Goto, EndStmt, RowsFree
<1>24. ASSUME NEW c \in Calls, Write(c) PROVE LockOwnership'
  BY <1>24 DEF Write, Goto, EndStmt, RowsFree
<1>25. ASSUME UNCHANGED vars PROVE LockOwnership'
  BY <1>25 DEF vars, RowsFree
<1> QED
  BY <1>1, <1>2, <1>3, <1>4, <1>5, <1>6, <1>7, <1>8, <1>9, <1>10, <1>11, <1>12, <1>13, <1>14, <1>15, <1>16, <1>17, <1>18, <1>19, <1>20, <1>21, <1>22, <1>23, <1>24, <1>25 DEF Next, Step

\* A granted request moves its call to a place that holds one connection more.
LEMMA GrantedCount ==
  ASSUME NEW p \in WantTx \cup WantSecond \cup WantOne
  PROVE  One(Granted(p), InTx) + One(Granted(p), InStmt)
           = One(p, InTx) + One(p, InStmt) + 1
<1> USE DEF Granted, One, InTx, InStmt, WantSecond
<1>1. CASE p \in WantTx
  BY <1>1 DEF WantTx
<1>2. CASE p \in WantSecond
  BY <1>2
<1>3. CASE p \in WantOne
  BY <1>3 DEF WantOne
<1> QED
  BY <1>1, <1>2, <1>3

\* Every step changes the count of connections by what it takes or returns.
LEMMA AccountingStep ==
  ASSUME Typing, LoopCounters, PoolAccounting, [Next]_vars
  PROVE  PoolAccounting'
<1>0. Typing'
  BY TypingStep
<1> DEFINE Balanced(c) ==
      /\ pc' = [pc EXCEPT ![c] = pc'[c]]
      /\ inUse' = inUse - One(pc[c], InTx) + One(pc'[c], InTx)
                       - One(pc[c], InStmt) + One(pc'[c], InStmt)
                       + (leaked' - leaked)
<1>a. ASSUME NEW c \in Calls, Balanced(c) PROVE PoolAccounting'
  <2>1. pc'[c] \in Places /\ leaked' \in Int
    BY <1>0 DEF Typing
  <2> QED
    BY <1>a, <2>1, AccountingMove
<1> USE DEF Typing, LoopCounters, Places, InTx, InStmt, WantTx, WantSecond, WantOne, One
<1>1. ASSUME NEW c \in Calls, NEW o \in Objects, Start(c, o) PROVE Balanced(c)
  BY <1>1 DEF Start, Goto
<1>2. ASSUME NEW c \in Calls, Acquire(c) PROVE Balanced(c)
  <2>1. /\ pc' = [pc EXCEPT ![c] = Granted(pc[c])]
        /\ pc'[c] = Granted(pc[c])
        /\ inUse' = inUse + 1 /\ leaked' = leaked
    BY <1>2 DEF Acquire, Goto
  <2>2. One(Granted(pc[c]), InTx) + One(Granted(pc[c]), InStmt)
          = One(pc[c], InTx) + One(pc[c], InStmt) + 1
    BY <1>2, GrantedCount DEF Acquire
  <2> HIDE DEF Typing, Places, InTx, InStmt, WantTx, WantSecond, WantOne
  <2> QED
    BY <2>1, <2>2 DEF Typing
<1>3. ASSUME NEW c \in Calls, FindServices(c) PROVE Balanced(c)
  BY <1>3 DEF FindServices, Goto, Rollback, EndTx, Unlock, InstanceLoop
<1>4. ASSUME NEW c \in Calls, LookupEvents(c) PROVE Balanced(c)
  BY <1>4 DEF LookupEvents, Goto, EndStmt
<1>5. ASSUME NEW c \in Calls, DeleteRelation(c) PROVE Balanced(c)
  BY <1>5 DEF DeleteRelation, Goto, EndStmt
<1>6. ASSUME NEW c \in Calls, DeleteRows(c) PROVE Balanced(c)
  BY <1>6 DEF DeleteRows, Goto, Rollback, EndTx, Unlock, InstanceLoop
<1>7. ASSUME NEW c \in Calls, DeleteParents(c) PROVE Balanced(c)
  BY <1>7 DEF DeleteParents, Goto, Rollback, EndTx, Unlock
<1>8. ASSUME NEW c \in Calls, DeleteAlerts(c) PROVE Balanced(c)
  BY <1>8 DEF DeleteAlerts, Goto, Unlock
<1>9. ASSUME NEW c \in Calls, CommitInstance(c) PROVE Balanced(c)
  BY <1>9 DEF CommitInstance, Goto, EndTx, Unlock
<1>10. ASSUME NEW c \in Calls, FindServiceModels(c) PROVE Balanced(c)
  BY <1>10 DEF FindServiceModels, Goto, EndStmt, Unlock, ModelLoop
<1>11. ASSUME NEW c \in Calls, DeleteModelRows(c) PROVE Balanced(c)
  BY <1>11 DEF DeleteModelRows, Goto, Rollback, EndTx, Unlock, ModelLoop
<1>12. ASSUME NEW c \in Calls, DeleteModelParents(c) PROVE Balanced(c)
  BY <1>12 DEF DeleteModelParents, Goto, Rollback, EndTx, Unlock
<1>13. ASSUME NEW c \in Calls, CommitModel(c) PROVE Balanced(c)
  BY <1>13 DEF CommitModel, Goto, EndTx, Unlock
<1>14. ASSUME NEW c \in Calls, CheckModelName(c) PROVE Balanced(c)
  BY <1>14 DEF CheckModelName, Goto, EndStmt
<1>15. ASSUME NEW c \in Calls, CreateModel(c) PROVE Balanced(c)
  BY <1>15 DEF CreateModel, Goto, EndStmt
<1>16. ASSUME NEW c \in Calls, ReadModel(c) PROVE Balanced(c)
  BY <1>16 DEF ReadModel, Goto, EndStmt, AddLoop
<1>17. ASSUME NEW c \in Calls, CheckServiceName(c) PROVE Balanced(c)
  BY <1>17 DEF CheckServiceName, Goto, EndStmt
<1>18. ASSUME NEW c \in Calls, CreateService(c) PROVE Balanced(c)
  BY <1>18 DEF CreateService, Goto, EndStmt
<1>19. ASSUME NEW c \in Calls, ReadService(c) PROVE Balanced(c)
  BY <1>19 DEF ReadService, Goto, EndStmt
<1>20. ASSUME NEW c \in Calls, NextName(c) PROVE Balanced(c)
  BY <1>20 DEF NextName, Goto, EndTx, AddLoop, Unlock
<1>21. ASSUME NEW c \in Calls, CheckName(c) PROVE Balanced(c)
  BY <1>21 DEF CheckName, Goto, EndStmt
<1>22. ASSUME NEW c \in Calls, CreateRow(c) PROVE Balanced(c)
  BY <1>22 DEF CreateRow, Goto, Rollback, EndTx, Unlock
<1>23. ASSUME NEW c \in Calls, Read(c) PROVE Balanced(c)
  BY <1>23 DEF Read, Goto, EndStmt
<1>24. ASSUME NEW c \in Calls, Write(c) PROVE Balanced(c)
  BY <1>24 DEF Write, Goto, EndStmt
<1>25. ASSUME UNCHANGED vars PROVE PoolAccounting'
  BY <1>25 DEF vars, PoolAccounting, TxCalls, StmtCalls
<1> HIDE DEF Balanced
<1> QED
  BY <1>a, <1>1, <1>2, <1>3, <1>4, <1>5, <1>6, <1>7, <1>8, <1>9, <1>10, <1>11, <1>12, <1>13, <1>14, <1>15, <1>16, <1>17, <1>18, <1>19, <1>20, <1>21, <1>22, <1>23, <1>24, <1>25 DEF Next, Step

LEMMA InvStep == IInv /\ [Next]_vars => IInv'
BY TypingStep, CountersStep, AccountingStep, OwnershipStep DEF IInv

LEMMA Invariance == Spec => []IInv
BY InitInv, InvStep, PTL DEF Spec

-----------------------------------------------------------------------------
(* What follows from the inductive invariant. *)

\* The number of connections in use is never negative, by the accounting.
LEMMA InUseBounds == IInv => TypeOK
<1> SUFFICES ASSUME IInv PROVE TypeOK
  OBVIOUS
<1>1. TxCalls \in SUBSET Calls /\ StmtCalls \in SUBSET Calls
  BY DEF TxCalls, StmtCalls
<1>2. Cardinality(TxCalls) \in Nat /\ Cardinality(StmtCalls) \in Nat
  BY <1>1, PoolAssumption, FS_Subset, FS_CardinalityType
<1> QED
  BY <1>2, PoolAssumption DEF IInv, Typing, PoolAccounting, TypeOK

\* Type correctness: the pool never hands out more connections than MaxOpen,
\* nor gets back one that it did not hand out.
THEOREM TypeCorrect == Spec => []TypeOK
BY Invariance, InUseBounds, PTL

\* Every connection is accounted for on every path of the three functions that
\* hold transactions, for any number of handlers and any pool.
THEOREM Accounting == Spec => []PoolAccounting
BY Invariance, PTL DEF IInv

\* No call that has returned holds rows, except those of a leaked transaction.
THEOREM Ownership == Spec => []LockOwnership
BY Invariance, PTL DEF IInv

\* If every call waits, none holds a connection for a single statement unless
\* that statement is a write waiting for rows, so each holds at most one; a
\* larger pool then has a connection left, nobody waits for the pool, and the
\* transaction whose rows are waited for can go on.
LEMMA RoomMeansProgress ==
  ASSUME IInv, MaxOpen > Cardinality(Calls) + MaxLeaks
  PROVE  NoGridlock
<1> SUFFICES ASSUME Gridlock PROVE FALSE
  BY DEF NoGridlock
<1>1. \A c \in Calls : pc[c] # "idle" => Waiting(c)
  BY DEF Gridlock, Busy
<1>2. StmtCalls \in SUBSET {c \in Calls : pc[c] \in {"amModelQ", "amInsertQ", "wrQ"}}
  BY <1>1 DEF StmtCalls, InStmt, Waiting, WantTx, WantSecond, WantOne, Writing
<1>3. TxCalls \cap StmtCalls = {}
  BY <1>2 DEF TxCalls, InTx, WantSecond
<1>4. Cardinality(TxCalls) + Cardinality(StmtCalls) <= Cardinality(Calls)
  <2>1. IsFiniteSet(TxCalls) /\ IsFiniteSet(StmtCalls)
    BY PoolAssumption, FS_Subset DEF TxCalls, StmtCalls
  <2>2. Cardinality(TxCalls \cup StmtCalls)
          = Cardinality(TxCalls) + Cardinality(StmtCalls) - Cardinality(TxCalls \cap StmtCalls)
    BY <2>1, FS_Union
  <2>3. Cardinality(TxCalls \cap StmtCalls) = 0
    BY <1>3, FS_EmptySet
  <2>4. Cardinality(TxCalls \cup StmtCalls) <= Cardinality(Calls)
    <3>1. TxCalls \cup StmtCalls \in SUBSET Calls
      BY DEF TxCalls, StmtCalls
    <3> QED
      BY <3>1, PoolAssumption, FS_Subset
  <2>5. Cardinality(TxCalls) \in Nat /\ Cardinality(StmtCalls) \in Nat
    BY <2>1, FS_CardinalityType
  <2> QED
    BY <2>2, <2>3, <2>4, <2>5
<1>5. inUse < MaxOpen
  <2>1. Cardinality(TxCalls) \in Nat /\ Cardinality(StmtCalls) \in Nat /\ Cardinality(Calls) \in Nat
    BY PoolAssumption, FS_Subset, FS_CardinalityType DEF TxCalls, StmtCalls
  <2> QED
    BY <1>4, <2>1, PoolAssumption DEF IInv, PoolAccounting, Typing
<1>6. \A c \in Calls : pc[c] # "idle" => pc[c] \in Writing /\ ~ RowsFree(c)
  BY <1>1, <1>5, PoolAssumption DEF Waiting, IInv, Typing, MayReturn
<1>7. PICK c \in Calls : pc[c] \in Writing /\ ~ RowsFree(c) /\ ~ InnoDB
  BY <1>1, <1>5, PoolAssumption DEF Gridlock, Busy, Waiting, IInv, Typing, MayReturn
<1>8. lock[obj[c]] \in Calls
  BY <1>7 DEF RowsFree, IInv, Typing, LockOwnership
<1>9. /\ pc[lock[obj[c]]] # "idle"
      /\ RowsFree(lock[obj[c]])
  BY <1>8, PoolAssumption DEF IInv, Typing, LockOwnership, RowsFree, InTx, WantSecond
<1> QED
  BY <1>6, <1>8, <1>9

\* In a pool with more connections than handlers and leaks together no set of
\* calls ever blocks itself, for any number of handlers.
THEOREM GridlockFree ==
  MaxOpen > Cardinality(Calls) + MaxLeaks => (Spec => []NoGridlock)
<1> SUFFICES ASSUME MaxOpen > Cardinality(Calls) + MaxLeaks
             PROVE  Spec => []NoGridlock
  OBVIOUS
<1>1. IInv => NoGridlock
  BY RoomMeansProgress
<1> QED
  BY Invariance, <1>1, PTL

\* In a gridlock without a nested request nobody waits for rows, because the
\* owner of the rows would wait for a second connection; so no running call
\* holds a connection and the pool is used up by leaks alone.
LEMMA GridlockCause ==
  ASSUME IInv
  PROVE  GridlockIsNested
<1> SUFFICES ASSUME Gridlock, \A c \in Calls : pc[c] \notin WantSecond
             PROVE  leaked = MaxOpen
  BY DEF GridlockIsNested
<1>1. \A c \in Calls : pc[c] # "idle" => Waiting(c)
  BY DEF Gridlock, Busy
<1>2. ASSUME NEW c \in Calls, pc[c] \in Writing, ~ MayReturn(c) PROVE FALSE
  <2>1. lock[obj[c]] \in Calls
    BY <1>2 DEF MayReturn, RowsFree, IInv, Typing, LockOwnership
  <2>2. pc[lock[obj[c]]] # "idle" /\ RowsFree(lock[obj[c]]) /\ pc[lock[obj[c]]] \in InTx
    BY <2>1 DEF IInv, Typing, LockOwnership, RowsFree, InTx, WantSecond
  <2>3. pc[lock[obj[c]]] \notin WantTx \cup WantSecond \cup WantOne
    BY <2>1, <2>2 DEF InTx, WantTx, WantSecond, WantOne
  <2> QED
    BY <1>1, <2>1, <2>2, <2>3 DEF Waiting, MayReturn
<1>3. \A c \in Calls : pc[c] # "idle" => pc[c] \in WantTx \cup WantOne /\ inUse = MaxOpen
  BY <1>1, <1>2 DEF Waiting
<1>4. TxCalls = {} /\ StmtCalls = {}
  BY <1>3 DEF TxCalls, StmtCalls, InTx, InStmt, WantTx, WantOne, WantSecond
<1>5. inUse = leaked
  BY <1>4, FS_EmptySet DEF IInv, Typing, PoolAccounting
<1> QED
  BY <1>3, <1>5 DEF Gridlock, Busy

\* Whatever the size of the pool, only nested requests and leaks stop it.
THEOREM GridlockNeedsNesting == Spec => []GridlockIsNested
BY Invariance, GridlockCause, PTL
=============================================================================
