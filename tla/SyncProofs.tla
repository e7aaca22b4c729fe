----------------------------- MODULE SyncProofs -----------------------------
(***************************************************************************)
(* Proofs about the functions with which processes wait for each other, for*)
(* any number of processes and any values: the semaphores and the slock    *)
(* library (Semaph), and signals (SignalCalls).                            *)
(***************************************************************************)
EXTENDS Semaph, SignalCalls, FiniteSetTheorems, TLAPS

\* The calls a process makes with semaphore 2 locked.
Locking == {"getval", "setval0", "setval1", "endcreate", "close_getval", "rm", "unlock"}
\* Where a process is counted in semaphore 1.
Counted == {"in", "close"}

\* A process has an identifier while it is in the library, and holds the
\* semaphore only between its calls.
PlaceOK ==
    \A p \in Proc :
        /\ id[p] = "none" <=> pc[p] = "new"
        /\ id[p] = "live" => exists
        /\ hold[p] => pc[p] = "in"
        /\ pc[p] = "open" => how[p] = "open"

\* The adjust values are the opposite of what the process has done to the set.
AdjOK ==
    \A p \in Proc :
        /\ adj[p][0] = IF id[p] = "live" /\ hold[p] THEN 1 ELSE 0
        /\ adj[p][1] = IF id[p] = "live" /\ pc[p] \in Counted THEN 1 ELSE 0
        /\ adj[p][2] = IF id[p] = "live" /\ pc[p] \in Locking THEN -1 ELSE 0

\* One process has the lock, or none and it is free.
LockOK ==
    /\ sem[2] = 0 => \A p \in Proc : ~ (id[p] = "live" /\ pc[p] \in Locking)
    /\ sem[2] = 1 => \E p \in Proc : id[p] = "live" /\ pc[p] \in Locking
    /\ \A p, q \in Proc :
          /\ id[p] = "live" /\ pc[p] \in Locking
          /\ id[q] = "live" /\ pc[q] \in Locking
          => p = q

\* The set is as semget made it, or initialized.
Fresh == sem[1] = 0 /\ Users = {}

\* Semaphore 1 counts down the users, semaphore 0 the holders.
Ready ==
    /\ sem[1] = BIGCOUNT - Cardinality(Users)
    /\ sem[0] = InitVal - Cardinality(Holders)

\* The values of the semaphores, and what a creator knows of them.
CountOK ==
    /\ ~ exists => sem = Zero
    /\ Fresh \/ Ready
    /\ \A p \in Proc : id[p] = "live" =>
          /\ pc[p] \in {"setval0", "setval1"} => Fresh
          /\ pc[p] = "setval1" => sem[0] = InitVal
          /\ pc[p] \in {"endcreate", "close_getval", "rm", "unlock"} => Ready

\* The inductive invariant.
Inv == TypeOK /\ PlaceOK /\ AdjOK /\ LockOK /\ CountOK /\ CreatorsKeepTheSet


-----------------------------------------------------------------------------

\* sem_close does not find a counter above BIGCOUNT.
LEMMA NoDump ==
    ASSUME Inv, NEW p \in Proc, CloseGetVal(p)
    PROVE  /\ pc' = [pc EXCEPT ![p] = IF sem[1] = BIGCOUNT THEN "rm" ELSE "unlock"]
           /\ pc[p] = "close_getval" /\ id[p] = "live"
           /\ UNCHANGED <<exists, sem, adj, id, how, hold>>
  <1>1. sem[1] \in Nat /\ sem[1] =< BIGCOUNT
    BY DEF Inv, TypeOK, Member
  <1>2. ~ (sem[1] > BIGCOUNT)
    BY <1>1, SemaphAssumption
  <1> QED
    BY ZenonT(30), <1>2 DEF CloseGetVal, Goto

\* Each call of a process keeps PlaceOK.
LEMMA PlaceStep ==
    ASSUME Inv, NEW p \in Proc, Create(p) \/ Use(p) \/ Leave(p) PROVE PlaceOK'
  <1>1. /\ id \in [Proc -> {"none", "live", "gone"}]
        /\ pc \in [Proc -> Place]
        /\ hold \in [Proc -> BOOLEAN]
        /\ how \in [Proc -> {"create", "open"}]
        /\ PlaceOK
    BY Zenon DEF Inv, TypeOK
  <1>2. CASE sem_create(p)
    BY Zenon, <1>1, <1>2 DEF PlaceOK, sem_create, Goto
  <1>3. CASE Lock(p)
    BY Zenon, <1>1, <1>3 DEF PlaceOK, Lock, semop, op_lock, sembuf
  <1>4. CASE LockSleep(p)
    BY Zenon, <1>1, <1>4 DEF PlaceOK, LockSleep, Goto
  <1>5. CASE LockAgain(p)
    BY Zenon, <1>1, <1>5 DEF PlaceOK, LockAgain
  <1>6. CASE CreateGetVal(p)
    BY Zenon, <1>1, <1>6 DEF PlaceOK, CreateGetVal, Goto
  <1>7. CASE SetVal0(p)
    BY Zenon, <1>1, <1>7 DEF PlaceOK, SetVal0, Goto, SetVal
  <1>8. CASE SetVal1(p)
    BY Zenon, <1>1, <1>8 DEF PlaceOK, SetVal1, Goto, SetVal
  <1>9. CASE EndCreate(p)
    BY Zenon, <1>1, <1>9 DEF PlaceOK, EndCreate, Goto, semop, op_endcreate, sembuf
  <1>10. CASE sem_open(p)
    BY Zenon, <1>1, <1>10 DEF PlaceOK, sem_open, Goto
  <1>11. CASE Open(p)
    BY Zenon, <1>1, <1>11 DEF PlaceOK, Open, Goto, semop, op_open, sembuf
  <1>12. CASE sem_wait(p)
    BY Zenon, <1>1, <1>12 DEF PlaceOK, sem_wait, sem_op, semop, sembuf
  <1>13. CASE sem_signal(p)
    BY Zenon, <1>1, <1>13 DEF PlaceOK, sem_signal, sem_op, semop, sembuf
  <1>14. CASE sem_rm(p)
    BY Zenon, <1>1, <1>14 DEF PlaceOK, sem_rm, RemoveSem
  <1>15. CASE sem_close(p)
    BY Zenon, <1>1, <1>15 DEF PlaceOK, sem_close, Goto
  <1>16. CASE Close(p)
    BY Zenon, <1>1, <1>16 DEF PlaceOK, Close, Goto, semop, op_close, sembuf
  <1>17. CASE CloseGetVal(p)
    BY Zenon, <1>1, <1>17 DEF PlaceOK, CloseGetVal, Goto
  <1>18. CASE Rm(p)
    BY Zenon, <1>1, <1>18 DEF PlaceOK, Rm, RemoveSem
  <1>19. CASE Unlock(p)
    BY Zenon, <1>1, <1>19 DEF PlaceOK, Unlock, semop, op_unlock, sembuf
  <1>20. CASE err_sys(p)
    BY Zenon, <1>1, <1>20 DEF PlaceOK, err_sys, Exit
  <1>21. CASE Killed(p)
    BY Zenon, <1>1, <1>21 DEF PlaceOK, Killed, Exit
  <1> QED
    BY ZenonT(30), <1>2, <1>3, <1>4, <1>5, <1>6, <1>7, <1>8, <1>9, <1>10, <1>11, <1>12, <1>13, <1>14, <1>15, <1>16, <1>17, <1>18, <1>19, <1>20, <1>21 DEF Create, Use, Leave

\* semop keeps the adjust values opposite to what the process did; SETVAL clears
\* values that are 0, since nobody uses a set that is being initialized.
LEMMA AdjStep ==
    ASSUME Inv, NEW p \in Proc, Create(p) \/ Use(p) \/ Leave(p) PROVE AdjOK' /\ adj' \in [Proc -> [Member -> {-1, 0, 1}]]
  <1>1. /\ id \in [Proc -> {"none", "live", "gone"}]
        /\ pc \in [Proc -> Place]
        /\ hold \in [Proc -> BOOLEAN]
        /\ adj \in [Proc -> [Member -> {-1, 0, 1}]]
        /\ PlaceOK /\ AdjOK
    BY Zenon DEF Inv, TypeOK
  <1>2. CASE sem_create(p)
    BY <1>1, <1>2 DEF AdjOK, PlaceOK, Member, Zero, Locking, Counted, sem_create, Goto
  <1>3. CASE Lock(p)
    BY <1>1, <1>3 DEF AdjOK, PlaceOK, Member, Zero, Locking, Counted, Lock, semop, op_lock, sembuf
  <1>4. CASE LockSleep(p)
    BY <1>1, <1>4 DEF AdjOK, PlaceOK, Member, Zero, Locking, Counted, LockSleep, Goto
  <1>5. CASE LockAgain(p)
    BY <1>1, <1>5 DEF AdjOK, PlaceOK, Member, Zero, Locking, Counted, LockAgain
  <1>6. CASE CreateGetVal(p)
    BY <1>1, <1>6 DEF AdjOK, PlaceOK, Member, Zero, Locking, Counted, CreateGetVal, Goto
  <1>7. CASE SetVal0(p)
    <2>1. \A q \in Proc : ~ (id[q] = "live" /\ pc[q] \in Counted)
      BY Zenon, <1>7 DEF Inv, CountOK, Fresh, Users, Counted, SetVal0, Goto, SetVal
    <2> QED
      BY <1>1, <1>7, <2>1 DEF AdjOK, PlaceOK, Member, Locking, Counted, SetVal0, Goto, SetVal
  <1>8. CASE SetVal1(p)
    <2>1. \A q \in Proc : ~ (id[q] = "live" /\ pc[q] \in Counted)
      BY Zenon, <1>8 DEF Inv, CountOK, Fresh, Users, Counted, SetVal1, Goto, SetVal
    <2> QED
      BY <1>1, <1>8, <2>1 DEF AdjOK, PlaceOK, Member, Locking, Counted, SetVal1, Goto, SetVal
  <1>9. CASE EndCreate(p)
    BY <1>1, <1>9 DEF AdjOK, PlaceOK, Member, Zero, Locking, Counted, EndCreate, Goto, semop, op_endcreate, sembuf
  <1>10. CASE sem_open(p)
    BY <1>1, <1>10 DEF AdjOK, PlaceOK, Member, Zero, Locking, Counted, sem_open, Goto
  <1>11. CASE Open(p)
    BY <1>1, <1>11 DEF AdjOK, PlaceOK, Member, Zero, Locking, Counted, Open, Goto, semop, op_open, sembuf
  <1>12. CASE sem_wait(p)
    BY <1>1, <1>12 DEF AdjOK, PlaceOK, Member, Zero, Locking, Counted, sem_wait, sem_op, semop, sembuf
  <1>13. CASE sem_signal(p)
    BY <1>1, <1>13 DEF AdjOK, PlaceOK, Member, Zero, Locking, Counted, sem_signal, sem_op, semop, sembuf
  <1>14. CASE sem_rm(p)
    BY <1>1, <1>14 DEF AdjOK, PlaceOK, Member, Zero, Locking, Counted, sem_rm, RemoveSem
  <1>15. CASE sem_close(p)
    BY <1>1, <1>15 DEF AdjOK, PlaceOK, Member, Zero, Locking, Counted, sem_close, Goto
  <1>16. CASE Close(p)
    BY <1>1, <1>16 DEF AdjOK, PlaceOK, Member, Zero, Locking, Counted, Close, Goto, semop, op_close, sembuf
  <1>17. CASE CloseGetVal(p)
    BY <1>1, <1>17, NoDump DEF AdjOK, Locking, Counted
  <1>18. CASE Rm(p)
    BY <1>1, <1>18 DEF AdjOK, PlaceOK, Member, Zero, Locking, Counted, Rm, RemoveSem
  <1>19. CASE Unlock(p)
    BY <1>1, <1>19 DEF AdjOK, PlaceOK, Member, Zero, Locking, Counted, Unlock, semop, op_unlock, sembuf
  <1>20. CASE err_sys(p)
    BY <1>1, <1>20 DEF AdjOK, PlaceOK, Member, Zero, Locking, Counted, err_sys, Exit
  <1>21. CASE Killed(p)
    BY <1>1, <1>21 DEF AdjOK, PlaceOK, Member, Zero, Locking, Counted, Killed, Exit
  <1> QED
    BY ZenonT(40), <1>2, <1>3, <1>4, <1>5, <1>6, <1>7, <1>8, <1>9, <1>10, <1>11, <1>12, <1>13, <1>14, <1>15, <1>16, <1>17, <1>18, <1>19, <1>20, <1>21 DEF Create, Use, Leave

\* op_lock and op_close wait for a free lock, and only its owner frees it.
LEMMA LockStep ==
    ASSUME Inv, NEW p \in Proc, Create(p) \/ Use(p) \/ Leave(p) PROVE LockOK' /\ sem'[2] \in {0, 1}
  <1>1. /\ id \in [Proc -> {"none", "live", "gone"}]
        /\ pc \in [Proc -> Place]
        /\ sem \in [Member -> Nat] /\ sem[2] \in {0, 1}
        /\ adj \in [Proc -> [Member -> {-1, 0, 1}]]
        /\ PlaceOK /\ AdjOK /\ LockOK
    BY Zenon DEF Inv, TypeOK
  <1>2. CASE sem_create(p)
    BY <1>1, <1>2 DEF LockOK, AdjOK, PlaceOK, Member, Zero, Locking, Counted, sem_create, Goto
  <1>3. CASE Lock(p)
    BY <1>1, <1>3 DEF LockOK, AdjOK, PlaceOK, Member, Zero, Locking, Counted, Lock, semop, op_lock, sembuf
  <1>4. CASE LockSleep(p)
    BY <1>1, <1>4 DEF LockOK, AdjOK, PlaceOK, Member, Zero, Locking, Counted, LockSleep, Goto
  <1>5. CASE LockAgain(p)
    BY <1>1, <1>5 DEF LockOK, AdjOK, PlaceOK, Member, Zero, Locking, Counted, LockAgain
  <1>6. CASE CreateGetVal(p)
    BY <1>1, <1>6 DEF LockOK, AdjOK, PlaceOK, Member, Zero, Locking, Counted, CreateGetVal, Goto
  <1>7. CASE SetVal0(p)
    BY <1>1, <1>7 DEF LockOK, AdjOK, PlaceOK, Member, Zero, Locking, Counted, SetVal0, Goto, SetVal
  <1>8. CASE SetVal1(p)
    BY <1>1, <1>8 DEF LockOK, AdjOK, PlaceOK, Member, Zero, Locking, Counted, SetVal1, Goto, SetVal
  <1>9. CASE EndCreate(p)
    BY <1>1, <1>9 DEF LockOK, AdjOK, PlaceOK, Member, Zero, Locking, Counted, EndCreate, Goto, semop, op_endcreate, sembuf
  <1>10. CASE sem_open(p)
    BY <1>1, <1>10 DEF LockOK, AdjOK, PlaceOK, Member, Zero, Locking, Counted, sem_open, Goto
  <1>11. CASE Open(p)
    BY <1>1, <1>11 DEF LockOK, AdjOK, PlaceOK, Member, Zero, Locking, Counted, Open, Goto, semop, op_open, sembuf
  <1>12. CASE sem_wait(p)
    BY <1>1, <1>12 DEF LockOK, AdjOK, PlaceOK, Member, Zero, Locking, Counted, sem_wait, sem_op, semop, sembuf
  <1>13. CASE sem_signal(p)
    BY <1>1, <1>13 DEF LockOK, AdjOK, PlaceOK, Member, Zero, Locking, Counted, sem_signal, sem_op, semop, sembuf
  <1>14. CASE sem_rm(p)
    BY <1>1, <1>14 DEF LockOK, AdjOK, PlaceOK, Member, Zero, Locking, Counted, sem_rm, RemoveSem
  <1>15. CASE sem_close(p)
    BY <1>1, <1>15 DEF LockOK, AdjOK, PlaceOK, Member, Zero, Locking, Counted, sem_close, Goto
  <1>16. CASE Close(p)
    BY <1>1, <1>16 DEF LockOK, AdjOK, PlaceOK, Member, Zero, Locking, Counted, Close, Goto, semop, op_close, sembuf
  <1>17. CASE CloseGetVal(p)
    BY <1>1, <1>17, NoDump DEF LockOK, Member, Locking
  <1>18. CASE Rm(p)
    BY <1>1, <1>18 DEF LockOK, AdjOK, PlaceOK, Member, Zero, Locking, Counted, Rm, RemoveSem
  <1>19. CASE Unlock(p)
    BY <1>1, <1>19 DEF LockOK, AdjOK, PlaceOK, Member, Zero, Locking, Counted, Unlock, semop, op_unlock, sembuf
  <1>20. CASE err_sys(p)
    BY <1>1, <1>20 DEF LockOK, AdjOK, PlaceOK, Member, Zero, Locking, Counted, err_sys, Exit
  <1>21. CASE Killed(p)
    BY <1>1, <1>21 DEF LockOK, AdjOK, PlaceOK, Member, Zero, Locking, Counted, Killed, Exit
  <1> QED
    BY ZenonT(40), <1>2, <1>3, <1>4, <1>5, <1>6, <1>7, <1>8, <1>9, <1>10, <1>11, <1>12, <1>13, <1>14, <1>15, <1>16, <1>17, <1>18, <1>19, <1>20, <1>21 DEF Create, Use, Leave

\* A set that grows or shrinks by one process.
LEMMA CardSteps ==
    ASSUME NEW S, IsFiniteSet(S), NEW x
    PROVE  /\ Cardinality(S) \in Nat
           /\ x \notin S => Cardinality(S \cup {x}) = Cardinality(S) + 1
           /\ x \in S => Cardinality(S \ {x}) = Cardinality(S) - 1
  BY FS_CardinalityType, FS_AddElement, FS_RemoveElement, Zenon

\* The counter cannot reach 0 while a process is still to be counted.
LEMMA UsersBound ==
    ASSUME Inv
    PROVE  /\ IsFiniteSet(Users) /\ IsFiniteSet(Holders) /\ Holders \subseteq Users
           /\ Cardinality(Users) \in Nat /\ Cardinality(Holders) \in Nat
           /\ Cardinality(Users) =< BIGCOUNT
           /\ \A p \in Proc : p \notin Users => Cardinality(Users) < BIGCOUNT
           /\ Fresh => Holders = {}
           /\ Cardinality({}) = 0
  <1>1. Users \subseteq Proc /\ Holders \subseteq Users
    BY Zenon DEF Inv, PlaceOK, Users, Holders
  <1>2. IsFiniteSet(Users) /\ IsFiniteSet(Holders)
    BY Zenon, <1>1, FS_Subset, SemaphAssumption
  <1>3. /\ Cardinality(Users) \in Nat /\ Cardinality(Holders) \in Nat
        /\ Cardinality(Proc) \in Nat /\ Cardinality(Users) =< Cardinality(Proc)
    BY Zenon, <1>1, <1>2, FS_CardinalityType, FS_Subset, SemaphAssumption
  <1>4. ASSUME NEW p \in Proc, p \notin Users PROVE Cardinality(Users) < BIGCOUNT
    <2>1. Users \subseteq Proc \ {p}
      BY Zenon, <1>1, <1>4
    <2>2. IsFiniteSet(Proc \ {p}) /\ Cardinality(Proc \ {p}) = Cardinality(Proc) - 1
      BY Zenon, <1>4, FS_RemoveElement, SemaphAssumption
    <2>3. Cardinality(Users) =< Cardinality(Proc \ {p})
      BY Zenon, <2>1, <2>2, FS_Subset
    <2> QED
      BY <1>3, <2>2, <2>3, SemaphAssumption, CountAssumption
  <1>5. Fresh => Holders = {}
    BY Zenon, <1>1 DEF Fresh
  <1> QED
    BY <1>1, <1>2, <1>3, <1>4, <1>5, FS_EmptySet, SemaphAssumption, CountAssumption

\* A process that dies gives back what it took from the value and the counter.
LEMMA ExitCount ==
    ASSUME Inv, NEW p \in Proc, pc[p] # "new", Exit(p) PROVE CountOK'
  <1>1. /\ id \in [Proc -> {"none", "live", "gone"}]
        /\ pc \in [Proc -> Place]
        /\ hold \in [Proc -> BOOLEAN]
        /\ sem \in [Member -> Nat]
        /\ PlaceOK /\ LockOK /\ CountOK
        /\ AdjOK
    BY Zenon DEF Inv, TypeOK
  <1>2. /\ Users' = Users \ {p} /\ Holders' = Holders \ {p}
        /\ sem'[0] = sem[0] + IF p \in Holders THEN 1 ELSE 0
        /\ sem'[1] = sem[1] + IF p \in Users THEN 1 ELSE 0
    BY <1>1 DEF Users, Holders, AdjOK, PlaceOK, Counted, Member, Exit
  <1>3. Fresh => Fresh'
    BY <1>2 DEF Fresh
  <1>4. Ready => Ready'
    <2>1. p \notin Users => Users \ {p} = Users
      BY Zenon
    <2>2. p \notin Holders => Holders \ {p} = Holders
      BY Zenon
    <2>3. Cardinality(Users \ {p}) = IF p \in Users THEN Cardinality(Users) - 1 ELSE Cardinality(Users)
      BY Zenon, <2>1, UsersBound, CardSteps
    <2>4. Cardinality(Holders \ {p}) = IF p \in Holders THEN Cardinality(Holders) - 1 ELSE Cardinality(Holders)
      BY Zenon, <2>2, UsersBound, CardSteps
    <2> QED
      BY <1>1, <1>2, <2>3, <2>4, UsersBound, SemaphAssumption DEF Ready, Member
  <1>5. ~ exists' => sem' = Zero
    <2>1. SUFFICES ASSUME ~ exists PROVE sem' = Zero
      BY Zenon DEF Exit
    <2>2. sem = Zero /\ id[p] # "live"
      BY Zenon, <1>1, <2>1 DEF CountOK, PlaceOK
    <2> QED
      BY <1>1, <2>2 DEF AdjOK, Zero, Member, Exit
  <1>6. ASSUME NEW q \in Proc, q # p, pc[q] = "setval1", id[q] = "live" PROVE sem'[0] = sem[0]
    BY SMTT(40), <1>1, <1>2, <1>6, UsersBound DEF CountOK, Member
  <1> QED
    BY Zenon, <1>1, <1>2, <1>3, <1>4, <1>5, <1>6 DEF CountOK, Exit

\* The counter and the value follow the users and the holders.
LEMMA CountStep ==
    ASSUME Inv, NEW p \in Proc, Create(p) \/ Use(p) \/ Leave(p) PROVE CountOK'
  <1>1. /\ id \in [Proc -> {"none", "live", "gone"}]
        /\ pc \in [Proc -> Place]
        /\ hold \in [Proc -> BOOLEAN]
        /\ sem \in [Member -> Nat]
        /\ PlaceOK /\ LockOK /\ CountOK
    BY Zenon DEF Inv, TypeOK
  <1>2. CASE sem_create(p)
    <2>1. Users' = Users /\ Holders' = Holders /\ sem'[0] = sem[0] /\ sem'[1] = sem[1]
      BY Zenon, <1>1, <1>2 DEF Users, Holders, PlaceOK, Member, sem_create, Goto
    <2> QED
      BY <1>1, <1>2, <2>1, UsersBound DEF Fresh, Ready, CountOK, LockOK, PlaceOK, Locking, Member, sem_create, Goto
  <1>3. CASE Lock(p)
    <2>1. Users' = Users /\ Holders' = Holders /\ sem'[0] = sem[0] /\ sem'[1] = sem[1]
      BY <1>1, <1>3 DEF Users, Holders, PlaceOK, Member, Lock, semop, op_lock, sembuf
    <2> QED
      BY <1>1, <1>3, <2>1, UsersBound DEF Fresh, Ready, CountOK, LockOK, PlaceOK, Locking, Member, Lock, semop, op_lock, sembuf
  <1>4. CASE LockSleep(p)
    <2>1. Users' = Users /\ Holders' = Holders /\ sem'[0] = sem[0] /\ sem'[1] = sem[1]
      BY Zenon, <1>1, <1>4 DEF Users, Holders, PlaceOK, Member, LockSleep, Goto
    <2> QED
      BY <1>1, <1>4, <2>1, UsersBound DEF Fresh, Ready, CountOK, LockOK, PlaceOK, Locking, Member, LockSleep, Goto
  <1>5. CASE LockAgain(p)
    <2>1. Users' = Users /\ Holders' = Holders /\ sem'[0] = sem[0] /\ sem'[1] = sem[1]
      BY Zenon, <1>1, <1>5 DEF Users, Holders, PlaceOK, Member, LockAgain
    <2> QED
      BY ZenonT(30), <1>1, <1>5, <2>1, UsersBound DEF Fresh, Ready, CountOK, LockOK, PlaceOK, Locking, Member, LockAgain
  <1>6. CASE CreateGetVal(p)
    <2>1. Users' = Users /\ Holders' = Holders /\ sem' = sem /\ p \notin Users
      BY Zenon, <1>1, <1>6 DEF Users, Holders, CreateGetVal, Goto
    <2>2. IF sem[1] = 0 THEN Fresh ELSE Ready
      BY SMTT(40), <1>1, <2>1, UsersBound, SemaphAssumption DEF CountOK, Fresh, Ready, Member
    <2> QED
      BY Zenon, <1>1, <1>6, <2>1, <2>2, UsersBound DEF Fresh, Ready, CountOK, CreateGetVal, Goto
  <1>7. CASE SetVal0(p)
    <2>1. Users' = Users /\ Holders' = Holders /\ sem'[0] = InitVal /\ sem'[1] = sem[1] /\ Fresh
      BY SMTT(40), <1>1, <1>7 DEF Users, Holders, CountOK, Member, SetVal0, Goto, SetVal
    <2> QED
      BY <1>1, <1>7, <2>1, UsersBound DEF Fresh, Ready, CountOK, LockOK, PlaceOK, Locking, SetVal0, Goto, SetVal
  <1>8. CASE SetVal1(p)
    <2>1. /\ Users' = Users /\ Holders' = Holders /\ sem'[0] = InitVal /\ sem'[1] = BIGCOUNT
          /\ Users = {} /\ Holders = {}
      BY <1>1, <1>8, UsersBound DEF Users, Holders, CountOK, Fresh, Member, SetVal1, Goto, SetVal
    <2>2. Ready'
      BY <2>1, UsersBound, SemaphAssumption DEF Ready
    <2> QED
      BY SMTT(40), <1>1, <1>8, <2>1, <2>2 DEF CountOK, LockOK, PlaceOK, Locking, SetVal1, Goto, SetVal
  <1>9. CASE EndCreate(p)
    <2>1. Users' = Users \cup {p} /\ p \notin Users /\ Holders' = Holders
      BY Zenon, <1>1, <1>9 DEF Users, Holders, PlaceOK, EndCreate, Goto, semop, op_endcreate, sembuf
    <2>2. Ready /\ sem'[0] = sem[0] /\ sem'[1] = sem[1] - 1
      BY <1>1, <1>9 DEF CountOK, Fresh, Member, EndCreate, Goto, semop, op_endcreate, sembuf
    <2>3. Ready'
      BY SMTT(40), <2>1, <2>2, UsersBound, CardSteps, SemaphAssumption DEF Ready
    <2> QED
      BY <1>1, <1>9, <2>2, <2>3 DEF CountOK, Fresh, LockOK, PlaceOK, Locking, Member, EndCreate, Goto, semop, op_endcreate, sembuf
  <1>10. CASE sem_open(p)
    <2>1. Users' = Users /\ Holders' = Holders /\ sem'[0] = sem[0] /\ sem'[1] = sem[1]
      BY Zenon, <1>1, <1>10 DEF Users, Holders, PlaceOK, Member, sem_open, Goto
    <2> QED
      BY <1>1, <1>10, <2>1, UsersBound DEF Fresh, Ready, CountOK, LockOK, PlaceOK, Locking, Member, sem_open, Goto
  <1>11. CASE Open(p)
    <2>1. Users' = Users \cup {p} /\ p \notin Users /\ Holders' = Holders
      BY Zenon, <1>1, <1>11 DEF Users, Holders, PlaceOK, Open, Goto, semop, op_open, sembuf
    <2>2. Ready /\ sem'[0] = sem[0] /\ sem'[1] = sem[1] - 1
      BY <1>1, <1>11 DEF CountOK, Fresh, Member, Open, Goto, semop, op_open, sembuf
    <2>3. Ready'
      BY <2>1, <2>2, UsersBound, CardSteps, SemaphAssumption DEF Ready
    <2> QED
      BY <1>1, <1>11, <2>2, <2>3 DEF CountOK, Fresh, LockOK, PlaceOK, Locking, Member, Open, Goto, semop, op_open, sembuf
  <1>12. CASE sem_wait(p)
    <2>1. Holders' = Holders \cup {p} /\ p \notin Holders /\ Users' = Users /\ p \in Users
      BY Zenon, <1>1, <1>12 DEF Users, Holders, PlaceOK, sem_wait, sem_op, semop, sembuf
    <2>2. Ready /\ sem'[0] = sem[0] - 1 /\ sem'[1] = sem[1]
      BY <1>1, <1>12, <2>1 DEF CountOK, Fresh, Member, sem_wait, sem_op, semop, sembuf
    <2>3. Cardinality(Holders') = Cardinality(Holders) + 1
      BY Zenon, <2>1, UsersBound, CardSteps
    <2>4. Ready'
      BY <1>1, <2>1, <2>2, <2>3, UsersBound, SemaphAssumption DEF Ready, Member
    <2> QED
      BY Zenon, <1>1, <1>12, <2>1, <2>2, <2>4 DEF CountOK, Fresh, PlaceOK, Member, sem_wait, sem_op, semop, sembuf
  <1>13. CASE sem_signal(p)
    <2>1. Holders' = Holders \ {p} /\ p \in Holders /\ Users' = Users /\ p \in Users
      BY Zenon, <1>1, <1>13 DEF Users, Holders, PlaceOK, sem_signal, sem_op, semop, sembuf
    <2>2. Ready /\ sem'[0] = sem[0] + 1 /\ sem'[1] = sem[1]
      BY <1>1, <1>13, <2>1 DEF CountOK, Fresh, Member, sem_signal, sem_op, semop, sembuf
    <2>3. Cardinality(Holders') = Cardinality(Holders) - 1
      BY Zenon, <2>1, UsersBound, CardSteps
    <2>4. Ready'
      BY SMTT(40), <1>1, <2>1, <2>2, <2>3, UsersBound, SemaphAssumption DEF Ready, Member
    <2> QED
      BY Zenon, <1>1, <1>13, <2>1, <2>2, <2>4 DEF CountOK, Fresh, PlaceOK, Member, sem_signal, sem_op, semop, sembuf
  <1>14. CASE sem_rm(p)
    <2>1. Users' = {} /\ Holders' = {} /\ sem' = Zero
      BY Zenon, <1>1, <1>14 DEF Users, Holders, PlaceOK, sem_rm, RemoveSem
    <2> QED
      BY <1>1, <1>14, <2>1 DEF Fresh, CountOK, PlaceOK, Member, Zero, sem_rm, RemoveSem
  <1>15. CASE sem_close(p)
    <2>1. Users' = Users /\ Holders' = Holders /\ sem'[0] = sem[0] /\ sem'[1] = sem[1]
      BY Zenon, <1>1, <1>15 DEF Users, Holders, PlaceOK, Member, sem_close, Goto
    <2> QED
      BY <1>1, <1>15, <2>1, UsersBound DEF Fresh, Ready, CountOK, LockOK, PlaceOK, Locking, Member, sem_close, Goto
  <1>16. CASE Close(p)
    <2>1. Users' = Users \ {p} /\ p \in Users /\ Holders' = Holders
      BY Zenon, <1>1, <1>16 DEF Users, Holders, PlaceOK, Close, Goto, semop
    <2>2. Ready /\ sem'[0] = sem[0] /\ sem'[1] = sem[1] + 1
      BY <1>1, <1>16, <2>1 DEF CountOK, Fresh, Member, Close, semop, op_close, sembuf
    <2>3. Ready'
      BY SMTT(40), <2>1, <2>2, UsersBound, CardSteps, SemaphAssumption DEF Ready
    <2> QED
      BY <1>1, <1>16, <2>1, <2>2, <2>3 DEF CountOK, Fresh, PlaceOK, Member, Close, Goto, semop
  <1>17. CASE CloseGetVal(p)
    <2>1. Users' = Users /\ Holders' = Holders /\ sem'[0] = sem[0] /\ sem'[1] = sem[1]
      BY Zenon, <1>1, <1>17 DEF Users, Holders, PlaceOK, Member, CloseGetVal, Goto
    <2> QED
      BY <1>1, <1>17, <2>1, UsersBound DEF Fresh, Ready, CountOK, LockOK, PlaceOK, Locking, Member, CloseGetVal, Goto
  <1>18. CASE Rm(p)
    <2>1. Users' = {} /\ Holders' = {} /\ sem' = Zero
      BY ZenonT(40), <1>1, <1>18 DEF Users, Holders, PlaceOK, Rm, RemoveSem
    <2> QED
      BY <1>1, <1>18, <2>1 DEF Fresh, CountOK, PlaceOK, Member, Zero, Rm, RemoveSem
  <1>19. CASE Unlock(p)
    <2>1. Users' = Users /\ Holders' = Holders /\ sem'[0] = sem[0] /\ sem'[1] = sem[1]
      BY <1>1, <1>19 DEF Users, Holders, PlaceOK, Member, Unlock, semop, op_unlock, sembuf
    <2> QED
      BY SMTT(40), <1>1, <1>19, <2>1, UsersBound DEF Fresh, Ready, CountOK, LockOK, PlaceOK, Locking, Member, Unlock, semop, op_unlock, sembuf
  <1>20. CASE err_sys(p)
    BY Zenon, <1>1, <1>20, ExitCount DEF PlaceOK, err_sys
  <1>21. CASE Killed(p)
    BY ZenonT(40), <1>1, <1>21, ExitCount DEF PlaceOK, Killed
  <1> QED
    BY ZenonT(40), <1>2, <1>3, <1>4, <1>5, <1>6, <1>7, <1>8, <1>9, <1>10, <1>11, <1>12, <1>13, <1>14, <1>15, <1>16, <1>17, <1>18, <1>19, <1>20, <1>21 DEF Create, Use, Leave

\* Once sem_close has seen BIGCOUNT, the lock keeps out every sem_create.
LEMMA CreatorsStep ==
    ASSUME Inv, NEW p \in Proc, Create(p) \/ Use(p) \/ Leave(p) PROVE CreatorsKeepTheSet'
  <1>1. /\ id \in [Proc -> {"none", "live", "gone"}]
        /\ pc \in [Proc -> Place]
        /\ how \in [Proc -> {"create", "open"}]
        /\ PlaceOK /\ LockOK /\ CountOK /\ CreatorsKeepTheSet
    BY Zenon DEF Inv, TypeOK
  <1>2. CASE sem_create(p)
    BY <1>1, <1>2 DEF CreatorsKeepTheSet, Users, PlaceOK, LockOK, Locking, sem_create, Goto
  <1>3. CASE Lock(p)
    BY <1>1, <1>3 DEF CreatorsKeepTheSet, Users, PlaceOK, LockOK, Locking, Lock, semop, op_lock, sembuf
  <1>4. CASE LockSleep(p)
    BY <1>1, <1>4 DEF CreatorsKeepTheSet, Users, PlaceOK, LockOK, Locking, LockSleep, Goto
  <1>5. CASE LockAgain(p)
    BY <1>1, <1>5 DEF CreatorsKeepTheSet, Users, PlaceOK, LockOK, Locking, LockAgain
  <1>6. CASE CreateGetVal(p)
    BY SMTT(40), <1>1, <1>6 DEF CreatorsKeepTheSet, Users, PlaceOK, LockOK, Locking, CreateGetVal, Goto
  <1>7. CASE SetVal0(p)
    BY SMTT(40), <1>1, <1>7 DEF CreatorsKeepTheSet, Users, PlaceOK, LockOK, Locking, SetVal0, Goto, SetVal
  <1>8. CASE SetVal1(p)
    BY <1>1, <1>8 DEF CreatorsKeepTheSet, Users, PlaceOK, LockOK, Locking, SetVal1, Goto, SetVal
  <1>9. CASE EndCreate(p)
    BY <1>1, <1>9 DEF CreatorsKeepTheSet, Users, PlaceOK, LockOK, Locking, EndCreate, Goto, semop, op_endcreate, sembuf
  <1>10. CASE sem_open(p)
    BY SMTT(40), <1>1, <1>10 DEF CreatorsKeepTheSet, Users, PlaceOK, LockOK, Locking, sem_open, Goto
  <1>11. CASE Open(p)
    BY <1>1, <1>11 DEF CreatorsKeepTheSet, Users, PlaceOK, LockOK, Locking, Open, Goto, semop, op_open, sembuf
  <1>12. CASE sem_wait(p)
    BY Zenon, <1>1, <1>12 DEF CreatorsKeepTheSet, Users, PlaceOK, LockOK, Locking, sem_wait, sem_op, semop, sembuf
  <1>13. CASE sem_signal(p)
    BY Zenon, <1>1, <1>13 DEF CreatorsKeepTheSet, Users, PlaceOK, LockOK, Locking, sem_signal, sem_op, semop, sembuf
  <1>14. CASE sem_rm(p)
    BY Zenon, <1>1, <1>14 DEF CreatorsKeepTheSet, Users, PlaceOK, LockOK, Locking, sem_rm, RemoveSem
  <1>15. CASE sem_close(p)
    BY SMTT(40), <1>1, <1>15 DEF CreatorsKeepTheSet, Users, PlaceOK, LockOK, Locking, sem_close, Goto
  <1>16. CASE Close(p)
    BY <1>1, <1>16 DEF CreatorsKeepTheSet, Users, PlaceOK, LockOK, Locking, Close, Goto, semop, op_close, sembuf
  <1>17. CASE CloseGetVal(p)
    <2>1. Users' = Users /\ how' = how /\ Ready
      BY Zenon, <1>1, <1>17 DEF Users, CountOK, CloseGetVal, Goto
    <2>2. sem[1] = BIGCOUNT => Users = {}
      BY <2>1, UsersBound, FS_EmptySet, SemaphAssumption DEF Ready
    <2> QED
      BY Zenon, <1>1, <1>17, <2>1, <2>2 DEF CreatorsKeepTheSet, CloseGetVal, Goto
  <1>18. CASE Rm(p)
    BY Zenon, <1>1, <1>18 DEF CreatorsKeepTheSet, Users, PlaceOK, LockOK, Locking, Rm, RemoveSem
  <1>19. CASE Unlock(p)
    BY SMTT(40), <1>1, <1>19 DEF CreatorsKeepTheSet, Users, PlaceOK, LockOK, Locking, Unlock, semop, op_unlock, sembuf
  <1>20. CASE err_sys(p)
    BY <1>1, <1>20 DEF CreatorsKeepTheSet, Users, PlaceOK, LockOK, Locking, err_sys, Exit
  <1>21. CASE Killed(p)
    BY <1>1, <1>21 DEF CreatorsKeepTheSet, Users, PlaceOK, LockOK, Locking, Killed, Exit
  <1> QED
    BY ZenonT(40), <1>2, <1>3, <1>4, <1>5, <1>6, <1>7, <1>8, <1>9, <1>10, <1>11, <1>12, <1>13, <1>14, <1>15, <1>16, <1>17, <1>18, <1>19, <1>20, <1>21 DEF Create, Use, Leave

\* No value becomes negative.
LEMMA SemNat ==
    ASSUME Inv, NEW p \in Proc, Create(p) \/ Use(p) \/ Leave(p) PROVE sem' \in [Member -> Nat]
  <1>1. /\ sem \in [Member -> Nat] /\ sem[1] =< BIGCOUNT /\ sem[2] \in {0, 1}
        /\ adj \in [Proc -> [Member -> {-1, 0, 1}]]
    BY Zenon DEF Inv, TypeOK
  <1>2. CASE sem_create(p)
    BY Zenon, <1>1, <1>2 DEF Member, Zero, sem_create, Goto
  <1>3. CASE Lock(p)
    BY <1>1, <1>3 DEF Member, Zero, Lock, semop, op_lock, sembuf
  <1>4. CASE LockSleep(p)
    BY Zenon, <1>1, <1>4 DEF Member, Zero, LockSleep, Goto
  <1>5. CASE LockAgain(p)
    BY Zenon, <1>1, <1>5 DEF Member, Zero, LockAgain
  <1>6. CASE CreateGetVal(p)
    BY Zenon, <1>1, <1>6 DEF Member, Zero, CreateGetVal, Goto
  <1>7. CASE SetVal0(p)
    BY Zenon, <1>1, <1>7, SemaphAssumption DEF Member, SetVal0, Goto, SetVal
  <1>8. CASE SetVal1(p)
    BY Zenon, <1>1, <1>8, SemaphAssumption DEF Member, SetVal1, Goto, SetVal
  <1>9. CASE EndCreate(p)
    BY <1>1, <1>9 DEF Member, Zero, EndCreate, Goto, semop, op_endcreate, sembuf
  <1>10. CASE sem_open(p)
    BY Zenon, <1>1, <1>10 DEF Member, Zero, sem_open, Goto
  <1>11. CASE Open(p)
    BY <1>1, <1>11 DEF Member, Zero, Open, Goto, semop, op_open, sembuf
  <1>12. CASE sem_wait(p)
    BY SMTT(40), <1>1, <1>12 DEF Member, Zero, sem_wait, sem_op, semop, sembuf
  <1>13. CASE sem_signal(p)
    BY <1>1, <1>13 DEF Member, Zero, sem_signal, sem_op, semop, sembuf
  <1>14. CASE sem_rm(p)
    BY Zenon, <1>1, <1>14 DEF Member, Zero, sem_rm, RemoveSem
  <1>15. CASE sem_close(p)
    BY Zenon, <1>1, <1>15 DEF Member, Zero, sem_close, Goto
  <1>16. CASE Close(p)
    BY <1>1, <1>16 DEF Member, Zero, Close, Goto, semop, op_close, sembuf
  <1>17. CASE CloseGetVal(p)
    BY Zenon, <1>1, <1>17 DEF Member, Zero, CloseGetVal, Goto
  <1>18. CASE Rm(p)
    BY Zenon, <1>1, <1>18 DEF Member, Zero, Rm, RemoveSem
  <1>19. CASE Unlock(p)
    BY SMTT(40), <1>1, <1>19 DEF Member, Zero, Unlock, semop, op_unlock, sembuf
  <1>20. ASSUME Exit(p) PROVE sem' \in [Member -> Nat]
    <2>1. \A i \in Member : sem[i] \in Nat /\ adj[p][i] \in {-1, 0, 1}
      BY Zenon, <1>1 DEF Member
    <2>2. sem' = [i \in Member |-> IF sem[i] + adj[p][i] >= 0 THEN sem[i] + adj[p][i] ELSE 0]
      BY Zenon, <1>20 DEF Exit
    <2> QED
      BY <2>1, <2>2
  <1>21. CASE err_sys(p) \/ Killed(p)
    BY Zenon, <1>20, <1>21 DEF err_sys, Killed
  <1> QED
    BY ZenonT(40), <1>2, <1>3, <1>4, <1>5, <1>6, <1>7, <1>8, <1>9, <1>10, <1>11, <1>12, <1>13, <1>14, <1>15, <1>16, <1>17, <1>18, <1>19, <1>20, <1>21 DEF Create, Use, Leave

\* The other variables keep their types.
LEMMA ControlTypes ==
    ASSUME Inv, NEW p \in Proc, Create(p) \/ Use(p) \/ Leave(p) PROVE 
           /\ exists' \in BOOLEAN
           /\ id' \in [Proc -> {"none", "live", "gone"}]
           /\ how' \in [Proc -> {"create", "open"}]
           /\ pc' \in [Proc -> Place]
           /\ hold' \in [Proc -> BOOLEAN]
  <1>1. /\ exists \in BOOLEAN
        /\ id \in [Proc -> {"none", "live", "gone"}]
        /\ how \in [Proc -> {"create", "open"}]
        /\ pc \in [Proc -> Place]
        /\ hold \in [Proc -> BOOLEAN]
    BY Zenon DEF Inv, TypeOK
  <1>2. CASE sem_create(p)
    BY Zenon, <1>1, <1>2 DEF Place, sem_create, Goto
  <1>3. CASE Lock(p)
    BY Zenon, <1>1, <1>3 DEF Place, Lock, semop, op_lock, sembuf
  <1>4. CASE LockSleep(p)
    BY Zenon, <1>1, <1>4 DEF Place, LockSleep, Goto
  <1>5. CASE LockAgain(p)
    BY Zenon, <1>1, <1>5 DEF Place, LockAgain
  <1>6. CASE CreateGetVal(p)
    BY Zenon, <1>1, <1>6 DEF Place, CreateGetVal, Goto
  <1>7. CASE SetVal0(p)
    BY Zenon, <1>1, <1>7 DEF Place, SetVal0, Goto, SetVal
  <1>8. CASE SetVal1(p)
    BY Zenon, <1>1, <1>8 DEF Place, SetVal1, Goto, SetVal
  <1>9. CASE EndCreate(p)
    BY Zenon, <1>1, <1>9 DEF Place, EndCreate, Goto, semop, op_endcreate, sembuf
  <1>10. CASE sem_open(p)
    BY Zenon, <1>1, <1>10 DEF Place, sem_open, Goto
  <1>11. CASE Open(p)
    BY Zenon, <1>1, <1>11 DEF Place, Open, Goto, semop, op_open, sembuf
  <1>12. CASE sem_wait(p)
    BY Zenon, <1>1, <1>12 DEF Place, sem_wait, sem_op, semop, sembuf
  <1>13. CASE sem_signal(p)
    BY Zenon, <1>1, <1>13 DEF Place, sem_signal, sem_op, semop, sembuf
  <1>14. CASE sem_rm(p)
    BY ZenonT(30), <1>1, <1>14 DEF Place, sem_rm, RemoveSem
  <1>15. CASE sem_close(p)
    BY Zenon, <1>1, <1>15 DEF Place, sem_close, Goto
  <1>16. CASE Close(p)
    BY Zenon, <1>1, <1>16 DEF Place, Close, Goto, semop, op_close, sembuf
  <1>17. CASE CloseGetVal(p)
    BY <1>1, <1>17, NoDump DEF Place
  <1>18. CASE Rm(p)
    BY ZenonT(30), <1>1, <1>18 DEF Place, Rm, RemoveSem
  <1>19. CASE Unlock(p)
    BY Zenon, <1>1, <1>19 DEF Place, Unlock, semop, op_unlock, sembuf
  <1>20. CASE err_sys(p)
    BY Zenon, <1>1, <1>20 DEF Place, err_sys, Exit
  <1>21. CASE Killed(p)
    BY Zenon, <1>1, <1>21 DEF Place, Killed, Exit
  <1> QED
    BY ZenonT(40), <1>2, <1>3, <1>4, <1>5, <1>6, <1>7, <1>8, <1>9, <1>10, <1>11, <1>12, <1>13, <1>14, <1>15, <1>16, <1>17, <1>18, <1>19, <1>20, <1>21 DEF Create, Use, Leave

\* Each call keeps the types.
LEMMA TypeStep ==
    ASSUME Inv, NEW p \in Proc, Create(p) \/ Use(p) \/ Leave(p) PROVE TypeOK'
  <1>1. Cardinality(Users') \in Nat
    <2>1. Users' \subseteq Proc
      BY Zenon DEF Users
    <2> QED
      BY Zenon, <2>1, FS_Subset, FS_CardinalityType, SemaphAssumption
  <1>2. sem'[1] =< BIGCOUNT
    BY <1>1, CountStep, SemaphAssumption DEF CountOK, Fresh, Ready
  <1> QED
    BY Zenon, <1>2, ControlTypes, AdjStep, LockStep, SemNat DEF TypeOK

\* No set exists in the beginning.
LEMMA InitInv == Init => Inv
  <1> SUFFICES ASSUME Init PROVE Inv
    BY Zenon
  <1>1. TypeOK
    <2>1. Zero \in [Member -> Nat] /\ Zero \in [Member -> {-1, 0, 1}] /\ Zero[1] = 0 /\ Zero[2] = 0
      BY DEF Zero, Member
    <2>2. exists \in BOOLEAN /\ hold \in [Proc -> BOOLEAN]
      BY ZenonT(30) DEF Init
    <2>3. /\ id \in [Proc -> {"none", "live", "gone"}] /\ how \in [Proc -> {"create", "open"}]
          /\ pc \in [Proc -> Place]
      BY Zenon DEF Init, Place
    <2>4. /\ sem \in [Member -> Nat] /\ sem[1] =< BIGCOUNT /\ sem[2] \in {0, 1}
          /\ adj \in [Proc -> [Member -> {-1, 0, 1}]]
      BY <2>1, SemaphAssumption DEF Init
    <2> QED
      BY Zenon, <2>2, <2>3, <2>4 DEF TypeOK
  <1>2. PlaceOK /\ AdjOK /\ LockOK /\ CreatorsKeepTheSet
    BY DEF Init, PlaceOK, AdjOK, LockOK, CreatorsKeepTheSet, Zero, Member
  <1>3. CountOK
    BY DEF Init, CountOK, Fresh, Users, Zero, Member
  <1> QED
    BY Zenon, <1>1, <1>2, <1>3 DEF Inv

\* Each call keeps the invariant.
LEMMA NextInv == Inv /\ [Next]_vars => Inv'
  <1> SUFFICES ASSUME Inv, [Next]_vars PROVE Inv'
    BY Zenon
  <1>1. CASE Next
    BY Zenon, <1>1, TypeStep, PlaceStep, AdjStep, LockStep, CountStep, CreatorsStep DEF Next, Inv
  <1>2. CASE UNCHANGED vars
    <2> USE <1>2 DEF vars, Inv
    <2>1. TypeOK' /\ PlaceOK' /\ AdjOK' /\ LockOK'
      BY Zenon DEF TypeOK, PlaceOK, AdjOK, LockOK
    <2>2. CountOK' /\ CreatorsKeepTheSet'
      BY Zenon DEF CountOK, Fresh, Ready, Users, Holders, CreatorsKeepTheSet
    <2> QED
      BY Zenon, <2>1, <2>2
  <1> QED
    BY Zenon, <1>1, <1>2

-----------------------------------------------------------------------------
\* The inductive invariant holds in every state.
THEOREM Invariance == Spec => []Inv
  BY InitInv, NextInv, PTL DEF Spec

\* Types: in particular sem_close never finds a counter above BIGCOUNT.
THEOREM SemTypes == Spec => []TypeOK
  <1>1. Inv => TypeOK
    BY Zenon DEF Inv
  <1> QED
    BY <1>1, Invariance, PTL

\* sem_wait and sem_signal exclude, whoever is killed and where.
THEOREM SemExclusion == Spec => []Exclusion
  <1>1. Inv => Exclusion
    <2> SUFFICES ASSUME Inv PROVE Exclusion
      BY Zenon
    <2>1. CASE Fresh
      BY <2>1, UsersBound, SemaphAssumption DEF Exclusion
    <2>2. CASE Ready
      BY SMTT(30), <2>2, UsersBound, SemaphAssumption DEF Exclusion, Ready, Inv, TypeOK, Member
    <2> QED
      BY Zenon, <2>1, <2>2 DEF Inv, CountOK
  <1> QED
    BY <1>1, Invariance, PTL

\* The adjust values bring an unused set back to its initial values.
THEOREM SemUndo == Spec => []UndoIsExact
  <1>1. Inv => UndoIsExact
    <2> SUFFICES ASSUME Inv, exists, \A p \in Proc : pc[p] \in {"new", "lock", "lock_wait", "open"}
                 PROVE  sem[2] = 0 /\ (sem[1] = 0 \/ (sem[1] = BIGCOUNT /\ sem[0] = InitVal))
      BY Zenon DEF UndoIsExact
    <2>1. sem[2] = 0
      BY Zenon DEF Inv, TypeOK, LockOK, Locking
    <2>2. Users = {} /\ Holders = {}
      BY Zenon, UsersBound DEF Users
    <2>3. Ready => sem[1] = BIGCOUNT /\ sem[0] = InitVal
      BY <2>2, UsersBound, SemaphAssumption DEF Ready
    <2> QED
      BY Zenon, <2>1, <2>3 DEF Inv, CountOK, Fresh
  <1> QED
    BY <1>1, Invariance, PTL

\* A set that somebody uses is not initialized again.
THEOREM SemInitializedOnce == Spec => []InitializedOnce
  <1>1. Inv => InitializedOnce
    BY Zenon DEF Inv, CountOK, Fresh, InitializedOnce
  <1> QED
    BY <1>1, Invariance, PTL

\* Who came in through sem_create does not lose the set to a sem_close.
THEOREM SemCreatorsKeep == Spec => []CreatorsKeepTheSet
  <1>1. Inv => CreatorsKeepTheSet
    BY Zenon DEF Inv
  <1> QED
    BY <1>1, Invariance, PTL

-----------------------------------------------------------------------------
(***************************************************************************)
(* SignalCalls: what a call changes, and where it is changed back.         *)
(***************************************************************************)
\* What a signal may be set to.
Disp == {"DFL", "IGN", "own"}
\* What is saved of the caller: dispositions and mask.
Saved == [disp : [Sig -> Disp], mask : SUBSET Sig]
\* The states of the child of system.
ChildAt == {"none", "restore INT", "restore QUIT", "execl", "exec", "zombie", "gone"}

\* The places of each function and program.
Places == [system |-> {"ignore INT", "ignore QUIT", "block CHLD", "fork child", "waitpid",
                       "restore INT", "restore QUIT", "restore mask", "return"},
           sleep |-> {"catch ALRM", "block ALRM", "alarm", "sigsuspend", "alarm off", "restore ALRM",
                      "restore mask", "return"},
           abort |-> {"check ABRT", "unblock ABRT", "kill", "default ABRT", "kill again", "exit"},
           suspend2 |-> {"block QUIT", "test quitflag", "suspend QUIT", "unblock QUIT", "exit"},
           waitpid |-> {"fork", "test live", "pause", "exit"}]

\* The types, and what holds for all of them.
SigTypes ==
    /\ scprog \in DOMAIN First /\ at \in Places[scprog]
    /\ disp \in [Sig -> Disp] /\ old \in Saved /\ was \in Saved
    /\ child \in [st : ChildAt, disp : [Sig -> Disp]]
    /\ kids \in [1 .. NKids -> {"none", "run", "zombie", "gone"}]
    /\ scprog # "system" => child.st = "none"
    /\ scprog = "suspend2" => mask \subseteq Sig
    /\ fate = "returned" => at = "return"

\* Where system ignores SIGINT and SIGQUIT, and where SIGCHLD is blocked.
IntIgnored == {"ignore QUIT", "block CHLD", "fork child", "waitpid", "restore INT"}
QuitIgnored == {"block CHLD", "fork child", "waitpid", "restore INT", "restore QUIT"}
ChldBlocked == {"fork child", "waitpid", "restore INT", "restore QUIT", "restore mask"}
\* Before its fork, and after its waitpid.
BeforeFork == {"ignore INT", "ignore QUIT", "block CHLD", "fork child"}
AfterWait == {"restore INT", "restore QUIT", "restore mask", "return"}

\* The dispositions of the caller while system runs, and of its child.
SystemDisp(s) ==
    IF (s = "INT" /\ at \in IntIgnored) \/ (s = "QUIT" /\ at \in QuitIgnored) THEN "IGN" ELSE was.disp[s]
ChildDisp(s) ==
    IF (s = "INT" /\ child.st = "restore INT") \/ (s = "QUIT" /\ child.st \in {"restore INT", "restore QUIT"})
    THEN "IGN" ELSE was.disp[s]

\* system: what was saved is the caller's, SIGCHLD is blocked while there may
\* be a child to wait for, so that nobody else reaps it.
SystemInv ==
    scprog = "system" =>
        /\ dozing = NotDozing
        /\ old.mask = was.mask /\ \A s \in Sig : old.disp[s] = was.disp[s]
        /\ \A s \in Sig : disp[s] = SystemDisp(s)
        /\ mask = IF at \in ChldBlocked THEN was.mask \cup {"CHLD"} ELSE was.mask
        /\ child.st \in {"restore INT", "restore QUIT", "execl"} => \A s \in Sig : child.disp[s] = ChildDisp(s)
        /\ child.st = "exec" => child.disp = AfterExec(was.disp)
        /\ at \in BeforeFork => child.st = "none"
        /\ at = "waitpid" => child.st \notin {"none", "gone"}
        /\ at \in AfterWait => child.st = "none" \/ (child.st = "gone" /\ result = "status")

\* sleep: the same for SIGALRM.
AlrmCaught == {"block ALRM", "alarm", "sigsuspend", "alarm off", "restore ALRM"}
AlrmBlocked == {"alarm", "sigsuspend", "alarm off", "restore ALRM", "restore mask"}
SleepInv ==
    scprog = "sleep" =>
        /\ old.mask = was.mask /\ \A s \in Sig : old.disp[s] = was.disp[s]
        /\ \A s \in Sig : disp[s] = IF s = "ALRM" /\ at \in AlrmCaught THEN "own" ELSE was.disp[s]
        /\ mask = IF at \in AlrmBlocked THEN was.mask \cup {"ALRM"} ELSE was.mask

\* abort: SIGABRT is not pending before the first kill, is not ignored then,
\* and after the second one, with the default action, it is sure to come.
AbortInv ==
    scprog = "abort" =>
        /\ dozing = NotDozing
        /\ at \in {"check ABRT", "unblock ABRT", "kill"} => "ABRT" \notin pend
        /\ at \in {"unblock ABRT", "kill", "default ABRT"} =>
              disp["ABRT"] # "IGN" /\ (disp["ABRT"] = "DFL" => flushed)
        /\ at \in {"kill again", "exit"} => flushed /\ disp["ABRT"] = "DFL" /\ mask = Sig \ {"ABRT"}
        /\ at = "exit" => fate = "ABRT" \/ (fate = "" /\ "ABRT" \in pend)
        /\ fate = "ABRT" => flushed

\* waitpid: SIGCHLD has its handler, and is pending while there is a zombie.
WaitInv ==
    scprog = "waitpid" =>
        /\ disp["CHLD"] = "own"
        /\ fate = "" /\ (\E k \in 1 .. NKids : kids[k] = "zombie") => "CHLD" \in pend

\* The inductive invariant.
SigInv == SigTypes /\ SystemInv /\ SleepInv /\ AbortInv /\ WaitInv


\* The first place and all places of each program.
LEMMA PlacesAre ==
    /\ First["system"] = "ignore INT" /\ First["sleep"] = "catch ALRM" /\ First["abort"] = "check ABRT"
    /\ First["suspend2"] = "block QUIT" /\ First["waitpid"] = "fork"
    /\ Places["system"] = {"ignore INT", "ignore QUIT", "block CHLD", "fork child", "waitpid",
                           "restore INT", "restore QUIT", "restore mask", "return"}
    /\ Places["sleep"] = {"catch ALRM", "block ALRM", "alarm", "sigsuspend", "alarm off", "restore ALRM",
                          "restore mask", "return"}
    /\ Places["abort"] = {"check ABRT", "unblock ABRT", "kill", "default ABRT", "kill again", "exit"}
    /\ Places["suspend2"] = {"block QUIT", "test quitflag", "suspend QUIT", "unblock QUIT", "exit"}
    /\ Places["waitpid"] = {"fork", "test live", "pause", "exit"}
BY DEF First, Places

\* A place tells the program, but for the last calls, which are shared.
LEMMA PlaceOf ==
    ASSUME SigTypes
    PROVE  /\ at \in BeforeFork \cup {"waitpid", "restore INT", "restore QUIT"} => scprog = "system"
           /\ at \in AlrmCaught \cup {"catch ALRM"} => scprog = "sleep"
           /\ at \in {"restore mask", "return"} => scprog \in {"system", "sleep"}
           /\ at \in {"check ABRT", "unblock ABRT", "kill", "default ABRT", "kill again"} => scprog = "abort"
           /\ at \in {"block QUIT", "test quitflag", "suspend QUIT", "unblock QUIT"} => scprog = "suspend2"
           /\ at \in {"fork", "test live", "pause"} => scprog = "waitpid"
           /\ at = "exit" => scprog \notin {"system", "sleep"}
<1>1. scprog \in {"system", "sleep", "abort", "suspend2", "waitpid"}
  BY DEF SigTypes, First
<1>2. at \in Places[scprog]
  BY DEF SigTypes
<1>3. CASE scprog = "system"
  BY Zenon, <1>2, <1>3, PlacesAre DEF BeforeFork, AlrmCaught
<1>4. CASE scprog = "sleep"
  BY Zenon, <1>2, <1>4, PlacesAre DEF BeforeFork, AlrmCaught
<1>5. CASE scprog = "abort"
  BY Zenon, <1>2, <1>5, PlacesAre DEF BeforeFork, AlrmCaught
<1>6. CASE scprog = "suspend2"
  BY Zenon, <1>2, <1>6, PlacesAre DEF BeforeFork, AlrmCaught
<1>7. CASE scprog = "waitpid"
  BY Zenon, <1>2, <1>7, PlacesAre DEF BeforeFork, AlrmCaught
<1> QED BY Zenon, <1>1, <1>3, <1>4, <1>5, <1>6, <1>7

\* A system call of system: the caller has not been killed, and keeps what the
\* other programs promise because they do not run.
LEMMA OnlySystem ==
    ASSUME scprog = "system", scprog' = scprog
    PROVE  SleepInv' /\ AbortInv' /\ WaitInv'
BY DEF SleepInv, AbortInv, WaitInv

\* The same for sleep, abort, waitpid.c and suspend2.c.
LEMMA OnlySleep ==
    ASSUME scprog = "sleep", scprog' = scprog
    PROVE  SystemInv' /\ AbortInv' /\ WaitInv'
BY DEF SystemInv, AbortInv, WaitInv

LEMMA OnlyAbort ==
    ASSUME scprog = "abort", scprog' = scprog
    PROVE  SystemInv' /\ SleepInv' /\ WaitInv'
BY DEF SystemInv, SleepInv, WaitInv

LEMMA OnlyWait ==
    ASSUME scprog = "waitpid", scprog' = scprog
    PROVE  SystemInv' /\ SleepInv' /\ AbortInv'
BY DEF SystemInv, SleepInv, AbortInv

LEMMA OnlySuspend ==
    ASSUME scprog = "suspend2", scprog' = scprog
    PROVE  SystemInv' /\ SleepInv' /\ AbortInv' /\ WaitInv'
BY DEF SystemInv, SleepInv, AbortInv, WaitInv

\* The initial states.
LEMMA SigInitOK == scInit => SigInv
<1> SUFFICES ASSUME scInit PROVE SigInv
  OBVIOUS
<1>1. scprog \in {"system", "sleep", "abort", "suspend2", "waitpid"} /\ DOMAIN First = {"system", "sleep", "abort", "suspend2", "waitpid"}
  BY Zenon DEF scInit, scInitOf, First
<1>2. disp \in [Sig -> Disp] /\ (scprog = "waitpid" => disp["CHLD"] = "own") /\ mask \subseteq Sig
  BY Zenon DEF scInit, scInitOf, CallerDisp, Disp, Sig
<1>3. was = [disp |-> disp, mask |-> mask] /\ old = was /\ pend = {} /\ dozing = NotDozing /\ fate = ""
      /\ child.st = "none" /\ child \in [st : ChildAt, disp : [Sig -> Disp]]
  BY Zenon DEF scInit, scInitOf, NoChild, ChildAt, Disp
<1>4. at \in Places[scprog]
  <2>1. at = First[scprog]
    BY Zenon DEF scInit, scInitOf
  <2> QED BY Zenon, <1>1, <2>1, PlacesAre
<1>5. kids \in [1 .. NKids -> {"none", "run", "zombie", "gone"}] /\ (scprog = "waitpid" => \A k \in 1 .. NKids : kids[k] = "none")
  BY Zenon DEF scInit, scInitOf
<1>6. /\ scprog = "system" => at = "ignore INT"
      /\ scprog = "sleep" => at = "catch ALRM"
      /\ scprog = "abort" => at = "check ABRT"
  BY Zenon, PlacesAre DEF scInit, scInitOf
<1>7. SigTypes
  BY Zenon, <1>1, <1>2, <1>3, <1>4, <1>5 DEF SigTypes, Saved
<1>8. SystemInv
  BY Zenon, <1>2, <1>3, <1>6 DEF SystemInv, SystemDisp, IntIgnored, QuitIgnored, ChldBlocked, BeforeFork, AfterWait
<1>9. SleepInv
  BY Zenon, <1>2, <1>3, <1>6 DEF SleepInv, AlrmCaught, AlrmBlocked
<1>10. AbortInv
  BY Zenon, <1>3, <1>6 DEF AbortInv
<1>11. WaitInv
  BY Zenon, <1>2, <1>5 DEF WaitInv
<1> QED BY <1>7, <1>8, <1>9, <1>10, <1>11 DEF SigInv

\* The calls of system.
LEMMA SystemSteps ==
    ASSUME SigInv, IgnoreIntr \/ IgnoreQuit \/ BlockChld \/ ForkChild \/ WaitChild \/ RestoreIntr \/ RestoreQuit
    PROVE  SigInv'
<1>1. scprog = "system" /\ scprog' = scprog /\ fate = "" /\ fate' = "" /\ was' = was /\ dozing' = NotDozing
  BY Zenon, PlaceOf DEF SigInv, IgnoreIntr, IgnoreQuit, BlockChld, ForkChild, WaitChild, RestoreIntr, RestoreQuit,
                 Goes, Rest, Same, BeforeFork
<1>2. SigTypes /\ SystemInv
  BY DEF SigInv
<1>3. /\ disp \in [Sig -> Disp] /\ old \in Saved /\ was \in Saved /\ kids' = kids
      /\ child \in [st : ChildAt, disp : [Sig -> Disp]]
      /\ {"INT", "QUIT"} \subseteq Sig /\ "IGN" \in Disp
  BY Zenon, <1>2 DEF SigTypes, Sig, Disp, IgnoreIntr, IgnoreQuit, BlockChld, ForkChild, WaitChild, RestoreIntr, RestoreQuit, local
<1>4. SigTypes'
  <2>1. disp' \in [Sig -> Disp]
    BY ZenonT(40), <1>3 DEF IgnoreIntr, IgnoreQuit, BlockChld, ForkChild, WaitChild, RestoreIntr, RestoreQuit, SetDisp, Saved
  <2>2. old' \in Saved
    <3>1. old' = old \/ \E s \in {"INT", "QUIT"} : old' = [old EXCEPT !.disp[s] = disp[s]] \/ old' = [old EXCEPT !.mask = mask]
      BY Zenon DEF IgnoreIntr, IgnoreQuit, BlockChld, ForkChild, WaitChild, RestoreIntr, RestoreQuit, local
    <3>2. mask \subseteq Sig
      <4>1. was.mask \subseteq Sig
        BY <1>3 DEF Saved
      <4>2. "CHLD" \in Sig
        BY DEF Sig
      <4> QED BY Zenon, <1>1, <1>2, <4>1, <4>2 DEF SystemInv
    <3> QED BY <1>3, <3>1, <3>2 DEF Saved
  <2>3. child' \in [st : ChildAt, disp : [Sig -> Disp]]
    <3>1. child' = child \/ child' = [st |-> "restore INT", disp |-> disp] \/ child' = [child EXCEPT !.st = "gone"]
      BY Zenon DEF IgnoreIntr, IgnoreQuit, BlockChld, ForkChild, WaitChild, RestoreIntr, RestoreQuit, local
    <3>2. {"restore INT", "gone"} \subseteq ChildAt
      BY DEF ChildAt
    <3>3. [st |-> "restore INT", disp |-> disp] \in [st : ChildAt, disp : [Sig -> Disp]]
      BY Zenon, <1>3, <3>2
    <3>4. [child EXCEPT !.st = "gone"] \in [st : ChildAt, disp : [Sig -> Disp]]
      BY Zenon, <1>3, <3>2
    <3> QED BY Zenon, <1>3, <3>1, <3>3, <3>4
  <2>4. at' \in Places["system"]
    BY Zenon DEF IgnoreIntr, IgnoreQuit, BlockChld, ForkChild, WaitChild, RestoreIntr, RestoreQuit, Goes, Places
  <2> QED BY Zenon, <1>1, <1>2, <1>3, <2>1, <2>2, <2>3, <2>4 DEF SigTypes
<1>5. SystemInv'
  <2>1. /\ old.mask = was.mask /\ \A s \in Sig : old.disp[s] = was.disp[s]
        /\ \A s \in Sig : disp[s] = SystemDisp(s)
        /\ mask = IF at \in ChldBlocked THEN was.mask \cup {"CHLD"} ELSE was.mask
        /\ at \in BeforeFork => child.st = "none"
        /\ at = "waitpid" => child.st \notin {"none", "gone"}
        /\ at \in AfterWait => child.st = "none" \/ (child.st = "gone" /\ result = "status")
        /\ child.st \in {"restore INT", "restore QUIT", "execl"} => \A s \in Sig : child.disp[s] = ChildDisp(s)
        /\ child.st = "exec" => child.disp = AfterExec(was.disp)
    BY Zenon, <1>1, <1>2 DEF SystemInv
  <2> USE DEF SystemDisp, IntIgnored, QuitIgnored, ChldBlocked, BeforeFork, AfterWait
  <2>2. CASE IgnoreIntr
    <3>1. at = "ignore INT" /\ at' = "ignore QUIT" /\ disp' = [disp EXCEPT !["INT"] = "IGN"] /\ mask' = mask /\ child' = child
          /\ old' = [old EXCEPT !.disp["INT"] = disp["INT"]]
      BY Zenon, <2>2 DEF IgnoreIntr, Goes, SetDisp
    <3> QED BY Zenon, <1>1, <1>3, <2>1, <3>1 DEF SystemInv, Saved
  <2>3. CASE IgnoreQuit
    <3>1. at = "ignore QUIT" /\ at' = "block CHLD" /\ disp' = [disp EXCEPT !["QUIT"] = "IGN"] /\ mask' = mask /\ child' = child
          /\ old' = [old EXCEPT !.disp["QUIT"] = disp["QUIT"]]
      BY Zenon, <2>3 DEF IgnoreQuit, Goes, SetDisp
    <3> QED BY Zenon, <1>1, <1>3, <2>1, <3>1 DEF SystemInv, Saved
  <2>4. CASE BlockChld
    <3>1. at = "block CHLD" /\ at' = "fork child" /\ disp' = disp /\ mask' = mask \cup {"CHLD"} /\ child' = child
          /\ old' = [old EXCEPT !.mask = mask]
      BY Zenon, <2>4 DEF BlockChld, Goes
    <3> QED BY Zenon, <1>1, <1>3, <2>1, <3>1 DEF SystemInv, Saved
  <2>5. CASE ForkChild
    <3>1. at = "fork child" /\ disp' = disp /\ mask' = mask /\ old' = old
          /\ \/ at' = "waitpid" /\ child' = [st |-> "restore INT", disp |-> disp]
             \/ at' = "restore INT" /\ child' = child
      BY Zenon, <2>5 DEF ForkChild, Goes
    <3>2. CASE at' = "restore INT" /\ child' = child
      BY Zenon, <1>1, <1>3, <2>1, <3>1, <3>2 DEF SystemInv
    <3>3. CASE at' = "waitpid" /\ child' = [st |-> "restore INT", disp |-> disp]
      <4>1. child'.st = "restore INT" /\ child'.disp = disp
        BY Zenon, <3>3
      <4>2. \A s \in Sig : child'.disp[s] = ChildDisp(s)'
        BY Zenon, <1>1, <2>1, <3>1, <4>1 DEF ChildDisp
      <4>3. \A s \in Sig : disp'[s] = SystemDisp(s)'
        BY Zenon, <1>1, <2>1, <3>1, <3>3
      <4> QED BY Zenon, <1>1, <2>1, <3>1, <3>3, <4>1, <4>2, <4>3 DEF SystemInv
    <3> QED BY Zenon, <3>1, <3>2, <3>3
  <2>6. CASE WaitChild
    <3>1. at = "waitpid" /\ at' = "restore INT" /\ disp' = disp /\ mask' = mask /\ old' = old
          /\ child.st \in {"zombie", "gone"} /\ result' = (IF child.st = "zombie" THEN "status" ELSE "-1")
          /\ child' = [child EXCEPT !.st = "gone"]
      BY Zenon, <2>6 DEF WaitChild, Goes
    <3> QED BY Zenon, <1>1, <1>3, <2>1, <3>1 DEF SystemInv, Saved
  <2>7. CASE RestoreIntr
    <3>1. at = "restore INT" /\ at' = "restore QUIT" /\ disp' = [disp EXCEPT !["INT"] = old.disp["INT"]] /\ mask' = mask
          /\ child' = child /\ old' = old /\ result' = result
      BY Zenon, <2>7 DEF RestoreIntr, Goes, SetDisp, local
    <3> QED BY Zenon, <1>1, <1>3, <2>1, <3>1 DEF SystemInv, Saved
  <2>8. CASE RestoreQuit
    <3>1. at = "restore QUIT" /\ at' = "restore mask" /\ disp' = [disp EXCEPT !["QUIT"] = old.disp["QUIT"]] /\ mask' = mask
          /\ child' = child /\ old' = old /\ result' = result
      BY Zenon, <2>8 DEF RestoreQuit, Goes, SetDisp, local
    <3> QED BY Zenon, <1>1, <1>3, <2>1, <3>1 DEF SystemInv, Saved
  <2> QED BY SMTT(40), <2>2, <2>3, <2>4, <2>5, <2>6, <2>7, <2>8
<1> QED BY Zenon, <1>1, <1>4, <1>5, OnlySystem DEF SigInv

\* The last calls of system and sleep.
LEMMA ReturnSteps ==
    ASSUME SigInv, RestoreMask \/ Return
    PROVE  SigInv'
<1>1. /\ scprog \in {"system", "sleep"} /\ scprog' = scprog /\ fate = "" /\ was' = was /\ dozing' = NotDozing /\ dozing = NotDozing
      /\ at \in {"restore mask", "return"} /\ at' = "return" /\ disp' = disp /\ old' = old /\ child' = child
      /\ kids' = kids /\ result' = result
      /\ \/ at = "restore mask" /\ mask' = old.mask
         \/ at = "return" /\ mask' = mask
  BY Zenon, PlaceOf DEF SigInv, RestoreMask, Return, Goes, Rest, Same, local, kernel
<1>2. SigTypes'
  <2>1. at' \in Places[scprog]
    BY Zenon, <1>1, PlacesAre
  <2> QED BY Zenon, <1>1, <2>1 DEF SigInv, SigTypes
<1>3. CASE scprog = "system"
  <2>1. SystemInv'
    <3>1. SystemInv /\ was'.disp = was.disp /\ was'.mask = was.mask
      BY Zenon, <1>1 DEF SigInv
    <3>2. \A s \in Sig : SystemDisp(s) = was.disp[s] /\ SystemDisp(s)' = was.disp[s]
      BY Zenon, <1>1 DEF SystemDisp, IntIgnored, QuitIgnored
    <3>3. mask' = was.mask
      BY Zenon, <1>1, <1>3, <3>1 DEF SystemInv, ChldBlocked
    <3> QED BY Zenon, <1>1, <1>3, <3>1, <3>2, <3>3 DEF SystemInv, ChldBlocked, AfterWait, BeforeFork, ChildDisp
  <2> QED BY Zenon, <1>1, <1>2, <1>3, <2>1, OnlySystem DEF SigInv
<1>4. CASE scprog = "sleep"
  <2>1. SleepInv'
    <3>1. SleepInv
      BY DEF SigInv
    <3> QED BY Zenon, <1>1, <1>4, <3>1 DEF SleepInv, AlrmCaught, AlrmBlocked
  <2> QED BY Zenon, <1>1, <1>2, <1>4, <2>1, OnlySleep DEF SigInv
<1> QED BY Zenon, <1>1, <1>3, <1>4

\* The calls of sleep.
LEMMA SleepSteps ==
    ASSUME SigInv, CatchAlrm \/ BlockAlrm \/ SetAlarm \/ Suspend \/ AlarmOff \/ RestoreAlrm
    PROVE  SigInv'
<1>1. scprog = "sleep" /\ scprog' = scprog /\ fate = "" /\ fate' = "" /\ was' = was /\ child' = child /\ kids' = kids
  BY Zenon, PlaceOf DEF SigInv, CatchAlrm, BlockAlrm, SetAlarm, Suspend, AlarmOff, RestoreAlrm,
                 Goes, Rest, Same, local, AlrmCaught
<1>2. SigTypes /\ SleepInv
  BY DEF SigInv
<1>3. /\ disp \in [Sig -> Disp] /\ old \in Saved /\ was \in Saved /\ "ALRM" \in Sig /\ "own" \in Disp
  BY <1>2 DEF SigTypes, Sig, Disp
<1>4. /\ old.mask = was.mask /\ \A s \in Sig : old.disp[s] = was.disp[s]
      /\ \A s \in Sig : disp[s] = IF s = "ALRM" /\ at \in AlrmCaught THEN "own" ELSE was.disp[s]
      /\ mask = IF at \in AlrmBlocked THEN was.mask \cup {"ALRM"} ELSE was.mask
  BY Zenon, <1>1, <1>2 DEF SleepInv
<1>5. \/ CatchAlrm /\ at = "catch ALRM" /\ at' = "block ALRM" /\ disp' = [disp EXCEPT !["ALRM"] = "own"] /\ mask' = mask
         /\ old' = [old EXCEPT !.disp["ALRM"] = disp["ALRM"]]
      \/ BlockAlrm /\ at = "block ALRM" /\ at' = "alarm" /\ disp' = disp /\ mask' = mask \cup {"ALRM"}
         /\ old' = [old EXCEPT !.mask = mask]
      \/ /\ <<at, at'>> \in {<<"alarm", "sigsuspend">>, <<"sigsuspend", "alarm off">>, <<"alarm off", "restore ALRM">>}
         /\ disp' = disp /\ mask' = mask /\ old' = old
      \/ RestoreAlrm /\ at = "restore ALRM" /\ at' = "restore mask" /\ disp' = [disp EXCEPT !["ALRM"] = old.disp["ALRM"]]
         /\ mask' = mask /\ old' = old
  BY ZenonT(40) DEF CatchAlrm, BlockAlrm, SetAlarm, Suspend, AlarmOff, RestoreAlrm, Goes, SetDisp, local, kernel
<1>6. SigTypes'
  <2>1. was.mask \subseteq Sig /\ old.disp["ALRM"] \in Disp
    BY <1>3 DEF Saved
  <2>2. mask \subseteq Sig
    BY Zenon, <1>3, <1>4, <2>1
  <2>3. disp' \in [Sig -> Disp]
    BY Zenon, <1>3, <1>5, <2>1
  <2>4. old' \in Saved
    <3>1. [old EXCEPT !.disp["ALRM"] = disp["ALRM"]] \in Saved
      BY <1>3 DEF Saved
    <3>2. [old EXCEPT !.mask = mask] \in Saved
      BY <1>3, <2>2 DEF Saved
    <3> QED BY Zenon, <1>3, <1>5, <3>1, <3>2
  <2>5. at' \in Places["sleep"]
    BY Zenon, <1>5, PlacesAre
  <2> QED BY Zenon, <1>1, <1>2, <2>3, <2>4, <2>5 DEF SigTypes
<1>7. SleepInv'
  <2>1. CASE CatchAlrm /\ at = "catch ALRM" /\ at' = "block ALRM" /\ disp' = [disp EXCEPT !["ALRM"] = "own"] /\ mask' = mask
             /\ old' = [old EXCEPT !.disp["ALRM"] = disp["ALRM"]]
    BY Zenon, <1>1, <1>3, <1>4, <2>1 DEF SleepInv, Saved, AlrmCaught, AlrmBlocked
  <2>2. CASE BlockAlrm /\ at = "block ALRM" /\ at' = "alarm" /\ disp' = disp /\ mask' = mask \cup {"ALRM"}
             /\ old' = [old EXCEPT !.mask = mask]
    BY Zenon, <1>1, <1>3, <1>4, <2>2 DEF SleepInv, Saved, AlrmCaught, AlrmBlocked
  <2>3. CASE /\ <<at, at'>> \in {<<"alarm", "sigsuspend">>, <<"sigsuspend", "alarm off">>, <<"alarm off", "restore ALRM">>}
             /\ disp' = disp /\ mask' = mask /\ old' = old
    <3>1. at \in AlrmCaught \cap AlrmBlocked /\ at' \in AlrmCaught \cap AlrmBlocked
      BY Zenon, <2>3 DEF AlrmCaught, AlrmBlocked
    <3> QED BY Zenon, <1>1, <1>4, <2>3, <3>1 DEF SleepInv
  <2>4. CASE RestoreAlrm /\ at = "restore ALRM" /\ at' = "restore mask" /\ disp' = [disp EXCEPT !["ALRM"] = old.disp["ALRM"]]
             /\ mask' = mask /\ old' = old
    BY Zenon, <1>1, <1>3, <1>4, <2>4 DEF SleepInv, Saved, AlrmCaught, AlrmBlocked
  <2> QED BY Zenon, <1>5, <2>1, <2>2, <2>3, <2>4
<1> QED BY Zenon, <1>1, <1>6, <1>7, OnlySleep DEF SigInv

\* The calls of abort.
LEMMA AbortSteps ==
    ASSUME SigInv, CheckAbrt \/ UnblockAbrt \/ KillSelf \/ DefaultAbrt \/ KillAgain
    PROVE  SigInv'
<1>1. scprog = "abort" /\ scprog' = scprog /\ fate = "" /\ fate' = "" /\ was' = was /\ child' = child /\ kids' = kids
      /\ old' = old /\ dozing' = NotDozing
  BY Zenon, PlaceOf DEF SigInv, CheckAbrt, UnblockAbrt, KillSelf, DefaultAbrt, KillAgain, Goes, Rest, Same, local
<1>2. SigTypes /\ AbortInv
  BY DEF SigInv
<1>3. disp \in [Sig -> Disp] /\ "ABRT" \in Sig /\ "DFL" \in Disp
  BY <1>2 DEF SigTypes, Sig, Disp
<1>4. SigTypes'
  <2>1. disp' \in [Sig -> Disp]
    BY Zenon, <1>3 DEF CheckAbrt, UnblockAbrt, KillSelf, DefaultAbrt, KillAgain, SetDisp
  <2>2. at' \in Places["abort"]
    BY Zenon, PlacesAre DEF CheckAbrt, UnblockAbrt, KillSelf, DefaultAbrt, KillAgain, Goes
  <2> QED BY Zenon, <1>1, <1>2, <2>1, <2>2 DEF SigTypes
<1>5. AbortInv'
  <2>1. /\ at \in {"check ABRT", "unblock ABRT", "kill"} => "ABRT" \notin pend
        /\ at \in {"unblock ABRT", "kill", "default ABRT"} =>
              disp["ABRT"] # "IGN" /\ (disp["ABRT"] = "DFL" => flushed)
        /\ at \in {"kill again", "exit"} => flushed /\ disp["ABRT"] = "DFL" /\ mask = Sig \ {"ABRT"}
    BY Zenon, <1>1, <1>2 DEF AbortInv
  <2>2. CASE CheckAbrt
    BY Zenon, <1>1, <1>3, <2>1, <2>2 DEF CheckAbrt, Goes, Rest, SetDisp, AbortInv, Disp
  <2>3. CASE UnblockAbrt
    BY Zenon, <1>1, <1>3, <2>1, <2>3 DEF UnblockAbrt, Goes, Rest, AbortInv, local
  <2>4. CASE KillSelf
    BY Zenon, <1>1, <1>3, <2>1, <2>4 DEF KillSelf, Goes, AbortInv, local
  <2>5. CASE DefaultAbrt
    BY Zenon, <1>1, <1>3, <2>1, <2>5 DEF DefaultAbrt, Goes, Rest, SetDisp, AbortInv
  <2>6. CASE KillAgain
    BY Zenon, <1>1, <1>3, <2>1, <2>6 DEF KillAgain, Goes, AbortInv, local, Gen, Ignored
  <2> QED BY <2>2, <2>3, <2>4, <2>5, <2>6
<1> QED BY Zenon, <1>1, <1>4, <1>5, OnlyAbort DEF SigInv

\* The end of abort, which is never reached, of suspend2 and of waitpid.
LEMMA ExitStep ==
    ASSUME SigInv, ExitProcess
    PROVE  SigInv'
<1>1. /\ at = "exit" /\ at' = "exit" /\ fate = "" /\ fate' = "exited" /\ dozing = NotDozing /\ Deliverable = {}
      /\ UNCHANGED <<scprog, was, disp, mask, pend, dozing, old, child, kids, flushed>>
  BY Zenon DEF ExitProcess, Goes, Same, kernel, local
<1>2. SigTypes' /\ scprog \in {"abort", "suspend2", "waitpid"}
  <2>1. scprog \in {"system", "sleep", "abort", "suspend2", "waitpid"}
    BY DEF SigInv, SigTypes, First
  <2> QED BY Zenon, <1>1, <2>1, PlaceOf DEF SigInv, SigTypes
<1>3. CASE scprog = "abort"
  BY Zenon, <1>1, <1>3 DEF SigInv, AbortInv, Deliverable, Mask
<1>4. CASE scprog = "waitpid"
  <2>1. WaitInv'
    BY Zenon, <1>1, <1>4 DEF SigInv, WaitInv
  <2> QED BY Zenon, <1>1, <1>2, <1>4, <2>1, OnlyWait DEF SigInv
<1> QED BY Zenon, <1>1, <1>2, <1>3, <1>4, OnlySuspend DEF SigInv

\* The calls of suspend2 and of main in waitpid.c.
LEMMA WaitingSteps ==
    ASSUME SigInv, \/ BlockQuit \/ TestQuitflag \/ SuspendQuit \/ UnblockQuit
                   \/ ForkKids \/ TestLive \/ Pause
    PROVE  SigInv'
<1>1. CASE BlockQuit \/ TestQuitflag \/ SuspendQuit \/ UnblockQuit
  <2>1. /\ scprog = "suspend2" /\ fate = "" /\ fate' = "" /\ UNCHANGED <<scprog, was, disp, child, kids>>
        /\ old' = old \/ (old' = [old EXCEPT !.mask = mask] /\ BlockQuit)
    BY Zenon, <1>1, PlaceOf DEF SigInv, BlockQuit, TestQuitflag, SuspendQuit, UnblockQuit, Goes, Rest, Same, local, kernel
  <2>2. at' \in Places["suspend2"]
    BY Zenon, <1>1, PlacesAre DEF BlockQuit, TestQuitflag, SuspendQuit, UnblockQuit, Goes
  <2>3. old \in Saved /\ mask \subseteq Sig /\ "QUIT" \in Sig
    BY Zenon, <2>1 DEF SigInv, SigTypes, Sig
  <2>4. old.mask \subseteq Sig /\ [old EXCEPT !.mask = mask] \in Saved
    BY <2>3 DEF Saved
  <2>5. old' \in Saved
    BY Zenon, <2>1, <2>3, <2>4
  <2>6. mask' \subseteq Sig
    BY Zenon, <1>1, <2>3, <2>4 DEF BlockQuit, TestQuitflag, SuspendQuit, UnblockQuit, kernel
  <2> QED BY Zenon, <2>1, <2>2, <2>5, <2>6, OnlySuspend DEF SigInv, SigTypes
<1>2. CASE ForkKids \/ TestLive \/ Pause
  <2>1. /\ scprog = "waitpid" /\ fate = "" /\ fate' = "" /\ UNCHANGED <<scprog, was, disp, child, old, pend>>
    BY Zenon, <1>2, PlaceOf DEF SigInv, ForkKids, TestLive, Pause, Goes, Rest, Same, local, kernel
  <2>2. at' \in Places["waitpid"]
    BY Zenon, <1>2, PlacesAre DEF ForkKids, TestLive, Pause, Goes
  <2>3. kids \in [1 .. NKids -> {"none", "run", "zombie", "gone"}]
    BY DEF SigInv, SigTypes
  <2>4. kids' = kids \/ \E k \in 1 .. NKids : kids' = [kids EXCEPT ![k] = "run"]
    BY Zenon, <1>2 DEF ForkKids, TestLive, Pause, local
  <2>5. /\ kids' \in [1 .. NKids -> {"none", "run", "zombie", "gone"}]
        /\ \A j \in 1 .. NKids : kids'[j] = "zombie" => kids[j] = "zombie"
    BY Zenon, <2>3, <2>4
  <2>6. WaitInv'
    BY Zenon, <2>1, <2>5 DEF SigInv, WaitInv
  <2> QED BY Zenon, <2>1, <2>2, <2>5, <2>6, OnlyWait DEF SigInv, SigTypes
<1> QED BY <1>1, <1>2

\* What a signal that is generated or delivered leaves alone.
LEMMA SignalLeaves ==
    ASSUME SigInv, UNCHANGED <<scprog, at, disp, mask, old, was, result, flushed>>
    PROVE  /\ SleepInv'
           /\ scprog = "system" => /\ old'.mask = was'.mask /\ \A s \in Sig : old'.disp[s] = was'.disp[s]
                                   /\ \A s \in Sig : disp'[s] = SystemDisp(s)'
                                   /\ mask' = IF at' \in ChldBlocked THEN was'.mask \cup {"CHLD"} ELSE was'.mask
BY Zenon DEF SigInv, SleepInv, SystemInv, SystemDisp

\* A child of system that goes on as it should.
LEMMA SystemChild ==
    ASSUME SigInv, UNCHANGED <<scprog, at, disp, mask, old, was, result, flushed>>, dozing' = dozing,
           scprog = "system",
           child'.st \in {"restore INT", "restore QUIT", "execl"} => \A s \in Sig : child'.disp[s] = ChildDisp(s)',
           child'.st = "exec" => child'.disp = AfterExec(was.disp),
           child.st # "none" <=> child'.st # "none", child.st # "gone" <=> child'.st # "gone"
    PROVE  SystemInv'
<1>1. /\ old'.mask = was'.mask /\ \A s \in Sig : old'.disp[s] = was'.disp[s]
      /\ \A s \in Sig : disp'[s] = SystemDisp(s)'
      /\ mask' = IF at' \in ChldBlocked THEN was'.mask \cup {"CHLD"} ELSE was'.mask
  BY Zenon, SignalLeaves
<1>2. /\ dozing = NotDozing
      /\ at \in BeforeFork => child.st = "none"
      /\ at = "waitpid" => child.st \notin {"none", "gone"}
      /\ at \in AfterWait => child.st = "none" \/ (child.st = "gone" /\ result = "status")
  BY Zenon DEF SigInv, SystemInv
<1>3. /\ at' \in BeforeFork => child'.st = "none"
      /\ at' = "waitpid" => child'.st \notin {"none", "gone"}
      /\ at' \in AfterWait => child'.st = "none" \/ (child'.st = "gone" /\ result' = "status")
  BY Zenon, <1>2
<1> QED BY Zenon, <1>1, <1>2, <1>3 DEF SystemInv

\* A signal is generated: it is not SIGABRT, and no signal is lost.
LEMMA Generated ==
    ASSUME SigInv, UNCHANGED <<scprog, at, disp, mask, old, was, result, flushed, fate, dozing, child, kids>>,
           pend \subseteq pend', "ABRT" \in pend' => "ABRT" \in pend
    PROVE  SigInv'
<1>1. SigTypes' /\ SleepInv'
  BY Zenon, SignalLeaves DEF SigInv, SigTypes
<1>2. SystemInv'
  BY Zenon DEF SigInv, SystemInv, SystemDisp, ChildDisp
<1>3. AbortInv'
  BY Zenon DEF SigInv, AbortInv
<1>4. WaitInv'
  BY Zenon DEF SigInv, WaitInv
<1> QED BY Zenon, <1>1, <1>2, <1>3, <1>4 DEF SigInv

\* The alarm goes off.
LEMMA AlarmStep ==
    ASSUME SigInv, Alarm
    PROVE  SigInv'
<1>1. pend \subseteq pend' /\ ("ABRT" \in pend' => "ABRT" \in pend)
  BY Zenon DEF Alarm, Gen
<1> QED BY Zenon, <1>1, Generated DEF Alarm, Same, local

\* INT or QUIT is typed, and the child of system may die of it.
LEMMA SigTypeStep ==
    ASSUME SigInv, NEW s \in {"INT", "QUIT"}, Type(s)
    PROVE  SigInv'
<1>1. /\ UNCHANGED <<scprog, at, disp, mask, old, was, result, flushed, fate, dozing, kids>>
      /\ child' = child \/ (child' = [child EXCEPT !.st = "zombie"] /\ child.st \notin {"none", "zombie", "gone"})
  BY Zenon DEF Type
<1>2. pend \subseteq pend' /\ ("ABRT" \in pend' => "ABRT" \in pend)
  <2>1. pend' = Gen({s}) \/ pend' = Gen({s, "CHLD"})
    BY Zenon DEF Type
  <2> QED BY <2>1 DEF Gen
<1>3. CASE child' = child
  BY Zenon, <1>1, <1>2, <1>3, Generated
<1>4. CASE child' = [child EXCEPT !.st = "zombie"] /\ child.st \notin {"none", "zombie", "gone"}
  <2>1. scprog = "system"
    BY Zenon, <1>4 DEF SigInv, SigTypes
  <2>2. child \in [st : ChildAt, disp : [Sig -> Disp]] /\ "zombie" \in ChildAt
    BY Zenon DEF SigInv, SigTypes, ChildAt
  <2>3. child' \in [st : ChildAt, disp : [Sig -> Disp]] /\ child'.st = "zombie"
    BY <1>4, <2>2
  <2>4. SigTypes'
    BY Zenon, <1>1, <2>1, <2>3 DEF SigInv, SigTypes
  <2>5. SystemInv'
    BY <1>1, <1>4, <2>1, <2>3, SystemChild
  <2> QED BY Zenon, <1>1, <2>1, <2>4, <2>5, OnlySystem DEF SigInv
<1> QED BY <1>1, <1>3, <1>4

\* The child of system on its way to execl.
LEMMA ChildStepOK ==
    ASSUME SigInv, ChildRestores
    PROVE  SigInv'
<1>1. /\ UNCHANGED <<scprog, at, disp, mask, old, was, result, flushed, fate, dozing, kids, pend>>
      /\ child.st \in {"restore INT", "restore QUIT", "execl"}
  BY Zenon DEF ChildRestores, Same, kernel
<1>2. scprog = "system"
  BY Zenon, <1>1 DEF SigInv, SigTypes
<1>3. /\ child \in [st : ChildAt, disp : [Sig -> Disp]] /\ old \in Saved /\ was \in Saved
      /\ {"restore QUIT", "execl", "exec"} \subseteq ChildAt /\ {"INT", "QUIT"} \subseteq Sig /\ "DFL" \in Disp
  BY Zenon DEF SigInv, SigTypes, ChildAt, Sig, Disp
<1>4. \A s \in Sig : old.disp[s] = was.disp[s] /\ child.disp[s] = ChildDisp(s)
  BY Zenon, <1>1, <1>2 DEF SigInv, SystemInv
<1>5. child' \in [st : ChildAt, disp : [Sig -> Disp]]
  <2>1. old.disp \in [Sig -> Disp] /\ child.disp \in [Sig -> Disp]
    BY Zenon, <1>3 DEF Saved
  <2>2. AfterExec(child.disp) \in [Sig -> Disp]
    BY Zenon, <1>3, <2>1 DEF AfterExec
  <2>3. CASE child.st = "restore INT"
    BY Zenon, <1>3, <2>1, <2>3 DEF ChildRestores
  <2>4. CASE child.st = "restore QUIT"
    BY Zenon, <1>3, <2>1, <2>4 DEF ChildRestores
  <2>5. CASE child.st = "execl"
    BY Zenon, <1>3, <2>2, <2>5 DEF ChildRestores
  <2> QED BY Zenon, <1>1, <2>3, <2>4, <2>5
<1>6. SystemInv'
  <2>1. CASE child.st = "restore INT"
    <3>1. child'.st = "restore QUIT" /\ child'.disp = [child.disp EXCEPT !["INT"] = old.disp["INT"]]
      BY Zenon, <2>1 DEF ChildRestores
    <3>2. \A s \in Sig : child'.disp[s] = ChildDisp(s)'
      BY Zenon, <1>1, <1>3, <1>4, <2>1, <3>1 DEF ChildDisp
    <3> QED BY Zenon, <1>1, <1>2, <2>1, <3>1, <3>2, SystemChild
  <2>2. CASE child.st = "restore QUIT"
    <3>1. child'.st = "execl" /\ child'.disp = [child.disp EXCEPT !["QUIT"] = old.disp["QUIT"]]
      BY Zenon, <2>2 DEF ChildRestores
    <3>2. \A s \in Sig : child'.disp[s] = ChildDisp(s)'
      BY ZenonT(40), <1>1, <1>3, <1>4, <2>2, <3>1 DEF ChildDisp
    <3> QED BY Zenon, <1>1, <1>2, <2>2, <3>1, <3>2, SystemChild
  <2>3. CASE child.st = "execl"
    <3>1. child'.st = "exec" /\ child'.disp = AfterExec(child.disp)
      BY Zenon, <2>3 DEF ChildRestores
    <3>2. \A s \in Sig : child.disp[s] = was.disp[s]
      BY <1>4, <2>3 DEF ChildDisp
    <3>3. child'.disp = AfterExec(was.disp)
      BY <3>1, <3>2 DEF AfterExec
    <3> QED BY <1>1, <1>2, <2>3, <3>1, <3>3, SystemChild
  <2> QED BY Zenon, <1>1, <2>1, <2>2, <2>3
<1>7. SigTypes'
  BY Zenon, <1>1, <1>2, <1>5 DEF SigInv, SigTypes
<1> QED BY Zenon, <1>1, <1>2, <1>6, <1>7, OnlySystem DEF SigInv

\* A child ends: its parent is sent SIGCHLD.
LEMMA ChildEndsOK ==
    ASSUME SigInv, ChildEnds
    PROVE  SigInv'
<1>1. /\ UNCHANGED <<scprog, at, disp, mask, old, was, result, flushed, fate, dozing>> /\ fate = ""
      /\ \/ child.st = "exec" /\ child' = [child EXCEPT !.st = "zombie"] /\ kids' = kids
         \/ child' = child /\ \E k \in 1 .. NKids : kids' = [kids EXCEPT ![k] = "zombie"]
  BY Zenon DEF ChildEnds, Same
<1>2. /\ pend \subseteq pend' /\ ("ABRT" \in pend' => "ABRT" \in pend)
      /\ disp["CHLD"] = "own" => "CHLD" \in pend'
  BY Zenon DEF ChildEnds, Gen, Ignored
<1>3. child \in [st : ChildAt, disp : [Sig -> Disp]] /\ "zombie" \in ChildAt
      /\ kids \in [1 .. NKids -> {"none", "run", "zombie", "gone"}]
  BY Zenon DEF SigInv, SigTypes, ChildAt
<1>4. kids' \in [1 .. NKids -> {"none", "run", "zombie", "gone"}]
  BY Zenon, <1>1, <1>3
<1>5. CASE scprog = "system"
  <2>1. CASE child' = child
    <3>1. SystemInv'
      BY Zenon, <1>1, <1>5, <2>1 DEF SigInv, SystemInv, SystemDisp, ChildDisp
    <3> QED BY Zenon, <1>1, <1>4, <1>5, <2>1, <3>1, OnlySystem DEF SigInv, SigTypes
  <2>2. CASE child.st = "exec" /\ child' = [child EXCEPT !.st = "zombie"]
    <3>1. child' \in [st : ChildAt, disp : [Sig -> Disp]] /\ child'.st = "zombie"
      BY <1>3, <2>2
    <3>2. SystemInv'
      BY Zenon, <1>1, <1>5, <2>2, <3>1, SystemChild
    <3> QED BY Zenon, <1>1, <1>4, <1>5, <3>1, <3>2, OnlySystem DEF SigInv, SigTypes
  <2> QED BY Zenon, <1>1, <2>1, <2>2
<1>6. CASE scprog # "system"
  <2>1. child' = child
    BY Zenon, <1>1, <1>6 DEF SigInv, SigTypes
  <2>2. SigTypes' /\ SystemInv' /\ SleepInv'
    BY Zenon, <1>1, <1>4, <1>6, <2>1, SignalLeaves DEF SigInv, SigTypes, SystemInv
  <2>3. AbortInv'
    BY Zenon, <1>1, <1>2 DEF SigInv, AbortInv
  <2>4. WaitInv'
    BY Zenon, <1>1, <1>2 DEF SigInv, WaitInv
  <2> QED BY Zenon, <2>2, <2>3, <2>4 DEF SigInv
<1> QED BY <1>5, <1>6

\* A signal is delivered.  While system waits for its child SIGCHLD is blocked,
\* so that the handler of the caller does not reap it; the second SIGABRT kills;
\* and the handler of waitpid.c leaves no zombie.
LEMMA DeliverOK ==
    ASSUME SigInv, NEW s \in Sig, Deliver(s)
    PROVE  SigInv'
<1>1. /\ UNCHANGED <<scprog, at, disp, mask, old, was, result, flushed>> /\ fate = ""
      /\ s \in Deliverable /\ pend' = pend \ {s}
      /\ fate' = fate \/ (fate' = s /\ disp[s] = "DFL" /\ UNCHANGED <<kids, child>>)
      /\ dozing' = dozing \/ dozing' = NotDozing
      /\ disp[s] = "DFL" /\ s # "CHLD" => fate' = s
  BY Zenon DEF Deliver, Same, Ignored
<1>2. /\ child' = child \/ (s = "CHLD" /\ child.st = "zombie" /\ child' = [child EXCEPT !.st = "gone"])
      /\ disp[s] = "own" /\ s = "CHLD" => sigchld
      /\ ~ (disp[s] = "own" /\ s = "CHLD") => kids' = kids
  <2>1. CASE Ignored(s) \/ disp[s] = "DFL"
    BY Zenon, <2>1 DEF Deliver, Ignored
  <2>2. CASE ~Ignored(s) /\ disp[s] # "DFL"
    <3>1. disp[s] = "own"
      BY <2>2 DEF SigInv, SigTypes, Disp, Ignored
    <3> QED BY Zenon, <2>2, <3>1 DEF Deliver
  <2> QED BY <2>1, <2>2
<1>3. /\ kids \in [1 .. NKids -> {"none", "run", "zombie", "gone"}]
      /\ child \in [st : ChildAt, disp : [Sig -> Disp]] /\ "gone" \in ChildAt
  BY Zenon DEF SigInv, SigTypes, ChildAt
<1>4. sigchld => \A k \in 1 .. NKids : kids'[k] # "zombie"
  BY DEF sigchld
<1>5. kids' \in [1 .. NKids -> {"none", "run", "zombie", "gone"}]
  <2>1. CASE kids' = kids
    BY Zenon, <1>3, <2>1
  <2>2. CASE sigchld
    BY <1>3, <2>2 DEF sigchld
  <2> QED BY Zenon, <1>2, <2>1, <2>2
<1>6. child' \in [st : ChildAt, disp : [Sig -> Disp]]
  BY <1>2, <1>3
<1>7. s \in {"INT", "QUIT", "CHLD", "ALRM", "ABRT"}
  BY DEF Sig
<1>8. SigTypes'
  <2>1. scprog # "system" => child' = child
    BY <1>2 DEF SigInv, SigTypes
  <2>2. fate' # "returned"
    BY Zenon, <1>1, <1>7
  <2> QED BY Zenon, <1>1, <1>5, <1>6, <2>1, <2>2 DEF SigInv, SigTypes
<1>9. SleepInv'
  BY Zenon, <1>1, SignalLeaves
<1>10. SystemInv'
  <2> SUFFICES ASSUME scprog = "system" PROVE SystemInv'
    BY Zenon, <1>1 DEF SystemInv
  <2>1. dozing' = dozing /\ Deliverable = pend \ mask
    BY Zenon, <1>1 DEF SigInv, SystemInv, Deliverable, Mask
  <2>2. at = "waitpid" => s # "CHLD"
    BY Zenon, <1>1, <2>1 DEF SigInv, SystemInv, ChldBlocked
  <2>3. at \in BeforeFork \cup {"waitpid"} \cup AfterWait
    BY Zenon, PlacesAre DEF SigInv, SigTypes, BeforeFork, AfterWait
  <2>4. child' = child
    BY Zenon, <1>2, <2>2, <2>3 DEF SigInv, SystemInv
  <2> QED BY Zenon, <1>1, <2>1, <2>4 DEF SigInv, SystemInv, SystemDisp, ChildDisp
<1>11. AbortInv'
  <2> SUFFICES ASSUME scprog = "abort" PROVE AbortInv'
    BY Zenon, <1>1 DEF AbortInv
  <2>1. dozing = NotDozing /\ dozing' = NotDozing /\ Deliverable = pend \ mask
    BY Zenon, <1>1 DEF SigInv, AbortInv, Deliverable, Mask
  <2>2. at = "exit" => s = "ABRT" /\ fate' = "ABRT"
    BY Zenon, <1>1, <2>1 DEF SigInv, AbortInv
  <2>3. fate' = "ABRT" => flushed
    <3> SUFFICES ASSUME fate' = "ABRT" PROVE flushed
      OBVIOUS
    <3>1. s = "ABRT" /\ disp["ABRT"] = "DFL" /\ s \in pend
      BY Zenon, <1>1, <2>1
    <3>2. at \in {"check ABRT", "unblock ABRT", "kill", "default ABRT", "kill again", "exit"}
      BY Zenon, PlacesAre DEF SigInv, SigTypes
    <3> QED BY Zenon, <3>1, <3>2 DEF SigInv, AbortInv
  <2> QED BY Zenon, <1>1, <2>1, <2>2, <2>3 DEF SigInv, AbortInv
<1>12. WaitInv'
  <2> SUFFICES ASSUME scprog = "waitpid" PROVE WaitInv'
    BY Zenon, <1>1 DEF WaitInv
  <2>1. disp["CHLD"] = "own"
    BY Zenon DEF SigInv, WaitInv
  <2>2. CASE s = "CHLD"
    BY Zenon, <1>1, <1>2, <1>4, <2>1, <2>2 DEF WaitInv
  <2>3. CASE s # "CHLD"
    BY Zenon, <1>1, <1>2, <2>1, <2>3 DEF SigInv, WaitInv
  <2> QED BY <2>2, <2>3
<1> QED BY Zenon, <1>8, <1>9, <1>10, <1>11, <1>12 DEF SigInv

\* Every step keeps the invariant.
LEMMA SigSteps == SigInv /\ [scNext]_scvars => SigInv'
<1> SUFFICES ASSUME SigInv, [scNext]_scvars PROVE SigInv'
  OBVIOUS
<1>1. CASE scStep
  BY Zenon, <1>1, SystemSteps, ReturnSteps, SleepSteps, AbortSteps, ExitStep, WaitingSteps DEF scStep
<1>2. CASE Delivery
  BY Zenon, <1>2, DeliverOK DEF Delivery
<1>3. CASE \E s \in {"INT", "QUIT"} : Type(s)
  BY Zenon, <1>3, SigTypeStep
<1>4. CASE UNCHANGED scvars
  BY Zenon, <1>4, Generated DEF scvars, kernel
<1> QED BY Zenon, <1>1, <1>2, <1>3, <1>4, AlarmStep, ChildEndsOK, ChildStepOK DEF scNext

(***************************************************************************)
(* For any number of children and of signals, whenever they come and       *)
(* whatever the caller did about them before: system and sleep leave the   *)
(* dispositions and the mask as they found them, the command of system     *)
(* takes signals as the caller did and its status is returned; abort kills *)
(* its caller after flushing the streams; and the handler of waitpid.c     *)
(* leaves no zombie for which no SIGCHLD is to come.                       *)
(***************************************************************************)
THEOREM CallsKeep == scSpec => []SignalsAreKept
<1>1. SigInv => SignalsAreKept
  <2> SUFFICES ASSUME SigInv PROVE SignalsAreKept
    OBVIOUS
  <2>1. scprog \in {"system", "sleep", "abort", "suspend2", "waitpid"}
    BY DEF SigInv, SigTypes, First
  <2>2. ASSUME fate = "returned" PROVE disp = was.disp /\ mask = was.mask
    <3>1. at = "return" /\ scprog \in {"system", "sleep"} /\ disp \in [Sig -> Disp] /\ was.disp \in [Sig -> Disp]
      BY <2>2, PlaceOf DEF SigInv, SigTypes, Saved
    <3>2. mask = was.mask /\ \A s \in Sig : disp[s] = was.disp[s]
      BY Zenon, <3>1 DEF SigInv, SystemInv, SleepInv, SystemDisp, IntIgnored, QuitIgnored, ChldBlocked, AlrmCaught, AlrmBlocked
    <3> QED BY SMTT(40), <3>1, <3>2
  <2>3. child.st = "exec" => child.disp = AfterExec(was.disp)
    BY DEF SigInv, SigTypes, SystemInv
  <2>4. scprog = "system" /\ fate = "returned" /\ child.st # "none" => result = "status"
    BY Zenon DEF SigInv, SigTypes, SystemInv, AfterWait
  <2>5. AbortKills
    BY Zenon DEF SigInv, AbortInv, AbortKills, Deliverable, Mask
  <2>6. ZombiesAreSignalled
    BY Zenon DEF SigInv, WaitInv, ZombiesAreSignalled
  <2> QED BY Zenon, <2>2, <2>3, <2>4, <2>5, <2>6 DEF SignalsAreKept, CallsKeepSignals
<1> QED BY <1>1, SigInitOK, SigSteps, PTL DEF scSpec
=============================================================================
