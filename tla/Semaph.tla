------------------------------- MODULE Semaph -------------------------------
(***************************************************************************)
(* The semaphores of src/lib/semaph.c: sets of three System V semaphores   *)
(* under one key, created by the first process that needs them and removed *)
(* by the last one that closes them.  Member 0 is the value of the         *)
(* semaphore, member 1 counts processes down from BIGCOUNT, member 2 is a  *)
(* lock.  A step is one semget, semop or semctl.  A process may die at any *)
(* moment, and the kernel then applies its adjust values (SEM_UNDO).  A    *)
(* process of the model that has ended stands for a new one.               *)
(*                                                                         *)
(* The key names at most one set.  A process has the identifier of that    *)
(* set (live) or of one that was removed (gone), which is never valid      *)
(* again.  Callers use the semaphore as a lock: sem_signal comes after     *)
(* sem_wait, and sem_close after both.                                     *)
(***************************************************************************)
EXTENDS Integers, FiniteSets

CONSTANTS
    Proc,       \* processes
    Server,     \* those that call sem_rm
    InitVal,    \* initval, the same in every call
    BIGCOUNT

ASSUME SemaphAssumption ==
    /\ IsFiniteSet(Proc) /\ Server \subseteq Proc
    /\ InitVal \in Nat /\ BIGCOUNT \in Nat \ {0}

\* "The counter is initialized to a large number".
ASSUME CountAssumption == Cardinality(Proc) =< BIGCOUNT

VARIABLES
    exists,     \* there is a set with the key
    sem,        \* its three values
    adj,        \* the adjust values of each process
    id,         \* the identifier each process has: none, live or gone
    how,        \* whether it came from sem_create or sem_open
    pc,         \* the system call the process is about to make
    hold        \* the process is between sem_wait and sem_signal

vars == <<exists, sem, adj, id, how, pc, hold>>

Member == 0 .. 2
Zero == [i \in Member |-> 0]
sembuf(v0, v1, v2) == [i \in Member |-> IF i = 0 THEN v0 ELSE IF i = 1 THEN v1 ELSE v2]

op_lock == sembuf(0, 0, 1)
op_endcreate == sembuf(0, -1, -1)
op_open == sembuf(0, -1, 0)
op_close == sembuf(0, 1, 1)
op_unlock == sembuf(0, 0, -1)

Init ==
    /\ exists = FALSE
    /\ sem = Zero
    /\ adj = [p \in Proc |-> Zero]
    /\ id = [p \in Proc |-> "none"]
    /\ how = [p \in Proc |-> "create"]
    /\ pc = [p \in Proc |-> "new"]
    /\ hold = [p \in Proc |-> FALSE]

-----------------------------------------------------------------------------
(***************************************************************************)
(* The kernel.                                                             *)
(***************************************************************************)
Goto(p, from, to) ==
    /\ pc[p] = from
    /\ pc' = [pc EXCEPT ![p] = to]

\* semop with SEM_UNDO: all of it or nothing, when no value becomes negative.
semop(p, op) ==
    /\ id[p] = "live"
    /\ \A i \in Member : sem[i] + op[i] >= 0
    /\ sem' = [i \in Member |-> sem[i] + op[i]]
    /\ adj' = [adj EXCEPT ![p] = [i \in Member |-> @[i] - op[i]]]
    /\ UNCHANGED exists

\* semctl(id, i, SETVAL, v), which clears the adjust values of the member.
SetVal(p, i, v) ==
    /\ id[p] = "live"
    /\ sem' = [sem EXCEPT ![i] = v]
    /\ adj' = [q \in Proc |-> [adj[q] EXCEPT ![i] = 0]]
    /\ UNCHANGED exists

\* The process makes its last call or dies: its adjust values are applied, and
\* a value they would make negative becomes 0.
Exit(p) ==
    /\ pc' = [pc EXCEPT ![p] = "new"]
    /\ id' = [id EXCEPT ![p] = "none"]
    /\ hold' = [hold EXCEPT ![p] = FALSE]
    /\ sem' = [i \in Member |-> IF sem[i] + adj[p][i] >= 0 THEN sem[i] + adj[p][i] ELSE 0]
    /\ adj' = [adj EXCEPT ![p] = Zero]
    /\ UNCHANGED <<exists, how>>

Killed(p) == pc[p] # "new" /\ Exit(p)

\* err_sys after a system call on a set that was removed.
err_sys(p) ==
    /\ id[p] = "gone"
    /\ pc[p] # "lock"
    /\ Exit(p)

\* semctl(id, 0, IPC_RMID, 0): the set and all adjust values are gone.
RemoveSem(p) ==
    /\ id[p] = "live"
    /\ exists' = FALSE
    /\ sem' = Zero
    /\ adj' = [q \in Proc |-> Zero]
    /\ id' = [q \in Proc |-> IF q = p THEN "none" ELSE IF id[q] = "live" THEN "gone" ELSE id[q]]
    /\ pc' = [pc EXCEPT ![p] = "new"]
    /\ hold' = [hold EXCEPT ![p] = FALSE]
    /\ UNCHANGED how

-----------------------------------------------------------------------------
(***************************************************************************)
(* sem_create.                                                             *)
(***************************************************************************)
\* semget(key, 3, 0666 | IPC_CREAT); the values of a new set are 0.
sem_create(p) ==
    /\ Goto(p, "new", "lock")
    /\ exists' = TRUE
    /\ id' = [id EXCEPT ![p] = "live"]
    /\ how' = [how EXCEPT ![p] = "create"]
    /\ UNCHANGED <<sem, adj, hold>>

\* Variant: does not wait for the lock.
Lock_NoWait(p) ==
    /\ pc[p] \in {"lock", "lock_wait"}
    /\ pc' = [pc EXCEPT ![p] = "getval"]
    /\ semop(p, op_lock)
    /\ UNCHANGED <<id, how, hold>>

Lock(p) ==
    /\ pc[p] \in {"lock", "lock_wait"}
    /\ pc' = [pc EXCEPT ![p] = "getval"]
    /\ sem[2] = 0
    /\ semop(p, op_lock)
    /\ UNCHANGED <<id, how, hold>>

\* The process sleeps in semop; if the set is removed it gets EIDRM: err_sys.
LockSleep(p) ==
    /\ Goto(p, "lock", "lock_wait")
    /\ id[p] = "live" /\ sem[2] # 0
    /\ UNCHANGED <<exists, sem, adj, id, how, hold>>

\* The set was removed before semop: EINVAL, and goto again.
LockAgain(p) ==
    /\ pc[p] = "lock" /\ id[p] = "gone"
    /\ exists' = TRUE
    /\ id' = [id EXCEPT ![p] = "live"]
    /\ UNCHANGED <<sem, adj, how, pc, hold>>

\* Variant: every sem_create initializes the set.
CreateGetVal_Always(p) ==
    /\ Goto(p, "getval", "setval0")
    /\ id[p] = "live"
    /\ UNCHANGED <<exists, sem, adj, id, how, hold>>

\* semctl(id, 1, GETVAL, 0)
CreateGetVal(p) ==
    /\ Goto(p, "getval", IF sem[1] = 0 THEN "setval0" ELSE "endcreate")
    /\ id[p] = "live"
    /\ UNCHANGED <<exists, sem, adj, id, how, hold>>

SetVal0(p) ==
    /\ Goto(p, "setval0", "setval1")
    /\ SetVal(p, 0, InitVal)
    /\ UNCHANGED <<id, how, hold>>

SetVal1(p) ==
    /\ Goto(p, "setval1", "endcreate")
    /\ SetVal(p, 1, BIGCOUNT)
    /\ UNCHANGED <<id, how, hold>>

\* Variant: without SEM_UNDO.
EndCreate_NoUndo(p) ==
    /\ Goto(p, "endcreate", "in")
    /\ id[p] = "live"
    /\ sem' = [i \in Member |-> sem[i] + op_endcreate[i]]
    /\ UNCHANGED <<exists, adj, id, how, hold>>

EndCreate(p) ==
    /\ Goto(p, "endcreate", "in")
    /\ semop(p, op_endcreate)
    /\ UNCHANGED <<id, how, hold>>

-----------------------------------------------------------------------------
(***************************************************************************)
(* sem_open.                                                               *)
(***************************************************************************)
\* semget(key, 3, 0); if there is no set sem_open returns -1.
sem_open(p) ==
    /\ Goto(p, "new", "open")
    /\ exists
    /\ id' = [id EXCEPT ![p] = "live"]
    /\ how' = [how EXCEPT ![p] = "open"]
    /\ UNCHANGED <<exists, sem, adj, hold>>

Open(p) ==
    /\ Goto(p, "open", "in")
    /\ semop(p, op_open)
    /\ UNCHANGED <<id, how, hold>>

-----------------------------------------------------------------------------
(***************************************************************************)
(* sem_wait, sem_signal, sem_rm, sem_close.                                *)
(***************************************************************************)
sem_op(p, value) ==
    /\ pc[p] = "in"
    /\ semop(p, sembuf(value, 0, 0))
    /\ UNCHANGED <<id, how, pc>>

sem_wait(p) ==
    /\ ~ hold[p]
    /\ sem_op(p, -1)
    /\ hold' = [hold EXCEPT ![p] = TRUE]

sem_signal(p) ==
    /\ hold[p]
    /\ sem_op(p, 1)
    /\ hold' = [hold EXCEPT ![p] = FALSE]

\* A server removes the set regardless of who uses it.
sem_rm(p) ==
    /\ p \in Server
    /\ pc[p] = "in"
    /\ RemoveSem(p)

sem_close(p) ==
    /\ Goto(p, "in", "close")
    /\ ~ hold[p]
    /\ UNCHANGED <<exists, sem, adj, id, how, hold>>

Close(p) ==
    /\ Goto(p, "close", "close_getval")
    /\ sem[2] = 0
    /\ semop(p, op_close)
    /\ UNCHANGED <<id, how, hold>>

\* Variant: the set is removed while another process uses it.
CloseGetVal_Early(p) ==
    /\ Goto(p, "close_getval", IF sem[1] + 1 >= BIGCOUNT THEN "rm" ELSE "unlock")
    /\ id[p] = "live"
    /\ UNCHANGED <<exists, sem, adj, id, how, hold>>

\* semctl(id, 1, GETVAL, 0)
CloseGetVal(p) ==
    /\ Goto(p, "close_getval",
            IF sem[1] > BIGCOUNT THEN "err_dump"
            ELSE IF sem[1] = BIGCOUNT THEN "rm" ELSE "unlock")
    /\ id[p] = "live"
    /\ UNCHANGED <<exists, sem, adj, id, how, hold>>

Rm(p) == pc[p] = "rm" /\ RemoveSem(p)

Unlock(p) ==
    /\ pc[p] = "unlock"
    /\ semop(p, op_unlock)
    /\ pc' = [pc EXCEPT ![p] = "new"]
    /\ id' = [id EXCEPT ![p] = "none"]
    /\ UNCHANGED <<how, hold>>

Create(p) ==
    \/ sem_create(p) \/ Lock(p) \/ LockSleep(p) \/ LockAgain(p)
    \/ CreateGetVal(p) \/ SetVal0(p) \/ SetVal1(p) \/ EndCreate(p)

Use(p) == sem_open(p) \/ Open(p) \/ sem_wait(p) \/ sem_signal(p) \/ sem_rm(p)

Leave(p) ==
    \/ sem_close(p) \/ Close(p) \/ CloseGetVal(p) \/ Rm(p) \/ Unlock(p)
    \/ err_sys(p) \/ Killed(p)

Next == \E p \in Proc : Create(p) \/ Use(p) \/ Leave(p)

Spec == Init /\ [][Next]_vars

-----------------------------------------------------------------------------
Place == {"new", "lock", "lock_wait", "getval", "setval0", "setval1", "endcreate",
          "open", "in", "close", "close_getval", "rm", "unlock"}

\* The values and processes have the right types: no value is negative, the
\* lock is a binary semaphore, and sem_close never finds a counter above BIGCOUNT
\* and calls err_dump.
TypeOK ==
    /\ exists \in BOOLEAN
    /\ sem \in [Member -> Nat] /\ sem[1] =< BIGCOUNT /\ sem[2] \in {0, 1}
    /\ adj \in [Proc -> [Member -> {-1, 0, 1}]]
    /\ id \in [Proc -> {"none", "live", "gone"}]
    /\ how \in [Proc -> {"create", "open"}]
    /\ pc \in [Proc -> Place]
    /\ hold \in [Proc -> BOOLEAN]

\* Processes that have counted themselves in.
Users == {p \in Proc : id[p] = "live" /\ pc[p] \in {"in", "close"}}

Holders == {p \in Proc : id[p] = "live" /\ hold[p]}

\* At most initval processes are between sem_wait and sem_signal on one set,
\* although processes die at any step of creating, using or closing it.
Exclusion == Cardinality(Holders) =< InitVal

\* When nobody uses the set, a set that was initialized has its initial values
\* again, whoever was killed and where: the adjust values undo exactly what a
\* process did.
UndoIsExact ==
    exists /\ (\A p \in Proc : pc[p] \in {"new", "lock", "lock_wait", "open"}) =>
        /\ sem[2] = 0
        /\ sem[1] = 0 \/ (sem[1] = BIGCOUNT /\ sem[0] = InitVal)

\* A set is initialized once, before anybody uses it (the lock of sem_create,
\* and sem_open waiting for a positive counter).
InitializedOnce ==
    \A p \in Proc : id[p] = "live" /\ pc[p] \in {"setval0", "setval1"} => Users = {}

\* sem_close removes the set only if no process uses it that came in through
\* sem_create.
CreatorsKeepTheSet ==
    \A p \in Proc : pc[p] = "rm" /\ id[p] = "live" => \A q \in Users : how[q] = "open"

\* sem_open needs no lock ("We don't need a lock to do this"), and sem_close
\* removes the set only "if this was the last one".
LastOneRemoves ==
    \A p \in Proc : pc[p] = "rm" /\ id[p] = "live" => Users = {}

=============================================================================
