----------------------------- MODULE FooObjects -----------------------------
(***************************************************************************)
(* Reference-counted objects of threads/mutex1.c, mutex2.c and mutex3.c:   *)
(*   "mutex1"  the count is under the mutex of the object, no hash table;  *)
(*   "mutex2"  a hash table under hashlock, the count under the mutex of   *)
(*             the object; foo_rele must drop and retake it;               *)
(*   "mutex3"  the table and the counts under hashlock.                    *)
(* Threads allocate, find, share and release objects; as the files expect  *)
(* of their callers, foo_hold and foo_rele get a pointer the thread holds  *)
(* a reference for.  One chain of the table is modelled: objects of other  *)
(* chains do not meet.  A freed object's memory is used again by the next  *)
(* foo_alloc.                                                              *)
(***************************************************************************)
EXTENDS Integers, FiniteSets, Sequences, Functions

CONSTANTS Thr,    \* threads
          Foo,    \* addresses malloc can return
          Id,     \* the ids of the objects
          NoFoo,  \* the null pointer
          Free,   \* nobody holds a mutex
          MaxRefs \* bound: references to one object

ASSUME FooAssumption == Free \notin Thr

VARIABLES
    fprog,    \* the program that runs
    f_count, f_id,  \* [Foo -> fields of the object]
    fh,       \* the chain of the hash table, a sequence of addresses
    alive,    \* addresses that are allocated
    hashlock, f_lock, \* holders of the mutexes
    fpc,      \* [Thr -> where the thread is]
    fp,       \* [Thr -> the object its call is about]
    refs      \* [Thr -> [Foo -> references it holds]]

foovars == <<fprog, f_count, f_id, fh, alive, hashlock, f_lock, fpc, fp, refs>>

Idle(t) == fpc[t] = "idle"
To(t, pc) == fpc' = [fpc EXCEPT ![t] = pc]
Calls(t, o, pc) == To(t, pc) /\ fp' = [fp EXCEPT ![t] = o]
Gain(t, o) == refs' = [refs EXCEPT ![t][o] = @ + 1]
Drop(t, o) == refs' = [refs EXCEPT ![t][o] = @ - 1]
Room(o) == f_count[o] < MaxRefs

\* foo_alloc up to the hash table: malloc, f_count = 1, f_id = id.
foo_alloc(t) ==
    /\ Idle(t)
    /\ \E o \in Foo \ alive, id \in Id :
          /\ alive' = alive \cup {o}
          /\ f_count' = [f_count EXCEPT ![o] = 1]
          /\ f_id' = [f_id EXCEPT ![o] = id]
          /\ IF fprog = "mutex1"
             THEN Gain(t, o) /\ UNCHANGED <<fpc, fp>>
             ELSE Calls(t, o, "alloc") /\ UNCHANGED refs
    /\ UNCHANGED <<fprog, fh, hashlock, f_lock>>

\* Under hashlock the object enters the chain, and its own mutex is taken
\* before hashlock is released.
AllocInsert(t) ==
    /\ fpc[t] = "alloc" /\ hashlock = Free
    /\ hashlock' = t
    /\ fh' = <<fp[t]>> \o fh
    /\ To(t, "alloc_lock")
    /\ UNCHANGED <<fprog, f_count, f_id, alive, f_lock, fp, refs>>

AllocLock(t) ==
    /\ fpc[t] = "alloc_lock" /\ f_lock[fp[t]] = Free
    /\ f_lock' = [f_lock EXCEPT ![fp[t]] = t]
    /\ hashlock' = Free
    /\ To(t, "alloc_init")
    /\ UNCHANGED <<fprog, f_count, f_id, fh, alive, fp, refs>>

AllocDone(t) ==
    /\ fpc[t] = "alloc_init"
    /\ f_lock' = [f_lock EXCEPT ![fp[t]] = Free]
    /\ Gain(t, fp[t])
    /\ To(t, "idle")
    /\ UNCHANGED <<fprog, f_count, f_id, fh, alive, hashlock, fp>>

\* foo_hold on behalf of thread u, to which the new reference is given.
foo_hold1(t) ==
    /\ fprog \in {"mutex1", "mutex2"} /\ Idle(t)
    /\ \E o \in Foo, u \in Thr :
          /\ refs[t][o] > 0 /\ Room(o) /\ f_lock[o] = Free
          /\ f_count' = [f_count EXCEPT ![o] = @ + 1]
          /\ Gain(u, o)
    /\ UNCHANGED <<fprog, f_id, fh, alive, hashlock, f_lock, fpc, fp>>

foo_hold3(t) ==
    /\ fprog = "mutex3" /\ Idle(t) /\ hashlock = Free
    /\ \E o \in Foo, u \in Thr :
          /\ refs[t][o] > 0 /\ Room(o)
          /\ f_count' = [f_count EXCEPT ![o] = @ + 1]
          /\ Gain(u, o)
    /\ UNCHANGED <<fprog, f_id, fh, alive, hashlock, f_lock, fpc, fp>>

\* The first object of the chain with the given id, or none.
Lookup(id) ==
    LET at == {i \in DOMAIN fh : f_id[fh[i]] = id}
    IN  IF at = {} THEN NoFoo ELSE fh[CHOOSE i \in at : \A j \in at : i <= j]

\* The chain after the object, which is in it, has been unlinked.
Unlinked(o) ==
    LET at == CHOOSE i \in DOMAIN fh : fh[i] = o
    IN  SubSeq(fh, 1, at - 1) \o SubSeq(fh, at + 1, Len(fh))

\* foo_find of mutex2.c takes the mutex of the object while it has hashlock.
foo_find2(t) ==
    /\ fprog = "mutex2" /\ Idle(t) /\ hashlock = Free
    /\ \E id \in Id : LET o == Lookup(id) IN
          /\ o # NoFoo /\ Room(o)
          /\ hashlock' = t
          /\ Calls(t, o, "find")
    /\ UNCHANGED <<fprog, f_count, f_id, fh, alive, f_lock, refs>>

FindHold(t) ==
    /\ fpc[t] = "find" /\ f_lock[fp[t]] = Free
    /\ f_count' = [f_count EXCEPT ![fp[t]] = @ + 1]
    /\ Gain(t, fp[t])
    /\ hashlock' = Free
    /\ To(t, "idle")
    /\ UNCHANGED <<fprog, f_id, fh, alive, f_lock, fp>>

foo_find3(t) ==
    /\ fprog = "mutex3" /\ Idle(t) /\ hashlock = Free
    /\ \E id \in Id : LET o == Lookup(id) IN
          /\ o # NoFoo /\ Room(o)
          /\ f_count' = [f_count EXCEPT ![o] = @ + 1]
          /\ Gain(t, o)
    /\ UNCHANGED <<fprog, f_id, fh, alive, hashlock, f_lock, fpc, fp>>

\* mutex1.c: the count goes down under the mutex of the object; who makes it
\* zero destroys the mutex and frees the object after unlocking it.
foo_rele1(t) ==
    /\ fprog = "mutex1" /\ Idle(t)
    /\ \E o \in Foo :
          /\ refs[t][o] > 0 /\ f_lock[o] = Free
          /\ f_count' = [f_count EXCEPT ![o] = @ - 1]
          /\ Drop(t, o)
          /\ IF f_count[o] = 1 THEN Calls(t, o, "free") ELSE UNCHANGED <<fpc, fp>>
    /\ UNCHANGED <<fprog, f_id, fh, alive, hashlock, f_lock>>

\* mutex2.c: with one reference left, the mutex is dropped, for hashlock comes
\* first in the order of the locks.
foo_rele2(t) ==
    /\ fprog = "mutex2" /\ Idle(t)
    /\ \E o \in Foo :
          /\ refs[t][o] > 0 /\ f_lock[o] = Free
          /\ IF f_count[o] = 1
             THEN Calls(t, o, "rele") /\ UNCHANGED <<f_count, refs>>
             ELSE /\ f_count' = [f_count EXCEPT ![o] = @ - 1]
                  /\ Drop(t, o)
                  /\ UNCHANGED <<fpc, fp>>
    /\ UNCHANGED <<fprog, f_id, fh, alive, hashlock, f_lock>>

ReleHash(t) ==
    /\ fpc[t] = "rele" /\ hashlock = Free
    /\ hashlock' = t
    /\ To(t, "rele_lock")
    /\ UNCHANGED <<fprog, f_count, f_id, fh, alive, f_lock, fp, refs>>

\* Trusts the count it saw before it dropped the mutex.
ReleRecheck_Variant(t) ==
    /\ fpc[t] = "rele_lock" /\ f_lock[fp[t]] = Free
    /\ fh' = Unlinked(fp[t])
    /\ f_lock' = [f_lock EXCEPT ![fp[t]] = t]
    /\ hashlock' = Free
    /\ To(t, "free")
    /\ UNCHANGED <<fprog, f_count, f_id, alive, fp, refs>>

\* The condition is checked again: the object may have been found meanwhile.
ReleRecheck(t) ==
    /\ fpc[t] = "rele_lock" /\ f_lock[fp[t]] = Free
    /\ IF f_count[fp[t]] # 1
       THEN /\ f_count' = [f_count EXCEPT ![fp[t]] = @ - 1]
            /\ Drop(t, fp[t])
            /\ To(t, "idle")
            /\ UNCHANGED <<fh, f_lock>>
       ELSE /\ fh' = Unlinked(fp[t])
            /\ f_lock' = [f_lock EXCEPT ![fp[t]] = t]
            /\ To(t, "free")
            /\ UNCHANGED <<f_count, refs>>
    /\ hashlock' = Free
    /\ UNCHANGED <<fprog, f_id, alive, fp>>

\* mutex3.c: everything up to the free is under hashlock.
foo_rele3(t) ==
    /\ fprog = "mutex3" /\ Idle(t) /\ hashlock = Free
    /\ \E o \in Foo :
          /\ refs[t][o] > 0
          /\ f_count' = [f_count EXCEPT ![o] = @ - 1]
          /\ Drop(t, o)
          /\ IF f_count[o] = 1
             THEN fh' = Unlinked(o) /\ Calls(t, o, "free")
             ELSE UNCHANGED <<fh, fpc, fp>>
    /\ UNCHANGED <<fprog, f_id, alive, hashlock, f_lock>>

\* pthread_mutex_unlock where it is held, pthread_mutex_destroy and free.
FreeFoo(t) ==
    /\ fpc[t] = "free"
    /\ alive' = alive \ {fp[t]}
    /\ f_lock' = [f_lock EXCEPT ![fp[t]] = Free]
    /\ IF fprog = "mutex2" THEN Drop(t, fp[t]) ELSE UNCHANGED refs
    /\ To(t, "idle")
    /\ UNCHANGED <<fprog, f_count, f_id, fh, hashlock, fp>>

fooInit ==
    /\ fprog \in {"mutex1", "mutex2", "mutex3"}
    /\ f_count = [o \in Foo |-> 0]
    /\ f_id = [o \in Foo |-> CHOOSE id \in Id : TRUE]
    /\ fh = << >>
    /\ alive = {}
    /\ hashlock = Free
    /\ f_lock = [o \in Foo |-> Free]
    /\ fpc = [t \in Thr |-> "idle"]
    /\ fp = [t \in Thr |-> NoFoo]
    /\ refs = [t \in Thr |-> [o \in Foo |-> 0]]

fooStep(t) ==
    \/ foo_alloc(t) \/ AllocInsert(t) \/ AllocLock(t) \/ AllocDone(t)
    \/ foo_hold1(t) \/ foo_hold3(t) \/ foo_find2(t) \/ FindHold(t) \/ foo_find3(t)
    \/ foo_rele1(t) \/ foo_rele2(t) \/ ReleHash(t) \/ ReleRecheck(t) \/ foo_rele3(t)
    \/ FreeFoo(t)

fooNext == \E t \in Thr : fooStep(t)

fooSpec == fooInit /\ [][fooNext]_foovars

fooTypeOK ==
    /\ f_count \in [Foo -> Nat] /\ f_id \in [Foo -> Id]
    /\ fh \in Seq(Foo) /\ alive \subseteq Foo
    /\ hashlock \in Thr \cup {Free} /\ f_lock \in [Foo -> Thr \cup {Free}]
    /\ fpc \in [Thr -> {"idle", "alloc", "alloc_lock", "alloc_init", "find", "rele", "rele_lock", "free"}]
    /\ fp \in [Thr -> Foo \cup {NoFoo}]
    /\ refs \in [Thr -> [Foo -> 0 .. MaxRefs]]

\* The references to an object: those the threads hold, and the one that a
\* foo_alloc is about to return.
Allocates(t, o) == fp[t] = o /\ fpc[t] \in {"alloc", "alloc_lock", "alloc_init"}
Refs(o) ==
    (UNION {{t} \X (1 .. refs[t][o]) : t \in Thr}) \cup {<<t, 0>> : t \in {u \in Thr : Allocates(u, o)}}

(***************************************************************************)
(* An object lives as long as somebody has a reference or is in a call     *)
(* about it, its count is the number of references, and the table holds    *)
(* exactly the objects that can still be found: foo_find and foo_rele race *)
(* for the last reference in all three files.                              *)
(***************************************************************************)
CountIsReferences ==
    /\ \A t \in Thr : fpc[t] # "idle" => fp[t] \in alive
    /\ \A t \in Thr, o \in Foo : refs[t][o] > 0 => o \in alive
    /\ \A o \in alive : f_count[o] = Cardinality(Refs(o))
    /\ fprog # "mutex1" =>
          /\ IsInjective(fh)
          /\ Range(fh) = alive \ {fp[t] : t \in {u \in Thr : fpc[u] \in {"alloc", "free"}}}

=============================================================================
