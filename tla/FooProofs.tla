------------------------------ MODULE FooProofs ------------------------------
(***************************************************************************)
(* The proof about FooObjects (threads/mutex1.c, mutex2.c and mutex3.c),   *)
(* for any number of threads, objects and references.  The count of an     *)
(* object is the number of its references because every call that changes  *)
(* one changes the other; the invariant adds what a thread in the middle   *)
(* of a call knows, who has hashlock, and which objects are in the chain.  *)
(***************************************************************************)
EXTENDS FooObjects, FiniteSetTheorems, WellFoundedInduction, TLAPS

\* Where a thread in a call is.
Busy == {"alloc", "alloc_lock", "alloc_init", "find", "rele", "rele_lock", "free"}

\* The types of the variables.
FooTypes ==
    /\ f_count \in [Foo -> Int]
    /\ fh \in Seq(Foo) /\ alive \subseteq Foo
    /\ fpc \in [Thr -> {"idle"} \cup Busy]
    /\ fp \in [Thr -> Foo \cup {NoFoo}]
    /\ refs \in [Thr -> [Foo -> Nat]]

\* Who has hashlock: the calls that need it keep it until they have looked at
\* the chain and the count.
HoldsHash == \A t \in Thr : fpc[t] \in {"alloc_lock", "find", "rele_lock"} => hashlock = t

\* An object that foo_find can reach.
InChain(o) == \E i \in DOMAIN fh : fh[i] = o

\* What a thread in a call knows: a new object is its own; one that it found
\* stays in the chain; one that it releases it has a reference to; one that it
\* frees nobody else has, and nobody else frees.
InCall(t) ==
    /\ fpc[t] # "idle" => fp[t] \in alive
    /\ fpc[t] = "alloc" => Refs(fp[t]) = {<<t, 0>>}
    /\ fpc[t] = "find" => InChain(fp[t])
    /\ fpc[t] \in {"rele", "rele_lock"} => refs[t][fp[t]] > 0
    /\ fpc[t] \in {"find", "rele", "rele_lock"} => fprog = "mutex2"
    /\ fpc[t] \in {"alloc", "alloc_lock", "alloc_init"} => fprog # "mutex1"
    /\ fpc[t] = "free" => /\ Refs(fp[t]) = IF fprog = "mutex2" THEN {<<t, 1>>} ELSE {}
                          /\ \A u \in Thr \ {t} : fpc[u] = "free" => fp[u] # fp[t]

\* The count of an object is the number of its references.
Counts ==
    /\ \A t \in Thr, o \in Foo : refs[t][o] > 0 => o \in alive
    /\ \A o \in Foo : IsFiniteSet(Refs(o))
    /\ \A o \in alive : f_count[o] = Cardinality(Refs(o))

\* An object is in the chain, once, unless it is still to be inserted or has
\* been unlinked.
Gone(o) == \E t \in Thr : fpc[t] \in {"alloc", "free"} /\ fp[t] = o
\* The chain has no duplicates, and holds the live objects but those.
Chain ==
    /\ \A i, j \in DOMAIN fh : fh[i] = fh[j] => i = j
    /\ \A o \in Foo : InChain(o) <=> o \in alive /\ ~Gone(o)

\* The inductive invariant.  mutex1.c has no chain.
FooInv ==
    /\ FooTypes /\ HoldsHash /\ Counts
    /\ \A t \in Thr : InCall(t)
    /\ fprog # "mutex1" => Chain

\* Nobody has an object at the start.
LEMMA FooInitOK == fooInit => FooInv
<1> SUFFICES ASSUME fooInit PROVE FooInv
  BY Zenon
<1>1. /\ \A t \in Thr : fpc[t] = "idle" /\ (\A o \in Foo : refs[t][o] = 0)
      /\ alive = {} /\ fh = << >>
  BY Zenon DEF fooInit
<1>2. FooTypes
  BY DEF fooInit, FooTypes
<1>3. \A t \in Thr : InCall(t)
  BY Zenon, <1>1 DEF InCall
<1>4. \A o \in Foo : Refs(o) = {}
  BY <1>1 DEF Refs, Allocates
<1>5. Counts
  <2>1. \A t \in Thr, o \in Foo : ~(refs[t][o] > 0)
    BY <1>1
  <2>2. IsFiniteSet({})
    BY Zenon, FS_EmptySet
  <2> QED BY ZenonT(30), <1>1, <1>4, <2>1, <2>2 DEF Counts
<1>6. Chain
  BY <1>1 DEF Chain, InChain
<1> QED BY Zenon, <1>1, <1>2, <1>3, <1>5, <1>6 DEF FooInv, HoldsHash

\* The invariant is what the property says, and more.
LEMMA PropertyOfFoo == FooInv => CountIsReferences
<1> SUFFICES ASSUME FooInv PROVE CountIsReferences
  BY Zenon
<1>1. ASSUME fprog # "mutex1"
      PROVE  IsInjective(fh) /\ Range(fh) = alive \ {fp[t] : t \in {u \in Thr : fpc[u] \in {"alloc", "free"}}}
  <2>1. Chain /\ FooTypes
    BY Zenon, <1>1 DEF FooInv
  <2>2. \A o : o \in Range(fh) <=> o \in Foo /\ InChain(o)
    BY <2>1 DEF Range, InChain, FooTypes
  <2>3. \A o : o \in {fp[t] : t \in {u \in Thr : fpc[u] \in {"alloc", "free"}}} <=> Gone(o)
    BY Zenon DEF Gone
  <2>4. \A o : o \in alive => o \in Foo
    BY Zenon, <2>1 DEF FooTypes
  <2> QED BY Zenon, <2>1, <2>2, <2>3, <2>4 DEF Chain, IsInjective
<1>2. \A t \in Thr : fpc[t] # "idle" => fp[t] \in alive
  BY ZenonT(30) DEF FooInv, InCall
<1> QED BY Zenon, <1>1, <1>2 DEF FooInv, Counts, CountIsReferences

\* What a reference is.
RefsOf(o) ==
    \A x : x \in Refs(o) <=> \E t \in Thr : \/ \E n \in Nat : n > 0 /\ n <= refs[t][o] /\ x = <<t, n>>
                                            \/ x = <<t, 0>> /\ Allocates(t, o)

\* It is what Refs says it is, before and after a step.
LEMMA RefsAre == FooTypes => \A o \in Foo : RefsOf(o)
<1> SUFFICES ASSUME FooTypes, NEW o \in Foo, NEW x
             PROVE  x \in Refs(o) <=> \E t \in Thr :
                        \/ \E n \in Nat : n > 0 /\ n <= refs[t][o] /\ x = <<t, n>>
                        \/ x = <<t, 0>> /\ Allocates(t, o)
  BY Zenon DEF RefsOf
<1>1. \A t \in Thr : refs[t][o] \in Nat
  BY Zenon DEF FooTypes
<1>2. \A t \in Thr : x \in {t} \X (1 .. refs[t][o]) <=> \E n \in Nat : n > 0 /\ n <= refs[t][o] /\ x = <<t, n>>
  BY <1>1
<1>3. x \in UNION {{t} \X (1 .. refs[t][o]) : t \in Thr} <=> \E t \in Thr : x \in {t} \X (1 .. refs[t][o])
  BY Zenon
<1>4. x \in {<<t, 0>> : t \in {u \in Thr : Allocates(u, o)}} <=> \E t \in Thr : x = <<t, 0>> /\ Allocates(t, o)
  BY Zenon
<1> QED BY <1>2, <1>3, <1>4, Zenon DEF Refs

\* The same after a step.
LEMMA RefsAreNext == FooTypes' => (\A o \in Foo : RefsOf(o))'
BY RefsAre, PTL

\* A thread gains a reference, drops one, or nothing of an object changes.
LEMMA RefsGain ==
    ASSUME FooTypes, FooTypes', NEW t \in Thr, NEW o \in Foo, refs'[t][o] = refs[t][o] + 1,
           \A u \in Thr \ {t} : refs'[u][o] = refs[u][o],
           \A u \in Thr : Allocates(u, o)' <=> Allocates(u, o)
    PROVE  /\ Refs(o)' = Refs(o) \cup {<<t, refs[t][o] + 1>>}
           /\ <<t, refs[t][o] + 1>> \notin Refs(o)
<1>a. RefsOf(o)
  BY Zenon, RefsAre
<1>b. RefsOf(o)'
  BY Zenon, RefsAreNext
<1>1. \A u \in Thr : refs[u][o] \in Nat /\ refs'[u][o] \in Nat
  BY DEF FooTypes
<1>2. \A x : x \in Refs(o)' <=> x \in Refs(o) \cup {<<t, refs[t][o] + 1>>}
  <2> TAKE x
  <2> QED BY <1>1, <1>a, <1>b DEF RefsOf
<1>3. <<t, refs[t][o] + 1>> \notin Refs(o)
  BY <1>1, <1>a DEF RefsOf
<1> QED BY Zenon, <1>2, <1>3

\* One reference less is one element less.
LEMMA RefsDrop ==
    ASSUME FooTypes, FooTypes', NEW t \in Thr, NEW o \in Foo, refs'[t][o] = refs[t][o] - 1, refs[t][o] > 0,
           \A u \in Thr \ {t} : refs'[u][o] = refs[u][o],
           \A u \in Thr : Allocates(u, o)' <=> Allocates(u, o)
    PROVE  /\ Refs(o)' = Refs(o) \ {<<t, refs[t][o]>>}
           /\ <<t, refs[t][o]>> \in Refs(o)
<1>a. RefsOf(o)
  BY Zenon, RefsAre
<1>b. RefsOf(o)'
  BY Zenon, RefsAreNext
<1>1. \A u \in Thr : refs[u][o] \in Nat /\ refs'[u][o] \in Nat
  BY DEF FooTypes
<1>2. \A x : x \in Refs(o)' <=> x \in Refs(o) \ {<<t, refs[t][o]>>}
  <2> TAKE x
  <2> QED BY <1>1, <1>a, <1>b DEF RefsOf
<1>3. <<t, refs[t][o]>> \in Refs(o)
  BY <1>1, <1>a DEF RefsOf
<1> QED BY Zenon, <1>2, <1>3

\* An object whose references nobody changes keeps the set.
LEMMA RefsSame ==
    ASSUME FooTypes, FooTypes', NEW o \in Foo, \A u \in Thr : refs'[u][o] = refs[u][o],
           \A u \in Thr : Allocates(u, o)' <=> Allocates(u, o)
    PROVE  Refs(o)' = Refs(o)
<1>a. RefsOf(o)
  BY Zenon, RefsAre
<1>b. RefsOf(o)'
  BY Zenon, RefsAreNext
<1>1. \A x : x \in Refs(o)' <=> x \in Refs(o)
  <2> TAKE x
  <2> QED BY <1>a, <1>b DEF RefsOf
<1> QED BY Zenon, <1>1

\* Only the thread that makes a step moves.
Only(t) == \A u \in Thr \ {t} : fpc'[u] = fpc[u] /\ fp'[u] = fp[u]

\* A step of a thread t keeps the invariant if it keeps what the others know.
LEMMA ThreadStep ==
    ASSUME FooInv, NEW t \in Thr, Only(t), fprog' = fprog,
           FooTypes', HoldsHash', Counts', InCall(t)', fprog # "mutex1" => Chain',
           \A u \in Thr \ {t} : fpc[u] # "idle" => fp[u] \in alive',
           \A u \in Thr \ {t} : fpc[u] \in {"alloc", "free"} => Refs(fp[u])' = Refs(fp[u]),
           \A u \in Thr \ {t} : fpc[u] = "find" => InChain(fp[u])',
           \A u \in Thr \ {t} : fpc[u] \in {"rele", "rele_lock"} => refs'[u][fp[u]] > 0,
           \A u \in Thr \ {t} : fpc[u] = "free" /\ fpc'[t] = "free" => fp'[t] # fp[u]
    PROVE  FooInv'
<1>1. ASSUME NEW u \in Thr \ {t} PROVE InCall(u)'
  <2>1. fpc'[u] = fpc[u] /\ fp'[u] = fp[u]
    BY Zenon DEF Only
  <2>2. InCall(u)
    BY Zenon DEF FooInv
  <2>3. fpc[u] = "free" => \A v \in Thr \ {u} : fpc'[v] = "free" => fp'[v] # fp'[u]
    BY Zenon, <2>1, <2>2 DEF Only, InCall
  <2> QED BY Zenon, <2>1, <2>2, <2>3 DEF InCall
<1> QED BY Zenon, <1>1 DEF FooInv

\* Nobody is about to insert or to free an object that is in the chain, or
\* that an idle thread has a reference to.
LEMMA NotGone ==
    ASSUME FooInv, NEW o \in Foo,
           \/ fprog # "mutex1" /\ InChain(o)
           \/ \E t \in Thr : refs[t][o] > 0 /\ fpc[t] # "free"
    PROVE  o \in alive /\ ~Gone(o)
<1>1. CASE fprog # "mutex1" /\ InChain(o)
  BY Zenon, <1>1 DEF FooInv, Chain
<1>2. ASSUME NEW t \in Thr, refs[t][o] > 0, fpc[t] # "free" PROVE o \in alive /\ ~Gone(o)
  <2>1. o \in alive
    BY Zenon, <1>2 DEF FooInv, Counts
  <2>2. <<t, 1>> \in Refs(o)
    <3>1. refs[t][o] \in Nat /\ 1 <= refs[t][o]
      BY <1>2 DEF FooInv, FooTypes
    <3>2. RefsOf(o)
      BY Zenon, RefsAre DEF FooInv
    <3> QED BY <3>1, <3>2 DEF RefsOf
  <2>3. ASSUME NEW u \in Thr, fpc[u] \in {"alloc", "free"}, fp[u] = o PROVE FALSE
    <3>1. u # t \/ fpc[u] = "alloc"
      BY Zenon, <1>2, <2>3
    <3>2. Refs(o) = {<<u, 0>>} \/ Refs(o) = {<<u, 1>>} \/ Refs(o) = {}
      BY ZenonT(30), <2>3 DEF FooInv, InCall
    <3>3. fpc[u] = "alloc" => Refs(o) = {<<u, 0>>}
      BY ZenonT(30), <2>3 DEF FooInv, InCall
    <3> QED BY <2>2, <3>1, <3>2, <3>3
  <2> QED BY Zenon, <2>1, <2>3 DEF Gone
<1> QED BY Zenon, <1>1, <1>2

\* A step that changes neither the objects nor who is about to insert or free
\* one keeps the counts and the chain.
LEMMA ControlStep ==
    ASSUME FooInv, NEW t \in Thr, Only(t), UNCHANGED <<fprog, f_count, fh, alive, refs>>,
           FooTypes', HoldsHash', InCall(t)',
           \A o \in Foo : Allocates(t, o)' <=> Allocates(t, o),
           fpc[t] \notin {"alloc", "free"}, fpc'[t] \notin {"alloc", "free"}
    PROVE  FooInv'
<1>1. \A u \in Thr, o \in Foo : Allocates(u, o)' <=> Allocates(u, o)
  BY Zenon DEF Only, Allocates
<1>2. \A o \in Foo : Refs(o)' = Refs(o)
  BY Zenon, <1>1, RefsSame DEF FooInv
<1>3. Counts'
  BY Zenon, <1>2 DEF FooInv, FooTypes, Counts
<1>4. \A o : Gone(o)' <=> Gone(o)
  BY Zenon DEF Gone, Only
<1>5. \A o : InChain(o)' <=> InChain(o)
  BY Zenon DEF InChain
<1>6. fprog # "mutex1" => Chain'
  BY Zenon, <1>4, <1>5 DEF FooInv, Chain
<1>7. \A u \in Thr : InCall(u)
  BY Zenon DEF FooInv
<1>8. \A u \in Thr : fpc[u] # "idle" => fp[u] \in alive' /\ fp[u] \in Foo
  BY Zenon, <1>7 DEF InCall, FooInv, FooTypes
<1>9. \A u \in Thr \ {t} : fpc[u] \in {"alloc", "free"} => Refs(fp[u])' = Refs(fp[u])
  <2> TAKE u \in Thr \ {t}
  <2> HAVE fpc[u] \in {"alloc", "free"}
  <2>1. fp[u] \in Foo /\ fp'[u] = fp[u]
    BY Zenon, <1>8 DEF Only
  <2> QED BY Zenon, <1>2, <2>1
<1>10. \A u \in Thr \ {t} : fpc[u] = "find" => InChain(fp[u])'
  BY ZenonT(30), <1>5, <1>7 DEF InCall, Only
<1>11. \A u \in Thr \ {t} : fpc[u] \in {"rele", "rele_lock"} => refs'[u][fp[u]] > 0
  BY ZenonT(30), <1>7 DEF InCall
<1> QED BY Zenon, <1>3, <1>6, <1>8, <1>9, <1>10, <1>11, ThreadStep

\* A call ends that has changed the references to an object and its count.
LEMMA CountStep ==
    ASSUME FooInv, NEW t \in Thr, NEW o \in Foo, o \in alive, ~Gone(o),
           Only(t), UNCHANGED <<fprog, fh, alive>>, FooTypes', HoldsHash',
           fpc[t] \notin {"alloc", "free"}, fpc'[t] = "idle",
           \A p \in Foo \ {o} : f_count'[p] = f_count[p] /\ Refs(p)' = Refs(p),
           IsFiniteSet(Refs(o)'), f_count'[o] = Cardinality(Refs(o)'),
           \A u \in Thr : \A p \in Foo \ {o} : refs'[u][p] = refs[u][p],
           \A u \in Thr \ {t} : refs'[u][o] >= refs[u][o]
    PROVE  FooInv'
<1>0. FooTypes /\ Counts /\ \A u \in Thr : InCall(u)
  BY Zenon DEF FooInv
<1>1. Counts'
  <2>1. \A u \in Thr, p \in Foo : refs'[u][p] > 0 => p \in alive'
    BY <1>0 DEF Counts
  <2>2. \A p \in Foo : IsFiniteSet(Refs(p)')
    BY Zenon, <1>0 DEF Counts
  <2>3. \A p \in alive' : f_count'[p] = Cardinality(Refs(p)')
    BY ZenonT(30), <1>0 DEF Counts, FooTypes
  <2> QED BY ZenonT(30), <2>1, <2>2, <2>3 DEF Counts
<1>2. \A p : Gone(p)' <=> Gone(p)
  BY Zenon DEF Gone, Only
<1>3. \A p : InChain(p)' <=> InChain(p)
  BY Zenon DEF InChain
<1>4. fprog # "mutex1" => Chain'
  BY Zenon, <1>2, <1>3 DEF FooInv, Chain
<1>5. InCall(t)'
  BY Zenon DEF InCall
<1>6. \A u \in Thr : fpc[u] # "idle" => fp[u] \in alive' /\ fp[u] \in Foo
  BY Zenon, <1>0 DEF InCall, FooTypes
<1>7. \A u \in Thr \ {t} : fpc[u] \in {"alloc", "free"} => Refs(fp[u])' = Refs(fp[u])
  <2> TAKE u \in Thr \ {t}
  <2> HAVE fpc[u] \in {"alloc", "free"}
  <2>1. fp[u] \in Foo \ {o} /\ fp'[u] = fp[u]
    BY Zenon, <1>6 DEF Only, Gone
  <2> QED BY Zenon, <2>1
<1>8. \A u \in Thr \ {t} : fpc[u] = "find" => InChain(fp[u])'
  BY ZenonT(30), <1>0, <1>3 DEF InCall, Only
<1>9. \A u \in Thr \ {t} : fpc[u] \in {"rele", "rele_lock"} => refs'[u][fp[u]] > 0
  <2> TAKE u \in Thr \ {t}
  <2> HAVE fpc[u] \in {"rele", "rele_lock"}
  <2>1. fp[u] \in Foo /\ refs[u][fp[u]] > 0
    BY ZenonT(30), <1>0, <1>6 DEF InCall
  <2>2. refs[u][fp[u]] \in Nat /\ refs'[u][fp[u]] \in Nat
    BY <1>0, <2>1 DEF FooTypes
  <2> QED BY <2>1, <2>2
<1> QED BY <1>1, <1>4, <1>5, <1>6, <1>7, <1>8, <1>9, ThreadStep

\* One more reference, for any thread.
LEMMA GainStep ==
    ASSUME FooInv, NEW t \in Thr, NEW v \in Thr, NEW o \in Foo, o \in alive, ~Gone(o),
           UNCHANGED <<fprog, fh, alive, fp>>, fpc' = [fpc EXCEPT ![t] = "idle"], HoldsHash',
           fpc[t] \in {"idle", "find"}, Gain(v, o), f_count' = [f_count EXCEPT ![o] = @ + 1]
    PROVE  FooInv'
<1>0. FooTypes /\ Counts
  BY Zenon DEF FooInv
<1>1. /\ refs'[v][o] = refs[v][o] + 1
      /\ \A u \in Thr \ {v} : refs'[u][o] = refs[u][o]
      /\ \A u \in Thr : \A p \in Foo \ {o} : refs'[u][p] = refs[u][p]
      /\ refs' \in [Thr -> [Foo -> Nat]] /\ \A u \in Thr : refs[u][o] \in Nat
  BY <1>0 DEF Gain, FooTypes
<1>2. FooTypes'
  BY <1>0, <1>1 DEF FooTypes
<1>3. Only(t) /\ fpc'[t] = "idle"
  BY Zenon, <1>0 DEF Only, FooTypes
<1>4. \A u \in Thr, p \in Foo : Allocates(u, p)' <=> Allocates(u, p)
  BY Zenon, <1>3 DEF Only, Allocates
<1>5. \A p \in Foo \ {o} : Refs(p)' = Refs(p)
  BY Zenon, <1>0, <1>1, <1>2, <1>4, RefsSame
<1>6. /\ Refs(o)' = Refs(o) \cup {<<v, refs[v][o] + 1>>}
      /\ <<v, refs[v][o] + 1>> \notin Refs(o)
  BY ZenonT(30), <1>0, <1>1, <1>2, <1>4, RefsGain
<1>7. IsFiniteSet(Refs(o)) /\ f_count[o] = Cardinality(Refs(o))
  BY Zenon, <1>0 DEF Counts
<1>8. IsFiniteSet(Refs(o)') /\ Cardinality(Refs(o)') = f_count[o] + 1
  BY <1>6, <1>7, FS_AddElement
<1>9. f_count'[o] = f_count[o] + 1 /\ \A p \in Foo \ {o} : f_count'[p] = f_count[p]
  BY Zenon, <1>0 DEF FooTypes
<1>10. \A u \in Thr \ {t} : refs'[u][o] >= refs[u][o]
  BY <1>1
<1> QED BY ZenonT(30), <1>1, <1>2, <1>3, <1>5, <1>8, <1>9, <1>10, CountStep

\* One element less.
LEMMA OneLess ==
    ASSUME NEW S, IsFiniteSet(S), NEW x \in S, NEW T, T = S \ {x}
    PROVE  IsFiniteSet(T) /\ Cardinality(T) = Cardinality(S) - 1
BY Zenon, FS_RemoveElement

\* A thread drops one of its references.
LEMMA DropStep ==
    ASSUME FooInv, NEW t \in Thr, NEW o \in Foo, o \in alive, ~Gone(o),
           UNCHANGED <<fprog, fh, alive, fp>>, fpc' = [fpc EXCEPT ![t] = "idle"], HoldsHash',
           fpc[t] \in {"idle", "rele_lock"}, refs[t][o] > 0,
           Drop(t, o), f_count' = [f_count EXCEPT ![o] = @ - 1]
    PROVE  FooInv'
<1>0. FooTypes /\ Counts
  BY Zenon DEF FooInv
<1>1. /\ refs'[t][o] = refs[t][o] - 1
      /\ \A u \in Thr \ {t} : refs'[u][o] = refs[u][o]
      /\ \A u \in Thr : \A p \in Foo \ {o} : refs'[u][p] = refs[u][p]
      /\ refs' \in [Thr -> [Foo -> Nat]] /\ \A u \in Thr : refs[u][o] \in Nat
  BY <1>0 DEF Drop, FooTypes
<1>2. FooTypes'
  BY <1>0, <1>1 DEF FooTypes
<1>3. Only(t) /\ fpc'[t] = "idle"
  BY Zenon, <1>0 DEF Only, FooTypes
<1>4. \A u \in Thr, p \in Foo : Allocates(u, p)' <=> Allocates(u, p)
  BY Zenon, <1>3 DEF Only, Allocates
<1>5. \A p \in Foo \ {o} : Refs(p)' = Refs(p)
  BY Zenon, <1>0, <1>1, <1>2, <1>4, RefsSame
<1>6. /\ Refs(o)' = Refs(o) \ {<<t, refs[t][o]>>}
      /\ <<t, refs[t][o]>> \in Refs(o)
  BY ZenonT(30), <1>0, <1>1, <1>2, <1>4, RefsDrop
<1>7. IsFiniteSet(Refs(o)) /\ f_count[o] = Cardinality(Refs(o))
  BY Zenon, <1>0 DEF Counts
<1>8. IsFiniteSet(Refs(o)') /\ Cardinality(Refs(o)') = f_count[o] - 1
  BY Zenon, <1>6, <1>7, OneLess
<1>9. f_count'[o] = f_count[o] - 1 /\ \A p \in Foo \ {o} : f_count'[p] = f_count[p]
  BY Zenon, <1>0 DEF FooTypes
<1>10. \A u \in Thr \ {t} : refs'[u][o] >= refs[u][o]
  BY <1>1
<1> QED BY Zenon, <1>1, <1>2, <1>3, <1>5, <1>8, <1>9, <1>10, CountStep

\* foo_alloc puts its object, which is not in the chain, at the head of it.
LEMMA ChainInsert ==
    ASSUME FooTypes, NEW o \in Foo, ~InChain(o), fh' = <<o>> \o fh,
           \A i, j \in DOMAIN fh : fh[i] = fh[j] => i = j
    PROVE  /\ fh' \in Seq(Foo)
           /\ \A i, j \in DOMAIN fh' : fh'[i] = fh'[j] => i = j
           /\ \A p : InChain(p)' <=> p = o \/ InChain(p)
<1>1. /\ fh \in Seq(Foo) /\ fh' \in Seq(Foo) /\ Len(fh) \in Nat
      /\ DOMAIN fh = 1 .. Len(fh) /\ DOMAIN fh' = 1 .. Len(fh) + 1
      /\ fh'[1] = o /\ \A i \in 1 .. Len(fh) : fh'[i + 1] = fh[i]
  BY DEF FooTypes
<1>2. \A i \in DOMAIN fh' : i = 1 \/ (i - 1 \in DOMAIN fh /\ fh'[i] = fh[i - 1])
  BY <1>1
<1>3. \A i \in DOMAIN fh : fh[i] # o
  BY Zenon DEF InChain
<1>4. \A i, j \in DOMAIN fh' : fh'[i] = fh'[j] => i = j
  BY <1>1, <1>2, <1>3
<1>5. \A p : InChain(p)' => p = o \/ InChain(p)
  BY <1>1, <1>2 DEF InChain
<1>6. 1 \in DOMAIN fh' /\ \A i \in DOMAIN fh : i + 1 \in DOMAIN fh'
  BY <1>1
<1>7. \A p : p = o \/ InChain(p) => InChain(p)'
  BY ZenonT(30), <1>1, <1>6 DEF InChain
<1> QED BY Zenon, <1>1, <1>4, <1>5, <1>7

\* One sequence after another.
LEMMA Joined ==
    ASSUME NEW S, NEW s \in Seq(S), NEW t \in Seq(S)
    PROVE  /\ s \o t \in Seq(S) /\ Len(s \o t) = Len(s) + Len(t)
           /\ DOMAIN (s \o t) = 1 .. Len(s \o t)
           /\ \A i \in 1 .. Len(s) : (s \o t)[i] = s[i]
           /\ \A i \in 1 .. Len(t) : (s \o t)[Len(s) + i] = t[i]
OBVIOUS

\* A sequence without its k-th element.
LEMMA CutOne ==
    ASSUME NEW S, NEW s \in Seq(S), NEW k \in 1 .. Len(s)
    PROVE  LET r == SubSeq(s, 1, k - 1) \o SubSeq(s, k + 1, Len(s)) IN
           /\ r \in Seq(S) /\ DOMAIN r = 1 .. Len(s) - 1
           /\ \A i \in 1 .. k - 1 : r[i] = s[i]
           /\ \A i \in k .. Len(s) - 1 : r[i] = s[i + 1]
<1> DEFINE a == SubSeq(s, 1, k - 1)
           b == SubSeq(s, k + 1, Len(s))
           r == a \o b
           n == Len(s)
<1>1. a \in Seq(S) /\ Len(a) = k - 1 /\ \A i \in 1 .. k - 1 : a[i] = s[i]
  OBVIOUS
<1>2. b \in Seq(S) /\ Len(b) = n - k /\ \A i \in 1 .. n - k : b[i] = s[k + i]
  OBVIOUS
<1>3. n \in Nat /\ k \in 1 .. n
  OBVIOUS
<1>a. a \in Seq(S) /\ b \in Seq(S)
  BY Zenon, <1>1, <1>2
<1> HIDE DEF a, b, n
<1>4. /\ r \in Seq(S) /\ Len(r) = Len(a) + Len(b)
      /\ DOMAIN r = 1 .. Len(r)
      /\ \A i \in 1 .. Len(a) : r[i] = a[i]
      /\ \A i \in 1 .. Len(b) : r[Len(a) + i] = b[i]
  BY ONLY <1>a, Joined
<1> HIDE DEF r
<1>5. DOMAIN r = 1 .. n - 1
  BY ONLY <1>1, <1>2, <1>3, <1>4
<1>6. \A i \in 1 .. k - 1 : r[i] = s[i]
  BY ONLY Zenon, <1>1, <1>4
<1>7. ASSUME NEW i \in k .. n - 1 PROVE r[i] = s[i + 1]
  <2>1. /\ i - (k - 1) \in 1 .. n - k
        /\ k + (i - (k - 1)) = i + 1 /\ (k - 1) + (i - (k - 1)) = i
    BY ONLY <1>3, <1>7
  <2>2. r[(k - 1) + (i - (k - 1))] = b[i - (k - 1)]
    BY ONLY SMTT(40), <1>1, <1>2, <1>4, <2>1
  <2>3. b[i - (k - 1)] = s[k + (i - (k - 1))]
    BY ONLY Zenon, <1>2, <2>1
  <2> QED BY ONLY Zenon, <2>1, <2>2, <2>3
<1> QED BY <1>4, <1>5, <1>6, <1>7, Zenon DEF a, b, r, n

\* foo_rele takes an object out of the chain, and only that one.
LEMMA ChainUnlink ==
    ASSUME FooTypes, NEW o \in Foo, InChain(o), fh' = Unlinked(o),
           \A i, j \in DOMAIN fh : fh[i] = fh[j] => i = j
    PROVE  /\ fh' \in Seq(Foo)
           /\ \A i, j \in DOMAIN fh' : fh'[i] = fh'[j] => i = j
           /\ \A p : InChain(p)' <=> p # o /\ InChain(p)
<1> DEFINE at == CHOOSE i \in DOMAIN fh : fh[i] = o
<1>1. at \in DOMAIN fh /\ fh[at] = o
  BY Zenon DEF InChain
<1>2. fh' = SubSeq(fh, 1, at - 1) \o SubSeq(fh, at + 1, Len(fh))
  BY Zenon DEF Unlinked
<1> HIDE DEF at
<1>3. /\ fh \in Seq(Foo) /\ DOMAIN fh = 1 .. Len(fh) /\ Len(fh) \in Nat
      /\ at \in 1 .. Len(fh)
  BY <1>1 DEF FooTypes
<1>4. /\ fh' \in Seq(Foo) /\ DOMAIN fh' = 1 .. Len(fh) - 1
      /\ \A i \in 1 .. at - 1 : fh'[i] = fh[i]
      /\ \A i \in at .. Len(fh) - 1 : fh'[i] = fh[i + 1]
  BY ONLY Zenon, <1>2, <1>3, CutOne
<1> DEFINE was(i) == IF i < at THEN i ELSE i + 1
<1>5. \A i \in DOMAIN fh' : fh'[i] = fh[was(i)] /\ was(i) \in DOMAIN fh /\ was(i) # at
  BY <1>3, <1>4
<1>a. \A i, j \in DOMAIN fh' : was(i) = was(j) => i = j
  BY <1>3, <1>4
<1> HIDE DEF was
<1>6. \A i, j \in DOMAIN fh' : fh'[i] = fh'[j] => i = j
  BY <1>5, <1>a
<1>7. \A p : InChain(p)' => p # o /\ InChain(p)
  BY <1>1, <1>5 DEF InChain
<1>8. ASSUME NEW p, p # o, InChain(p) PROVE InChain(p)'
  <2>1. PICK i \in DOMAIN fh : fh[i] = p
    BY Zenon, <1>8 DEF InChain
  <2>2. i # at
    BY Zenon, <1>1, <1>8, <2>1
  <2>3. i \in 1 .. at - 1 \/ i - 1 \in at .. Len(fh) - 1
    BY <1>3, <2>2
  <2>4. \E k \in DOMAIN fh' : fh'[k] = fh[i]
    <3>1. CASE i \in 1 .. at - 1
      BY SMTT(40), <1>3, <1>4, <3>1
    <3>2. CASE i - 1 \in at .. Len(fh) - 1
      <4>1. i - 1 \in DOMAIN fh' /\ (i - 1) + 1 = i
        BY <1>3, <1>4, <3>2
      <4> QED BY Zenon, <1>4, <3>2, <4>1
    <3> QED BY Zenon, <2>3, <3>1, <3>2
  <2> QED BY Zenon, <2>1, <2>4 DEF InChain
<1> QED BY Zenon, <1>4, <1>6, <1>7, <1>8

\* foo_alloc: nobody has a reference to memory that malloc can return.
LEMMA AllocStep ==
    ASSUME FooInv, NEW t \in Thr, foo_alloc(t)
    PROVE  FooInv'
<1>0. FooTypes /\ Counts /\ HoldsHash /\ \A u \in Thr : InCall(u)
  BY Zenon DEF FooInv
<1>1. PICK o \in Foo \ alive :
         /\ alive' = alive \cup {o} /\ f_count' = [f_count EXCEPT ![o] = 1]
         /\ IF fprog = "mutex1" THEN Gain(t, o) /\ UNCHANGED <<fpc, fp>>
            ELSE Calls(t, o, "alloc") /\ UNCHANGED refs
  BY Zenon DEF foo_alloc
<1>2. fpc[t] = "idle" /\ UNCHANGED <<fprog, fh, hashlock>>
  BY Zenon DEF foo_alloc, Idle
<1>3. /\ \A u \in Thr : refs[u][o] = 0
      /\ \A u \in Thr : fpc[u] # "idle" => fp[u] # o
  BY <1>0, <1>1 DEF Counts, InCall, FooTypes
<1>4. Refs(o) = {}
  BY <1>3 DEF Refs, Allocates
<1>5. /\ \A u \in Thr, p \in Foo \ {o} : refs'[u][p] = refs[u][p] /\ (Allocates(u, p)' <=> Allocates(u, p))
      /\ Only(t) /\ FooTypes' /\ fpc'[t] \notin {"free", "find", "rele", "rele_lock"}
      /\ fpc'[t] # "idle" => fp'[t] = o /\ fpc'[t] = "alloc" /\ fprog # "mutex1"
      /\ fpc'[t] \notin {"alloc_lock", "find", "rele_lock"}
      /\ fprog # "mutex1" => fpc'[t] = "alloc"
  <2>1. CASE fprog = "mutex1"
    <3>1. fpc' = fpc /\ fp' = fp /\ Gain(t, o)
      BY Zenon, <1>1, <2>1
    <3>2. /\ refs' \in [Thr -> [Foo -> Nat]]
          /\ \A u \in Thr, p \in Foo \ {o} : refs'[u][p] = refs[u][p]
      BY <1>0, <3>1 DEF Gain, FooTypes
    <3>3. FooTypes'
      BY SMTT(40), <1>0, <1>1, <1>2, <3>1, <3>2 DEF FooTypes
    <3> QED BY Zenon, <1>2, <2>1, <3>1, <3>2, <3>3 DEF Only, Allocates
  <2>2. CASE fprog # "mutex1"
    <3>1. refs' = refs /\ fpc' = [fpc EXCEPT ![t] = "alloc"] /\ fp' = [fp EXCEPT ![t] = o]
      BY Zenon, <1>1, <2>2 DEF Calls, To
    <3>2. FooTypes'
      BY <1>0, <1>1, <1>2, <3>1 DEF FooTypes, Busy
    <3>3. Only(t) /\ fpc'[t] = "alloc" /\ fp'[t] = o
      BY Zenon, <1>0, <3>1 DEF FooTypes, Only
    <3>4. \A u \in Thr, p \in Foo \ {o} : Allocates(u, p)' <=> Allocates(u, p)
      BY Zenon, <1>2, <3>3 DEF Only, Allocates
    <3> QED BY <2>2, <3>1, <3>2, <3>3, <3>4
  <2> QED BY Zenon, <2>1, <2>2
<1>6. \A p \in Foo \ {o} : Refs(p)' = Refs(p)
  BY Zenon, <1>0, <1>5, RefsSame
<1>7. Refs(o)' = IF fprog = "mutex1" THEN {<<t, 1>>} ELSE {<<t, 0>>}
  <2>1. RefsOf(o)'
    BY Zenon, <1>5, RefsAreNext
  <2>2. CASE fprog = "mutex1"
    <3>1. /\ refs'[t][o] = 1 /\ \A u \in Thr \ {t} : refs'[u][o] = 0
          /\ \A u \in Thr : ~Allocates(u, o)'
      BY <1>0, <1>1, <1>2, <1>3, <2>2 DEF Gain, FooTypes, Allocates
    <3>2. \A x : x \in Refs(o)' <=> x = <<t, 1>>
      BY <2>1, <3>1 DEF RefsOf
    <3> QED BY ZenonT(30), <2>2, <3>2
  <2>3. CASE fprog # "mutex1"
    <3>1. /\ \A u \in Thr : refs'[u][o] = 0
          /\ \A u \in Thr : Allocates(u, o)' <=> u = t
      BY Zenon, <1>0, <1>1, <1>2, <1>3, <2>3 DEF Calls, To, FooTypes, Allocates
    <3>2. \A x : x \in Refs(o)' <=> x = <<t, 0>>
      BY <2>1, <3>1 DEF RefsOf
    <3> QED BY Zenon, <2>3, <3>2
  <2> QED BY Zenon, <2>2, <2>3
<1>8. IsFiniteSet(Refs(o)') /\ Cardinality(Refs(o)') = 1
  BY Zenon, <1>7, FS_Singleton
<1>9. Counts'
  <2>1. \A u \in Thr, p \in Foo : refs'[u][p] > 0 => p \in alive'
    BY Zenon, <1>0, <1>1, <1>5 DEF Counts
  <2>2. \A p \in Foo : IsFiniteSet(Refs(p)')
    BY Zenon, <1>0, <1>6, <1>8 DEF Counts
  <2>3. \A p \in alive' : f_count'[p] = Cardinality(Refs(p)')
    BY Zenon, <1>0, <1>1, <1>6, <1>8 DEF Counts, FooTypes
  <2> QED BY Zenon, <2>1, <2>2, <2>3 DEF Counts
<1>10. fprog # "mutex1" => Chain'
  <2>1. \A p : InChain(p)' <=> InChain(p)
    BY Zenon, <1>2 DEF InChain
  <2> SUFFICES ASSUME fprog # "mutex1" PROVE Chain'
    BY Zenon
  <2>2. \A p : Gone(p)' <=> Gone(p) \/ p = o
    BY <1>2, <1>5 DEF Gone, Only
  <2> QED BY Zenon, <1>1, <1>2, <2>1, <2>2 DEF FooInv, Chain
<1>11. InCall(t)'
  BY Zenon, <1>1, <1>2, <1>5, <1>7 DEF InCall
<1>12. HoldsHash'
  BY <1>0, <1>2, <1>5 DEF HoldsHash, Only
<1>13. \A u \in Thr \ {t} : fpc[u] # "idle" => fp[u] \in alive' /\ fp[u] \in Foo \ {o} /\ fp'[u] = fp[u]
  BY <1>0, <1>1, <1>3, <1>5 DEF InCall, FooTypes, Only
<1>14. \A u \in Thr \ {t} : fpc[u] \in {"alloc", "free"} => Refs(fp[u])' = Refs(fp[u])
  BY Zenon, <1>6, <1>13
<1>15. \A u \in Thr \ {t} : fpc[u] = "find" => InChain(fp[u])'
  BY Zenon, <1>0, <1>2, <1>13 DEF InCall, InChain
<1>16. \A u \in Thr \ {t} : fpc[u] \in {"rele", "rele_lock"} => refs'[u][fp[u]] > 0
  BY Zenon, <1>0, <1>5, <1>13 DEF InCall
<1> QED BY ZenonT(30), <1>2, <1>5, <1>9, <1>10, <1>11, <1>12, <1>13, <1>14, <1>15, <1>16, ThreadStep

\* Two threads never insert or free the same object.
LEMMA GoneOnce ==
    ASSUME FooInv, NEW t \in Thr, NEW u \in Thr \ {t},
           fpc[t] \in {"alloc", "free"}, fpc[u] \in {"alloc", "free"}
    PROVE  fp[u] # fp[t]
<1>1. InCall(t) /\ InCall(u)
  BY Zenon DEF FooInv
<1>2. CASE fpc[t] = "free" /\ fpc[u] = "free"
  BY Zenon, <1>1, <1>2 DEF InCall
<1>3. CASE fpc[t] = "alloc" \/ fpc[u] = "alloc"
  <2>1. fpc[t] = "alloc" => Refs(fp[t]) = {<<t, 0>>}
    BY Zenon, <1>1 DEF InCall
  <2>2. fpc[u] = "alloc" => Refs(fp[u]) = {<<u, 0>>}
    BY Zenon, <1>1 DEF InCall
  <2>3. fpc[t] = "free" => Refs(fp[t]) = {<<t, 1>>} \/ Refs(fp[t]) = {}
    BY Zenon, <1>1 DEF InCall
  <2>4. fpc[u] = "free" => Refs(fp[u]) = {<<u, 1>>} \/ Refs(fp[u]) = {}
    BY Zenon, <1>1 DEF InCall
  <2>5. <<t, 0>> # <<u, 0>> /\ <<t, 0>> # <<u, 1>> /\ <<u, 0>> # <<t, 1>>
    BY Zenon
  <2>6. CASE fpc[t] = "alloc"
    BY Zenon, <2>1, <2>2, <2>4, <2>5, <2>6
  <2>7. CASE fpc[u] = "alloc"
    BY Zenon, <2>1, <2>2, <2>3, <2>5, <2>7
  <2> QED BY Zenon, <1>3, <2>6, <2>7
<1> QED BY Zenon, <1>2, <1>3

\* Nobody else is about to insert or to free the object a foo_alloc works on.
LEMMA NewNotGone ==
    ASSUME FooInv, NEW t \in Thr, fpc[t] \in {"alloc_lock", "alloc_init"}
    PROVE  fp[t] \in alive /\ fp[t] \in Foo /\ ~Gone(fp[t]) /\ <<t, 0>> \in Refs(fp[t])
<1>1. fp[t] \in alive /\ fp[t] \in Foo
  BY Zenon DEF FooInv, InCall, FooTypes
<1>2. <<t, 0>> \in Refs(fp[t])
  <2>1. RefsOf(fp[t])
    BY Zenon, <1>1, RefsAre DEF FooInv
  <2>2. Allocates(t, fp[t])
    BY Zenon DEF Allocates
  <2> QED BY Zenon, <2>1, <2>2 DEF RefsOf
<1>3. ASSUME NEW u \in Thr, fpc[u] \in {"alloc", "free"}, fp[u] = fp[t] PROVE FALSE
  <2>1. u # t
    BY Zenon, <1>3
  <2>2. Refs(fp[u]) = {<<u, 0>>} \/ Refs(fp[u]) = {<<u, 1>>} \/ Refs(fp[u]) = {}
    BY Zenon, <1>3 DEF FooInv, InCall
  <2> QED BY <1>2, <1>3, <2>1, <2>2
<1> QED BY Zenon, <1>1, <1>2, <1>3 DEF Gone

\* The object enters the chain.
LEMMA InsertStep ==
    ASSUME FooInv, NEW t \in Thr, AllocInsert(t)
    PROVE  FooInv'
<1>0. FooTypes /\ Counts /\ HoldsHash /\ \A u \in Thr : InCall(u)
  BY Zenon DEF FooInv
<1> DEFINE o == fp[t]
<1>1. /\ fpc[t] = "alloc" /\ hashlock = Free /\ hashlock' = t
      /\ fh' = <<o>> \o fh /\ fpc' = [fpc EXCEPT ![t] = "alloc_lock"]
      /\ UNCHANGED <<fprog, f_count, alive, fp, refs>>
  BY Zenon DEF AllocInsert, To
<1>2. o \in alive /\ o \in Foo /\ fprog # "mutex1" /\ Gone(o)
  BY Zenon, <1>0, <1>1 DEF InCall, FooTypes, Gone
<1>3. Chain /\ ~InChain(o)
  BY Zenon, <1>2 DEF FooInv, Chain
<1> HIDE DEF o
<1>4. /\ fh' \in Seq(Foo)
      /\ \A i, j \in DOMAIN fh' : fh'[i] = fh'[j] => i = j
      /\ \A p : InChain(p)' <=> p = o \/ InChain(p)
  BY Zenon, <1>0, <1>1, <1>2, <1>3, ChainInsert DEF Chain
<1>5. FooTypes' /\ Only(t) /\ fpc'[t] = "alloc_lock"
  BY Zenon, <1>0, <1>1, <1>4 DEF FooTypes, Busy, Only
<1>6. \A u \in Thr, p \in Foo : Allocates(u, p)' <=> Allocates(u, p)
  BY Zenon, <1>1, <1>5 DEF Allocates, Only
<1>7. \A p \in Foo : Refs(p)' = Refs(p)
  BY Zenon, <1>0, <1>1, <1>5, <1>6, RefsSame
<1>8. Counts'
  BY Zenon, <1>0, <1>1, <1>7 DEF Counts, FooTypes
<1>9. \A p : Gone(p)' <=> Gone(p) /\ p # o
  <2>1. \A u \in Thr \ {t} : fpc[u] \in {"alloc", "free"} => fp[u] # o
    BY Zenon, <1>1, GoneOnce DEF o
  <2> QED BY Zenon, <1>1, <1>5, <2>1 DEF Gone, Only, o
<1>10. Chain'
  BY <1>1, <1>2, <1>3, <1>4, <1>9 DEF Chain
<1>11. InCall(t)'
  BY <1>1, <1>2, <1>5 DEF InCall, o
<1>12. HoldsHash'
  BY <1>0, <1>1, <1>5, FooAssumption DEF HoldsHash, Only
<1>13. \A u \in Thr \ {t} : fpc[u] # "idle" => fp[u] \in alive' /\ fp[u] \in Foo
  BY Zenon, <1>0, <1>1 DEF InCall, FooTypes
<1>14. \A u \in Thr \ {t} : fpc[u] \in {"alloc", "free"} => Refs(fp[u])' = Refs(fp[u])
  BY <1>1, <1>7, <1>13
<1>15. \A u \in Thr \ {t} : fpc[u] = "find" => InChain(fp[u])'
  BY Zenon, <1>0, <1>1, <1>4 DEF InCall
<1>16. \A u \in Thr \ {t} : fpc[u] \in {"rele", "rele_lock"} => refs'[u][fp[u]] > 0
  BY ZenonT(30), <1>0, <1>1 DEF InCall
<1> QED BY SMTT(40), <1>1, <1>5, <1>8, <1>10, <1>11, <1>12, <1>13, <1>14, <1>15, <1>16, ThreadStep

\* foo_alloc returns: the reference becomes the caller's.
LEMMA AllocDoneStep ==
    ASSUME FooInv, NEW t \in Thr, AllocDone(t)
    PROVE  FooInv'
<1>0. FooTypes /\ Counts /\ HoldsHash
  BY Zenon DEF FooInv
<1>a. fpc[t] = "alloc_init"
  BY Zenon DEF AllocDone
<1>b. PICK o \in Foo : o = fp[t]
  BY Zenon, <1>a, NewNotGone
<1>1. /\ fpc[t] = "alloc_init" /\ Gain(t, o) /\ fpc' = [fpc EXCEPT ![t] = "idle"]
      /\ UNCHANGED <<fprog, f_count, fh, alive, hashlock, fp>>
  BY Zenon, <1>b DEF AllocDone, To
<1>2. o \in alive /\ o \in Foo /\ ~Gone(o) /\ <<t, 0>> \in Refs(o)
  BY Zenon, <1>a, <1>b, NewNotGone
<1>3. /\ refs'[t][o] = refs[t][o] + 1
      /\ \A u \in Thr \ {t} : refs'[u][o] = refs[u][o]
      /\ \A u \in Thr : \A p \in Foo \ {o} : refs'[u][p] = refs[u][p]
      /\ refs' \in [Thr -> [Foo -> Nat]] /\ \A u \in Thr : refs[u][o] \in Nat
  BY <1>0, <1>1, <1>2 DEF Gain, FooTypes
<1>4. FooTypes' /\ Only(t) /\ fpc'[t] = "idle" /\ HoldsHash'
  BY Zenon, <1>0, <1>1, <1>3 DEF FooTypes, Only, HoldsHash
<1>5. \A u \in Thr, p \in Foo : p # o => (Allocates(u, p)' <=> Allocates(u, p))
  BY Zenon, <1>1, <1>4, <1>b DEF Allocates, Only
<1>6. \A p \in Foo \ {o} : Refs(p)' = Refs(p)
  BY Zenon, <1>0, <1>3, <1>4, <1>5, RefsSame
<1>7. Refs(o)' = (Refs(o) \ {<<t, 0>>}) \cup {<<t, refs[t][o] + 1>>} /\ <<t, refs[t][o] + 1>> \notin Refs(o)
  <2>1. RefsOf(o) /\ RefsOf(o)'
    BY Zenon, <1>0, <1>2, <1>4, RefsAre, RefsAreNext
  <2>2. \A u \in Thr : Allocates(u, o)' <=> Allocates(u, o) /\ u # t
    BY ZenonT(30), <1>1, <1>4, <1>b DEF Allocates, Only
  <2>3. \A x : x \in Refs(o)' <=> x \in (Refs(o) \ {<<t, 0>>}) \cup {<<t, refs[t][o] + 1>>}
    BY SMTT(40), <1>3, <2>1, <2>2 DEF RefsOf
  <2>4. <<t, refs[t][o] + 1>> \notin Refs(o)
    BY <1>3, <2>1 DEF RefsOf
  <2> QED BY Zenon, <2>3, <2>4
<1>8. IsFiniteSet(Refs(o)) /\ f_count[o] = Cardinality(Refs(o))
  BY Zenon, <1>0, <1>2 DEF Counts
<1>9. IsFiniteSet(Refs(o)') /\ Cardinality(Refs(o)') = f_count[o]
  <2> DEFINE S == Refs(o) \ {<<t, 0>>}
  <2>1. IsFiniteSet(S) /\ Cardinality(S) = Cardinality(Refs(o)) - 1
    BY Zenon, <1>2, <1>8, OneLess
  <2>2. Refs(o)' = S \cup {<<t, refs[t][o] + 1>>} /\ <<t, refs[t][o] + 1>> \notin S
    BY Zenon, <1>7
  <2>3. Cardinality(Refs(o)) \in Nat
    BY Zenon, <1>8, FS_CardinalityType
  <2> HIDE DEF S
  <2>4. IsFiniteSet(Refs(o)') /\ Cardinality(Refs(o)') = Cardinality(S) + 1
    BY Zenon, <2>1, <2>2, FS_AddElement
  <2> QED BY <1>8, <2>1, <2>3, <2>4
<1> QED BY <1>1, <1>2, <1>3, <1>4, <1>6, <1>9, CountStep

\* foo_rele has seen that its reference is the last one: the object leaves
\* the chain and is the releasing thread's to free.
Released(t, o) ==
    /\ UNCHANGED <<fprog, alive>>
    /\ fh' = IF fprog = "mutex1" THEN fh ELSE Unlinked(o)
    /\ fpc[t] \in {"idle", "rele_lock"} /\ fpc' = [fpc EXCEPT ![t] = "free"]
    /\ fp' \in [Thr -> Foo \cup {NoFoo}] /\ fp'[t] = o /\ \A u \in Thr \ {t} : fp'[u] = fp[u]
    /\ f_count' \in [Foo -> Int] /\ \A p \in Foo \ {o} : f_count'[p] = f_count[p]
    /\ f_count'[o] = IF fprog = "mutex2" THEN 1 ELSE 0
    /\ refs' \in [Thr -> [Foo -> Nat]]
    /\ \A u \in Thr, p \in Foo : refs'[u][p] = refs[u][p] \/ (u = t /\ p = o)

\* The release of the last reference keeps the invariant.
LEMMA LastStep ==
    ASSUME FooInv, NEW t \in Thr, NEW o \in Foo, o \in alive, ~Gone(o),
           Released(t, o), HoldsHash', \A u \in Thr \ {t} : fpc[u] # "find",
           Refs(o)' = IF fprog = "mutex2" THEN {<<t, 1>>} ELSE {}
    PROVE  FooInv'
<1> USE DEF Released
<1>0. FooTypes /\ Counts /\ HoldsHash /\ \A u \in Thr : InCall(u)
  BY Zenon DEF FooInv
<1>1. Only(t) /\ fpc'[t] = "free" /\ fpc' \in [Thr -> {"idle"} \cup Busy]
  BY Zenon, <1>0 DEF Only, FooTypes, Busy
<1>2. /\ fh' \in Seq(Foo)
      /\ fprog # "mutex1" => Chain'
  <2>1. CASE fprog = "mutex1"
    BY Zenon, <1>0, <2>1 DEF FooTypes
  <2>2. CASE fprog # "mutex1"
    <3>1. Chain /\ InChain(o) /\ fh' = Unlinked(o)
      BY Zenon, <2>2 DEF FooInv, Chain
    <3>2. /\ fh' \in Seq(Foo)
          /\ \A i, j \in DOMAIN fh' : fh'[i] = fh'[j] => i = j
          /\ \A p : InChain(p)' <=> p # o /\ InChain(p)
      BY ZenonT(30), <1>0, <3>1, ChainUnlink DEF Chain
    <3>3. \A p : Gone(p)' <=> Gone(p) \/ p = o
      BY <1>1 DEF Gone, Only
    <3>4. Chain'
      BY Zenon, <3>1, <3>2, <3>3 DEF Chain
    <3> QED BY Zenon, <3>2, <3>4
  <2> QED BY Zenon, <2>1, <2>2
<1>3. FooTypes'
  BY Zenon, <1>0, <1>1, <1>2 DEF FooTypes
<1>4. \A u \in Thr, p \in Foo \ {o} : Allocates(u, p)' <=> Allocates(u, p)
  BY Zenon, <1>1 DEF Only, Allocates
<1>5. \A p \in Foo \ {o} : Refs(p)' = Refs(p)
  BY <1>0, <1>3, <1>4, RefsSame
<1>6. IsFiniteSet(Refs(o)') /\ Cardinality(Refs(o)') = f_count'[o]
  <2>1. CASE fprog = "mutex2"
    BY ZenonT(40), <2>1, FS_Singleton
  <2>2. CASE fprog # "mutex2"
    BY Zenon, <2>2, FS_EmptySet
  <2> QED BY Zenon, <2>1, <2>2
<1>7. Counts'
  <2>1. \A u \in Thr, p \in Foo : refs'[u][p] > 0 => p \in alive'
    BY <1>0 DEF Counts
  <2>2. \A p \in Foo : IsFiniteSet(Refs(p)')
    BY ZenonT(40), <1>0, <1>5, <1>6 DEF Counts
  <2>3. \A p \in alive' : f_count'[p] = Cardinality(Refs(p)')
    <3> TAKE p \in alive'
    <3>1. p \in Foo /\ p \in alive
      BY Zenon, <1>0 DEF FooTypes
    <3>2. p # o => f_count'[p] = f_count[p] /\ Refs(p)' = Refs(p)
      BY Zenon, <1>5, <3>1
    <3>3. f_count[p] = Cardinality(Refs(p))
      BY Zenon, <1>0, <3>1 DEF Counts
    <3> QED BY Zenon, <1>6, <3>2, <3>3
  <2> QED BY Zenon, <2>1, <2>2, <2>3 DEF Counts
<1>8. \A u \in Thr \ {t} : fpc[u] # "idle" => fp[u] \in alive' /\ fp[u] \in Foo /\ fp'[u] = fp[u]
  BY Zenon, <1>0 DEF InCall, FooTypes
<1>9. \A u \in Thr \ {t} : fpc[u] \in {"alloc", "free"} => fp[u] # o
  BY Zenon DEF Gone
<1>10. InCall(t)'
  <2>1. fp'[t] \in alive' /\ fpc'[t] = "free"
    BY Zenon, <1>1
  <2>2. \A u \in Thr \ {t} : fpc'[u] = "free" => fp'[u] # fp'[t]
    BY <1>1, <1>9 DEF Only
  <2>3. Refs(fp[t])' = IF fprog' = "mutex2" THEN {<<t, 1>>} ELSE {}
    BY Zenon
  <2> QED BY Zenon, <2>1, <2>2, <2>3 DEF InCall
<1>11. \A u \in Thr \ {t} : fpc[u] \in {"alloc", "free"} => Refs(fp[u])' = Refs(fp[u])
  <2> TAKE u \in Thr \ {t}
  <2> HAVE fpc[u] \in {"alloc", "free"}
  <2>1. fp[u] \in Foo \ {o} /\ fp'[u] = fp[u]
    BY Zenon, <1>8, <1>9
  <2> QED BY Zenon, <1>5, <2>1
<1>12. \A u \in Thr \ {t} : fpc[u] \in {"rele", "rele_lock"} => refs'[u][fp[u]] > 0
  BY ZenonT(40), <1>0, <1>8 DEF InCall
<1>13. \A u \in Thr \ {t} : fpc[u] = "free" /\ fpc'[t] = "free" => fp'[t] # fp[u]
  BY Zenon, <1>9
<1> QED BY ZenonT(30), <1>1, <1>2, <1>3, <1>7, <1>8, <1>10, <1>11, <1>12, <1>13, ThreadStep

\* A set with one element has that one and no other.
LEMMA OnlyOne ==
    ASSUME NEW S, IsFiniteSet(S), Cardinality(S) = 1, NEW x \in S
    PROVE  S = {x}
<1>1. IsFiniteSet(S \ {x}) /\ Cardinality(S \ {x}) = 0
  BY OneLess
<1>2. S \ {x} = {}
  BY Zenon, <1>1, FS_EmptySet
<1> QED BY Zenon, <1>2

\* In mutex1.c and mutex3.c the count of the last reference goes to 0.
LEMMA LastReleStep ==
    ASSUME FooInv, NEW t \in Thr, NEW o \in Foo, fprog # "mutex2", fpc[t] = "idle",
           refs[t][o] > 0, f_count[o] = 1, f_count' = [f_count EXCEPT ![o] = @ - 1], Drop(t, o),
           Calls(t, o, "free"), UNCHANGED <<fprog, alive, hashlock>>,
           fh' = IF fprog = "mutex1" THEN fh ELSE Unlinked(o)
    PROVE  FooInv'
<1>0. FooTypes /\ Counts /\ HoldsHash /\ \A u \in Thr : InCall(u)
  BY Zenon DEF FooInv
<1>1. o \in alive /\ ~Gone(o)
  BY Zenon, NotGone
<1>2. /\ refs'[t][o] = refs[t][o] - 1
      /\ \A u \in Thr \ {t} : refs'[u][o] = refs[u][o]
      /\ \A u \in Thr : \A p \in Foo \ {o} : refs'[u][p] = refs[u][p]
      /\ refs' \in [Thr -> [Foo -> Nat]] /\ \A u \in Thr : refs[u][o] \in Nat
  BY <1>0 DEF Drop, FooTypes
<1>3. /\ fpc' = [fpc EXCEPT ![t] = "free"] /\ fp'[t] = o
      /\ \A u \in Thr \ {t} : fp'[u] = fp[u] /\ fpc'[u] = fpc[u]
      /\ fp' \in [Thr -> Foo \cup {NoFoo}] /\ fpc'[t] = "free"
  BY Zenon, <1>0 DEF Calls, To, FooTypes
<1>4. /\ f_count' \in [Foo -> Int] /\ f_count'[o] = 0
      /\ \A p \in Foo \ {o} : f_count'[p] = f_count[p]
  BY <1>0 DEF FooTypes
<1>5. \A u \in Thr \ {t} : fpc[u] # "find"
  BY Zenon, <1>0 DEF InCall
<1>6. HoldsHash'
  BY Zenon, <1>0, <1>3 DEF HoldsHash
<1>7. Refs(o)' = {}
  <2>1. IsFiniteSet(Refs(o)) /\ Cardinality(Refs(o)) = 1
    BY Zenon, <1>0, <1>1 DEF Counts
  <2>2. RefsOf(o)
    BY ZenonT(30), <1>0, RefsAre
  <2>3. <<t, refs[t][o]>> \in Refs(o)
    BY <1>2, <2>2 DEF RefsOf
  <2>4. Refs(o) = {<<t, refs[t][o]>>}
    BY Zenon, <2>1, <2>3, OnlyOne
  <2>a. \A u \in Thr, n \in Nat : n > 0 /\ n <= refs[u][o] => <<u, n>> = <<t, refs[t][o]>>
    BY ZenonT(30), <2>2, <2>4 DEF RefsOf
  <2>b. \A u \in Thr : ~Allocates(u, o)
    <3>1. \A u \in Thr : Allocates(u, o) => <<u, 0>> = <<t, refs[t][o]>>
      BY ZenonT(30), <2>2, <2>4 DEF RefsOf
    <3> QED BY <1>2, <3>1
  <2>5. refs[t][o] = 1
    BY <1>2, <2>a
  <2>6. \A u \in Thr \ {t} : refs[u][o] = 0
    BY <1>2, <2>a
  <2>7. \A u \in Thr : refs'[u][o] = 0
    BY <1>2, <2>5, <2>6
  <2>8. \A u \in Thr : ~Allocates(u, o)'
    BY Zenon, <1>3, <2>b DEF Allocates
  <2> QED BY <2>7, <2>8 DEF Refs
<1>8. \A u \in Thr, p \in Foo : refs'[u][p] = refs[u][p] \/ (u = t /\ p = o)
  BY ZenonT(30), <1>2
<1>9. Released(t, o)
  BY <1>2, <1>3, <1>4, <1>8 DEF Released
<1>10. Refs(o)' = IF fprog = "mutex2" THEN {<<t, 1>>} ELSE {}
  BY Zenon, <1>7
<1> QED BY <1>1, <1>5, <1>6, <1>9, <1>10, LastStep

\* In mutex2.c the recheck under hashlock sees the count of 1: the reference
\* is the thread's own, and no foo_find is under way.
LEMMA RecheckStep ==
    ASSUME FooInv, NEW t \in Thr, ReleRecheck(t)
    PROVE  FooInv'
<1>0. FooTypes /\ Counts /\ HoldsHash /\ InCall(t)
  BY Zenon DEF FooInv
<1>a. fpc[t] = "rele_lock" /\ hashlock' = Free /\ UNCHANGED <<fprog, f_id, alive, fp>>
  BY Zenon DEF ReleRecheck
<1>b. /\ fp[t] \in alive /\ refs[t][fp[t]] > 0 /\ fprog = "mutex2"
      /\ fp[t] \in Foo
  BY Zenon, <1>0, <1>a DEF InCall, FooTypes
<1>c. PICK o \in Foo : o = fp[t]
  BY Zenon, <1>b
<1>1. o \in alive /\ ~Gone(o) /\ refs[t][o] > 0
  BY Zenon, <1>a, <1>b, <1>c, NotGone
<1>2. \A u \in Thr \ {t} : fpc[u] \notin {"alloc_lock", "find", "rele_lock"}
  BY Zenon, <1>0, <1>a DEF HoldsHash
<1>3. CASE f_count[o] # 1
  <2>1. /\ f_count' = [f_count EXCEPT ![o] = @ - 1] /\ Drop(t, o)
        /\ fpc' = [fpc EXCEPT ![t] = "idle"] /\ UNCHANGED fh
    BY Zenon, <1>3, <1>c DEF ReleRecheck, To
  <2>2. HoldsHash'
    BY Zenon, <1>0, <1>2, <2>1 DEF HoldsHash, FooTypes
  <2> QED BY Zenon, <1>1, <1>a, <2>1, <2>2, DropStep
<1>4. CASE f_count[o] = 1
  <2>1. /\ fh' = Unlinked(o) /\ fpc' = [fpc EXCEPT ![t] = "free"]
        /\ UNCHANGED <<f_count, refs>>
    BY Zenon, <1>4, <1>c DEF ReleRecheck, To
  <2>2. HoldsHash'
    BY Zenon, <1>0, <1>2, <2>1 DEF HoldsHash, FooTypes
  <2>3. Released(t, o)
    BY ZenonT(30), <1>0, <1>4, <1>a, <1>b, <1>c, <2>1 DEF Released, FooTypes
  <2>4. RefsOf(o)
    BY Zenon, <1>0, RefsAre
  <2>5. refs[t][o] \in Nat
    BY ZenonT(30), <1>0 DEF FooTypes
  <2>6. <<t, 1>> \in Refs(o)
    BY <1>1, <2>4, <2>5 DEF RefsOf
  <2>7. Refs(o) = {<<t, 1>>}
    <3>1. IsFiniteSet(Refs(o)) /\ Cardinality(Refs(o)) = 1
      BY Zenon, <1>0, <1>1, <1>4 DEF Counts
    <3> QED BY Zenon, <2>6, <3>1, OnlyOne
  <2>8. \A u \in Thr : Allocates(u, o)' <=> Allocates(u, o)
    BY Zenon, <1>0, <1>a, <2>1 DEF Allocates, FooTypes
  <2>9. Refs(o)' = Refs(o)
    BY Zenon, <2>1, <2>8 DEF Refs
  <2>10. Refs(o)' = IF fprog = "mutex2" THEN {<<t, 1>>} ELSE {}
    BY ZenonT(30), <1>b, <2>7, <2>9
  <2> QED BY ZenonT(30), <1>1, <1>2, <2>2, <2>3, <2>10, LastStep
<1> QED BY Zenon, <1>3, <1>4

\* free: nobody else has the object.
LEMMA FreeStep ==
    ASSUME FooInv, NEW t \in Thr, FreeFoo(t)
    PROVE  FooInv'
<1>0. FooTypes /\ Counts /\ HoldsHash /\ \A u \in Thr : InCall(u)
  BY Zenon DEF FooInv
<1>a. /\ fpc[t] = "free" /\ fpc' = [fpc EXCEPT ![t] = "idle"]
      /\ UNCHANGED <<fprog, f_count, f_id, fh, hashlock, fp>>
  BY Zenon DEF FreeFoo, To
<1>b. PICK o \in Foo : o = fp[t]
  BY Zenon, <1>0, <1>a DEF InCall, FooTypes
<1>c. /\ alive' = alive \ {o}
      /\ IF fprog = "mutex2" THEN Drop(t, o) ELSE UNCHANGED refs
  BY Zenon, <1>b DEF FreeFoo
<1>1. Refs(o) = IF fprog = "mutex2" THEN {<<t, 1>>} ELSE {}
  BY <1>0, <1>a, <1>b DEF InCall
<1>2. RefsOf(o)
  BY Zenon, <1>0, RefsAre
<1>3. \A u \in Thr : refs[u][o] \in Nat
  BY Zenon, <1>0 DEF FooTypes
<1>4. /\ \A u \in Thr : ~Allocates(u, o)
      /\ \A u \in Thr \ {t} : refs[u][o] = 0
      /\ refs[t][o] = IF fprog = "mutex2" THEN 1 ELSE 0
  <2>1. \A u \in Thr : Allocates(u, o) => <<u, 0>> \in Refs(o)
    BY Zenon, <1>2 DEF RefsOf
  <2>2. \A u \in Thr : refs[u][o] > 0 => <<u, refs[u][o]>> \in Refs(o)
    BY <1>2, <1>3 DEF RefsOf
  <2>3. <<t, 1>> \in Refs(o) => refs[t][o] >= 1
    BY <1>2, <1>3 DEF RefsOf
  <2>4. \A x \in Refs(o) : x = <<t, 1>> /\ fprog = "mutex2"
    BY Zenon, <1>1
  <2>5. fprog = "mutex2" => <<t, 1>> \in Refs(o)
    BY Zenon, <1>1
  <2>6. ASSUME NEW u \in Thr, Allocates(u, o) PROVE FALSE
    <3>1. <<u, 0>> = <<t, 1>>
      BY Zenon, <2>1, <2>4, <2>6
    <3> QED BY <3>1
  <2>7. ASSUME NEW u \in Thr, refs[u][o] > 0
        PROVE  u = t /\ refs[u][o] = 1 /\ fprog = "mutex2"
    <3>1. <<u, refs[u][o]>> = <<t, 1>> /\ fprog = "mutex2"
      BY Zenon, <2>2, <2>4, <2>7
    <3> QED BY Zenon, <3>1
  <2>8. \A u \in Thr : refs[u][o] = 0 \/ refs[u][o] > 0
    BY <1>3
  <2>9. \A u \in Thr \ {t} : refs[u][o] = 0
    BY Zenon, <2>7, <2>8
  <2>10. fprog # "mutex2" => refs[t][o] = 0
    BY Zenon, <2>7, <2>8
  <2>11. fprog = "mutex2" => refs[t][o] = 1
    <3> HAVE fprog = "mutex2"
    <3>1. refs[t][o] >= 1
      BY Zenon, <2>3, <2>5
    <3>2. refs[t][o] > 0
      BY <1>3, <3>1
    <3> QED BY Zenon, <2>7, <3>2
  <2> QED BY Zenon, <2>6, <2>9, <2>10, <2>11
<1>5. /\ \A u \in Thr : refs'[u][o] = 0
      /\ \A u \in Thr : \A p \in Foo \ {o} : refs'[u][p] = refs[u][p]
      /\ refs' \in [Thr -> [Foo -> Nat]]
  <2>1. CASE fprog = "mutex2"
    <3>1. Drop(t, o) /\ refs[t][o] = 1
      BY Zenon, <1>c, <1>4, <2>1
    <3> QED BY <1>0, <1>4, <3>1 DEF Drop, FooTypes
  <2>2. CASE fprog # "mutex2"
    <3>1. UNCHANGED refs /\ refs[t][o] = 0
      BY Zenon, <1>c, <1>4, <2>2
    <3> QED BY Zenon, <1>0, <1>4, <3>1 DEF FooTypes
  <2> QED BY <2>1, <2>2
<1>6. FooTypes' /\ Only(t) /\ fpc'[t] = "idle" /\ HoldsHash'
  BY Zenon, <1>0, <1>a, <1>c, <1>5 DEF FooTypes, Only, HoldsHash
<1>7. \A u \in Thr, p \in Foo : Allocates(u, p)' <=> Allocates(u, p)
  BY ZenonT(30), <1>a, <1>6 DEF Only, Allocates
<1>8. \A p \in Foo \ {o} : Refs(p)' = Refs(p)
  BY SMTT(40), <1>0, <1>5, <1>6, <1>7, RefsSame
<1>9. Refs(o)' = {}
  BY <1>4, <1>5, <1>7 DEF Refs
<1>10. Counts'
  <2>1. \A u \in Thr, p \in Foo : refs'[u][p] > 0 => p \in alive'
    BY <1>0, <1>5, <1>c DEF Counts
  <2>2. \A p \in Foo : IsFiniteSet(Refs(p)')
    BY Zenon, <1>0, <1>8, <1>9, FS_EmptySet DEF Counts
  <2>3. \A p \in alive' : f_count'[p] = Cardinality(Refs(p)')
    BY Zenon, <1>0, <1>8, <1>a, <1>c DEF Counts, FooTypes
  <2> QED BY ZenonT(30), <2>1, <2>2, <2>3 DEF Counts
<1>11. \A u \in Thr \ {t} : fpc[u] # "idle" => fp[u] # o
  <2>1. \A u \in Thr \ {t} : fpc[u] \in {"alloc", "free"} => fp[u] # o
    BY Zenon, <1>a, <1>b, GoneOnce
  <2>2. \A u \in Thr \ {t} : fpc[u] \in {"alloc_lock", "alloc_init"} => fp[u] # o
    BY Zenon, <1>4 DEF Allocates
  <2>3. \A u \in Thr \ {t} : fpc[u] = "find" => fp[u] # o
    <3>1. Gone(o)
      BY Zenon, <1>a, <1>b DEF Gone
    <3>2. fprog # "mutex1" => ~InChain(o)
      BY Zenon, <3>1 DEF FooInv, Chain
    <3> QED BY Zenon, <1>0, <3>2 DEF InCall
  <2>4. \A u \in Thr \ {t} : fpc[u] \in {"rele", "rele_lock"} => fp[u] # o
    <3> TAKE u \in Thr \ {t}
    <3> HAVE fpc[u] \in {"rele", "rele_lock"}
    <3>1. refs[u][fp[u]] > 0
      BY Zenon, <1>0 DEF InCall
    <3>2. refs[u][o] = 0
      BY Zenon, <1>4
    <3> QED BY <3>1, <3>2
  <2>5. \A u \in Thr : fpc[u] \in {"idle"} \cup Busy
    BY Zenon, <1>0 DEF FooTypes
  <2> QED BY ZenonT(30), <2>1, <2>2, <2>3, <2>4, <2>5 DEF Busy
<1>12. fprog # "mutex1" => Chain'
  <2>1. \A p : Gone(p)' <=> Gone(p) /\ p # o
    BY Zenon, <1>6, <1>11, <1>a, <1>b DEF Gone, Only
  <2>2. \A p : InChain(p)' <=> InChain(p)
    BY ZenonT(30), <1>a DEF InChain
  <2>3. Gone(o)
    BY Zenon, <1>a, <1>b DEF Gone
  <2> QED BY <1>a, <1>c, <2>1, <2>2, <2>3 DEF FooInv, Chain
<1>13. InCall(t)'
  BY Zenon, <1>6 DEF InCall
<1>14. \A u \in Thr \ {t} : fpc[u] # "idle" => fp[u] \in alive' /\ fp[u] \in Foo \ {o} /\ fp'[u] = fp[u]
  BY Zenon, <1>0, <1>a, <1>c, <1>11 DEF InCall, FooTypes
<1>15. \A u \in Thr \ {t} : fpc[u] \in {"alloc", "free"} => Refs(fp[u])' = Refs(fp[u])
  BY Zenon, <1>8, <1>14
<1>16. \A u \in Thr \ {t} : fpc[u] = "find" => InChain(fp[u])'
  BY Zenon, <1>0, <1>a DEF InCall, InChain
<1>17. \A u \in Thr \ {t} : fpc[u] \in {"rele", "rele_lock"} => refs'[u][fp[u]] > 0
  BY ZenonT(30), <1>0, <1>5, <1>14 DEF InCall
<1> QED BY SMTT(40), <1>a, <1>6, <1>10, <1>12, <1>13, <1>14, <1>15, <1>16, <1>17, ThreadStep

\* A foo_find that finds something finds an object of the chain.
LEMMA LookupInChain ==
    ASSUME FooInv, NEW id, Lookup(id) # NoFoo
    PROVE  InChain(Lookup(id)) /\ Lookup(id) \in Foo
<1> DEFINE at == {i \in DOMAIN fh : f_id[fh[i]] = id}
<1>1. fh \in Seq(Foo)
  BY Zenon DEF FooInv, FooTypes
<1>2. at # {} /\ Lookup(id) = fh[CHOOSE i \in at : \A j \in at : i <= j]
  BY Zenon DEF Lookup
<1>3. at \subseteq DOMAIN fh /\ at \in SUBSET Nat
  BY <1>1
<1> HIDE DEF at
<1>4. \E n \in at : \A m \in at : ~ (<<m, n>> \in OpToRel(<, Nat))
  BY Zenon, <1>2, <1>3, NatLessThanWellFounded, WFMin
<1>5. \A m, n \in at : m < n => <<m, n>> \in OpToRel(<, Nat)
  BY Zenon, <1>3 DEF OpToRel
<1>6. \A m, n \in at : ~ (m < n) => n <= m
  BY <1>3
<1>7. \E n \in at : \A m \in at : n <= m
  BY Zenon, <1>4, <1>5, <1>6
<1>8. (CHOOSE i \in at : \A j \in at : i <= j) \in at
  BY <1>7, Zenon
<1>9. PICK i \in DOMAIN fh : Lookup(id) = fh[i]
  BY Zenon, <1>2, <1>3, <1>8
<1>10. fh[i] \in Foo
  BY <1>1
<1> QED BY Zenon, <1>9, <1>10 DEF InChain

\* foo_hold: the caller's reference keeps the object where it is.
LEMMA HoldStep ==
    ASSUME FooInv, NEW t \in Thr, foo_hold1(t) \/ foo_hold3(t)
    PROVE  FooInv'
<1>0. FooTypes /\ HoldsHash
  BY Zenon DEF FooInv
<1>1. PICK o \in Foo, v \in Thr :
        refs[t][o] > 0 /\ f_count' = [f_count EXCEPT ![o] = @ + 1] /\ Gain(v, o)
  BY Zenon DEF foo_hold1, foo_hold3
<1>2. fpc[t] = "idle" /\ UNCHANGED <<fprog, fh, alive, hashlock, fpc, fp>>
  BY Zenon DEF foo_hold1, foo_hold3, Idle
<1>3. o \in alive /\ ~Gone(o)
  BY Zenon, <1>1, <1>2, NotGone
<1>4. fpc' = [fpc EXCEPT ![t] = "idle"]
  BY Zenon, <1>0, <1>2 DEF FooTypes
<1>5. HoldsHash'
  BY Zenon, <1>0, <1>2 DEF HoldsHash
<1> QED BY ZenonT(30), <1>1, <1>2, <1>3, <1>4, <1>5, GainStep

\* foo_find of mutex2.c and mutex3.c.
LEMMA FindStep ==
    ASSUME FooInv, NEW t \in Thr, foo_find2(t) \/ FindHold(t) \/ foo_find3(t)
    PROVE  FooInv'
<1>0. FooTypes /\ HoldsHash /\ \A u \in Thr : InCall(u)
  BY Zenon DEF FooInv
<1>1. CASE foo_find2(t)
  <2>1. PICK id \in Id : Lookup(id) # NoFoo /\ Calls(t, Lookup(id), "find")
    BY Zenon, <1>1 DEF foo_find2
  <2>2. PICK o \in Foo : o = Lookup(id) /\ InChain(o)
    BY Zenon, <2>1, LookupInChain
  <2>3. /\ fprog = "mutex2" /\ fpc[t] = "idle" /\ hashlock = Free /\ hashlock' = t
        /\ fpc' = [fpc EXCEPT ![t] = "find"] /\ fp' = [fp EXCEPT ![t] = o]
        /\ UNCHANGED <<fprog, f_count, fh, alive, refs>>
    BY Zenon, <1>1, <2>1, <2>2 DEF foo_find2, Idle, Calls, To
  <2>4. FooTypes' /\ Only(t) /\ fpc'[t] = "find" /\ fp'[t] = o
    BY Zenon, <1>0, <2>3 DEF FooTypes, Only, Busy
  <2>5. HoldsHash'
    BY Zenon, <1>0, <2>3, <2>4, FooAssumption DEF HoldsHash, Only
  <2>6. o \in alive
    BY ZenonT(30), <2>2, <2>3, NotGone
  <2>7. InCall(t)'
    BY <2>2, <2>3, <2>4, <2>6 DEF InCall, InChain
  <2>8. \A p \in Foo : Allocates(t, p)' <=> Allocates(t, p)
    BY Zenon, <2>3, <2>4 DEF Allocates
  <2> QED BY ZenonT(30), <2>3, <2>4, <2>5, <2>7, <2>8, ControlStep
<1>2. CASE FindHold(t)
  <2>1. /\ fpc[t] = "find" /\ hashlock' = Free /\ UNCHANGED <<fprog, fh, alive, fp>>
        /\ fpc' = [fpc EXCEPT ![t] = "idle"]
    BY Zenon, <1>2 DEF FindHold, To
  <2>2. PICK o \in Foo : o = fp[t] /\ InChain(o)
    BY Zenon, <1>0, <2>1 DEF InCall, FooTypes
  <2>3. f_count' = [f_count EXCEPT ![o] = @ + 1] /\ Gain(t, o)
    BY Zenon, <1>2, <2>2 DEF FindHold
  <2>4. o \in alive /\ ~Gone(o)
    BY Zenon, <1>0, <2>1, <2>2, NotGone DEF InCall
  <2>5. HoldsHash'
    BY Zenon, <1>0, <2>1 DEF HoldsHash, FooTypes
  <2> QED BY Zenon, <2>1, <2>3, <2>4, <2>5, GainStep
<1>3. CASE foo_find3(t)
  <2>1. PICK id \in Id : /\ Lookup(id) # NoFoo /\ f_count' = [f_count EXCEPT ![Lookup(id)] = @ + 1]
                         /\ Gain(t, Lookup(id))
    BY Zenon, <1>3 DEF foo_find3
  <2>2. PICK o \in Foo : o = Lookup(id) /\ InChain(o)
    BY Zenon, <2>1, LookupInChain
  <2>3. f_count' = [f_count EXCEPT ![o] = @ + 1] /\ Gain(t, o)
    BY Zenon, <2>1, <2>2
  <2>4. fprog = "mutex3" /\ fpc[t] = "idle" /\ UNCHANGED <<fprog, fh, alive, hashlock, fpc, fp>>
    BY Zenon, <1>3 DEF foo_find3, Idle
  <2>5. o \in alive /\ ~Gone(o)
    BY Zenon, <2>2, <2>4, NotGone
  <2>6. fpc' = [fpc EXCEPT ![t] = "idle"] /\ HoldsHash'
    BY Zenon, <1>0, <2>4 DEF FooTypes, HoldsHash
  <2> QED BY ZenonT(30), <2>3, <2>4, <2>5, <2>6, GainStep
<1> QED BY Zenon, <1>1, <1>2, <1>3

\* foo_rele of the three files, up to the point where the object is freed or
\* mutex2.c drops the mutex.
LEMMA ReleStep ==
    ASSUME FooInv, NEW t \in Thr, foo_rele1(t) \/ foo_rele2(t) \/ foo_rele3(t)
    PROVE  FooInv'
<1>0. FooTypes /\ HoldsHash /\ \A u \in Thr : InCall(u)
  BY Zenon DEF FooInv
<1>a. fpc[t] = "idle" /\ UNCHANGED <<fprog, alive, hashlock>>
  BY Zenon DEF foo_rele1, foo_rele2, foo_rele3, Idle
<1>1. PICK o \in Foo :
        /\ refs[t][o] > 0
        /\ \/ /\ f_count[o] # 1 /\ f_count' = [f_count EXCEPT ![o] = @ - 1]
              /\ Drop(t, o) /\ UNCHANGED <<fh, fpc, fp>>
           \/ /\ f_count[o] = 1 /\ fprog # "mutex2" /\ f_count' = [f_count EXCEPT ![o] = @ - 1]
              /\ Drop(t, o) /\ Calls(t, o, "free")
              /\ fh' = IF fprog = "mutex1" THEN fh ELSE Unlinked(o)
           \/ fprog = "mutex2" /\ Calls(t, o, "rele") /\ UNCHANGED <<fh, f_count, refs>>
  <2>1. CASE foo_rele1(t)
    BY Zenon, <2>1 DEF foo_rele1
  <2>2. CASE foo_rele2(t)
    BY Zenon, <2>2 DEF foo_rele2
  <2>3. CASE foo_rele3(t)
    BY Zenon, <2>3 DEF foo_rele3
  <2> QED BY Zenon, <2>1, <2>2, <2>3
<1>2. o \in alive /\ ~Gone(o)
  BY Zenon, <1>1, <1>a, NotGone
<1>3. CASE /\ f_count' = [f_count EXCEPT ![o] = @ - 1]
           /\ Drop(t, o) /\ UNCHANGED <<fh, fpc, fp>>
  <2>1. fpc' = [fpc EXCEPT ![t] = "idle"] /\ HoldsHash'
    BY Zenon, <1>0, <1>3, <1>a DEF FooTypes, HoldsHash
  <2> QED BY ZenonT(30), <1>1, <1>2, <1>3, <1>a, <2>1, DropStep
<1>4. CASE /\ f_count[o] = 1 /\ fprog # "mutex2" /\ f_count' = [f_count EXCEPT ![o] = @ - 1]
           /\ Drop(t, o) /\ Calls(t, o, "free")
           /\ fh' = IF fprog = "mutex1" THEN fh ELSE Unlinked(o)
  BY ZenonT(30), <1>1, <1>4, <1>a, LastReleStep
<1>5. CASE fprog = "mutex2" /\ Calls(t, o, "rele") /\ UNCHANGED <<fh, f_count, refs>>
  <2>1. /\ fpc' = [fpc EXCEPT ![t] = "rele"] /\ fp' = [fp EXCEPT ![t] = o]
        /\ UNCHANGED <<fprog, f_count, fh, alive, refs>>
    BY Zenon, <1>5, <1>a DEF Calls, To
  <2>2. FooTypes' /\ Only(t) /\ fpc'[t] = "rele" /\ fp'[t] = o
    BY Zenon, <1>0, <2>1, <1>a DEF FooTypes, Only, Busy
  <2>3. HoldsHash'
    BY ZenonT(40), <1>0, <1>a, <2>2 DEF HoldsHash, Only
  <2>4. InCall(t)'
    BY <1>1, <1>2, <1>5, <2>1, <2>2 DEF InCall
  <2>5. \A p \in Foo : Allocates(t, p)' <=> Allocates(t, p)
    BY Zenon, <1>a, <2>2 DEF Allocates
  <2> QED BY SMTT(40), <1>a, <2>1, <2>2, <2>3, <2>4, <2>5, ControlStep
<1> QED BY ZenonT(30), <1>1, <1>3, <1>4, <1>5

\* Every step of every thread keeps the invariant.
LEMMA FooSteps == FooInv /\ [fooNext]_foovars => FooInv'
<1> SUFFICES ASSUME FooInv, [fooNext]_foovars PROVE FooInv'
  BY Zenon
<1>0. FooTypes /\ HoldsHash /\ \A u \in Thr : InCall(u)
  BY Zenon DEF FooInv
<1>1. CASE UNCHANGED foovars
  <2>1. UNCHANGED <<fprog, f_count, f_id, fh, alive, hashlock, f_lock, fpc, fp, refs>>
    BY Zenon, <1>1 DEF foovars
  <2>2. \A o : Refs(o)' = Refs(o) /\ Gone(o)' = Gone(o) /\ InChain(o)' = InChain(o)
    BY Zenon, <2>1 DEF Refs, Allocates, Gone, InChain
  <2>3. FooTypes' /\ HoldsHash'
    BY Zenon, <1>0, <2>1 DEF FooTypes, HoldsHash
  <2>4. \A u \in Thr : InCall(u)'
    BY Zenon, <1>0, <2>1, <2>2 DEF InCall
  <2>5. Counts'
    BY Zenon, <2>1, <2>2 DEF FooInv, Counts
  <2>6. fprog # "mutex1" => Chain'
    BY Zenon, <2>1, <2>2 DEF FooInv, Chain
  <2> QED BY Zenon, <2>1, <2>3, <2>4, <2>5, <2>6 DEF FooInv
<1>2. ASSUME NEW t \in Thr, fooStep(t) PROVE FooInv'
  <2>1. CASE AllocLock(t)
    <3>1. /\ fpc[t] = "alloc_lock" /\ hashlock' = Free /\ fpc' = [fpc EXCEPT ![t] = "alloc_init"]
          /\ UNCHANGED <<fprog, f_count, fh, alive, fp, refs>>
      BY Zenon, <2>1 DEF AllocLock, To
    <3>2. FooTypes' /\ Only(t) /\ fpc'[t] = "alloc_init"
      BY Zenon, <1>0, <3>1 DEF FooTypes, Only, Busy
    <3>3. HoldsHash'
      BY Zenon, <1>0, <3>1, <3>2 DEF HoldsHash, Only
    <3>4. InCall(t)'
      BY Zenon, <1>0, <3>1, <3>2 DEF InCall
    <3>5. \A p \in Foo : Allocates(t, p)' <=> Allocates(t, p)
      BY Zenon, <3>1, <3>2 DEF Allocates
    <3> QED BY ZenonT(30), <3>1, <3>2, <3>3, <3>4, <3>5, ControlStep
  <2>2. CASE ReleHash(t)
    <3>1. /\ fpc[t] = "rele" /\ hashlock = Free /\ hashlock' = t
          /\ fpc' = [fpc EXCEPT ![t] = "rele_lock"]
          /\ UNCHANGED <<fprog, f_count, fh, alive, fp, refs>>
      BY Zenon, <2>2 DEF ReleHash, To
    <3>2. FooTypes' /\ Only(t) /\ fpc'[t] = "rele_lock"
      BY Zenon, <1>0, <3>1 DEF FooTypes, Only, Busy
    <3>3. HoldsHash'
      BY Zenon, <1>0, <3>1, <3>2, FooAssumption DEF HoldsHash, Only
    <3>4. InCall(t)'
      BY Zenon, <1>0, <3>1, <3>2 DEF InCall
    <3>5. \A p \in Foo : Allocates(t, p)' <=> Allocates(t, p)
      BY Zenon, <3>1, <3>2 DEF Allocates
    <3> QED BY ZenonT(30), <3>1, <3>2, <3>3, <3>4, <3>5, ControlStep
  <2> QED BY ZenonT(30), <1>2, <2>1, <2>2, AllocStep, InsertStep, AllocDoneStep, HoldStep, FindStep, ReleStep,
             RecheckStep, FreeStep DEF fooStep
<1> QED BY Zenon, <1>1, <1>2 DEF fooNext

(***************************************************************************)
(* In mutex1.c, mutex2.c and mutex3.c, for any number of threads, objects  *)
(* and references: an object that somebody has a reference to, or is in a  *)
(* call about, is not freed; its f_count is the number of its references;  *)
(* and the hash table holds exactly the objects that can be found.         *)
(***************************************************************************)
THEOREM FooCounts == fooSpec => []CountIsReferences
<1>1. FooInv => CountIsReferences
  BY Zenon, PropertyOfFoo
<1> QED BY FooInitOK, FooSteps, <1>1, PTL DEF fooSpec
=============================================================================
