---------------------------- MODULE CountProofs -----------------------------
(***************************************************************************)
(* Proofs that count something: the descriptors of a process that calls    *)
(* popen (PipesArePrivate) and the threads still to come to a barrier      *)
(* (BarrierHolds), for any number of descriptors, children and threads.    *)
(***************************************************************************)
EXTENDS Popen, Barriers, FiniteSetTheorems, WellFoundedInduction, TLAPS

-----------------------------------------------------------------------------
(***************************************************************************)
(* Popen: the child closes what earlier popens left open, and gets one new *)
(* end of a pipe.                                                          *)
(***************************************************************************)
\* What a descriptor is: an end of the pipe of a child, a file, or closed.
Slot == Nat \X {"r", "w", "file", "closed"}
\* A child: the type popen was called with, its descriptors, its state.
Kid == [type : {"r", "w"}, fds : [FdNum -> Slot], st : {"run", "zombie", "gone"}]

\* The types of the variables.
PoTypes ==
    /\ pofd \in [FdNum -> Slot]
    /\ childpid \in [0 .. MaxFd - 1 -> Nat]
    /\ kid \in Seq(Kid)
    /\ closing \in 0 .. Len(kid)
    /\ std \in BOOLEAN

\* A pipe has the number of a child that was forked, and childpid[] names
\* children that were forked.
PoNumbers ==
    /\ \A f \in FdNum : pofd[f][1] <= Len(kid)
    /\ \A k \in 1 .. Len(kid) : \A f \in FdNum : kid[k].fds[f][1] <= Len(kid)
    /\ \A f \in 0 .. MaxFd - 1 : childpid[f] <= Len(kid)

\* The descriptor childpid[] knows is the caller's end of the pipe of that
\* child, and nothing else of the caller or of a running child is.
PoStreams ==
    \A f \in 0 .. MaxFd - 1 : childpid[f] # 0 =>
        /\ f \in FdNum
        /\ pofd[f] = End(childpid[f], kid[childpid[f]].type)
        /\ \A g \in FdNum \ {f} : pofd[g][1] # childpid[f]
        /\ \A j \in Running \ {childpid[f]} : \A g \in FdNum : kid[j].fds[g][1] # childpid[f]

\* The standard descriptors of the caller stay what they were, and a child
\* has its end in the place of one of them.
PoStandard ==
    std => /\ \A f \in FdNum : f \in 0 .. 2 => pofd[f] = File
           /\ \A k \in Running : kid[k].fds[StdOf(kid[k].type)] = End(k, Its(kid[k].type))

\* The inductive invariant.
PoInv == PoTypes /\ PoNumbers /\ PoStreams /\ PoStandard

\* Nobody has a pipe at the start.
LEMMA PopenInitOK == poInit => PoInv
<1> SUFFICES ASSUME poInit PROVE PoInv
  BY Zenon
<1>1. kid = << >> /\ Len(kid) = 0 /\ kid \in Seq(Kid) /\ closing = 0 /\ DOMAIN kid = {}
  BY DEF poInit
<1>2. \A f \in 0 .. MaxFd - 1 : childpid[f] = 0
  BY Zenon DEF poInit
<1>3. Closed \in Slot /\ File \in Slot
  BY Zenon DEF Closed, File, Slot
<1>4. PoTypes
  BY <1>1, <1>3 DEF poInit, PoTypes
<1>5. \A f \in FdNum : pofd[f] = File \/ pofd[f] = Closed
  BY Zenon DEF poInit
<1>6. \A f \in FdNum : pofd[f][1] = 0
  BY <1>5 DEF File, Closed
<1>7. PoNumbers
  BY <1>1, <1>2, <1>6 DEF PoNumbers
<1>8. PoStreams
  BY Zenon, <1>2 DEF PoStreams
<1>9. std => \A f \in FdNum : f \in 0 .. 2 => pofd[f] = File
  BY DEF poInit, FdNum
<1> QED BY Zenon, <1>1, <1>4, <1>7, <1>8, <1>9 DEF PoInv, PoStandard, Running

\* A set of natural numbers has a least element, which Lowest chooses.
LEMMA LowestIs ==
    ASSUME NEW S \in SUBSET Nat, S # {}
    PROVE  Lowest(S) \in S /\ \A n \in S : Lowest(S) <= n
<1>1. \E n \in S : \A m \in S : ~ (<<m, n>> \in OpToRel(<, Nat))
  BY Zenon, NatLessThanWellFounded, WFMin
<1>2. \A m, n \in S : m < n => <<m, n>> \in OpToRel(<, Nat)
  BY Zenon DEF OpToRel
<1>3. \A m, n \in S : ~ (m < n) => n <= m
  OBVIOUS
<1>4. \E n \in S : \A m \in S : n <= m
  BY Zenon, <1>1, <1>2, <1>3
<1> QED BY <1>4, Zenon DEF Lowest

\* pipe() returns two different descriptors that were closed, the smaller
\* one first.
LEMMA PipeFds ==
    ASSUME CanPopen
    PROVE  /\ pfd0 \in FreeFds /\ pfd1 \in FreeFds
           /\ pfd0 < pfd1
           /\ pfd1 < MaxFd => pfd0 < MaxFd
<1>1. FreeFds \subseteq FdNum /\ FdNum \subseteq Nat /\ IsFiniteSet(FdNum)
  BY PopenAssumption, FS_Interval DEF FreeFds, FdNum
<1>2. IsFiniteSet(FreeFds)
  BY Zenon, <1>1, FS_Subset
<1>3. Cardinality(FreeFds) >= 2
  BY Zenon DEF CanPopen
<1>4. FreeFds # {}
  BY <1>3, FS_EmptySet
<1>5. pfd0 \in FreeFds /\ \A n \in FreeFds : pfd0 <= n
  BY Zenon, <1>1, <1>4, LowestIs DEF pfd0
<1>6. Cardinality(FreeFds \ {pfd0}) = Cardinality(FreeFds) - 1
  BY Zenon, <1>2, <1>5, FS_RemoveElement
<1>7. Cardinality(FreeFds) \in Nat
  BY Zenon, <1>2, FS_CardinalityType
<1>8. FreeFds \ {pfd0} # {}
  BY <1>3, <1>6, <1>7, FS_EmptySet
<1>9. pfd1 \in FreeFds \ {pfd0}
  BY Zenon, <1>1, <1>8, LowestIs DEF pfd1
<1>10. pfd0 \in Nat /\ pfd1 \in Nat /\ pfd0 < pfd1
  BY <1>1, <1>5, <1>9
<1> QED BY <1>5, <1>9, <1>10, PopenAssumption

\* What a step may do to the descriptors of the caller that no child can see:
\* a descriptor that was closed or a file becomes closed or a file.
LEMMA CallerStep ==
    ASSUME PoInv, UNCHANGED <<childpid, kid, closing, std>>, pofd' \in [FdNum -> Slot],
           \A f \in FdNum : \/ pofd'[f] = pofd[f]
                            \/ pofd[f] \in {File, Closed} /\ pofd'[f] = File
                            \/ pofd[f] = File /\ pofd'[f] = Closed /\ f > 2
    PROVE  PoInv'
<1>1. \A f \in FdNum : \/ pofd'[f] = pofd[f]
                       \/ pofd[f][1] = 0 /\ pofd'[f][1] = 0
  BY DEF File, Closed
<1>2. PoTypes'
  BY Zenon DEF PoInv, PoTypes
<1>3. PoNumbers'
  BY <1>1, <1>2 DEF PoInv, PoNumbers, PoTypes
<1>4. PoStreams'
  <2> childpid' = childpid /\ kid' = kid /\ Running' = Running
    BY Zenon DEF Running
  <2> SUFFICES ASSUME NEW f \in 0 .. MaxFd - 1, childpid[f] # 0
               PROVE  /\ f \in FdNum
                      /\ pofd'[f] = End(childpid[f], kid[childpid[f]].type)
                      /\ \A g \in FdNum \ {f} : pofd'[g][1] # childpid[f]
                      /\ \A j \in Running \ {childpid[f]} : \A g \in FdNum : kid[j].fds[g][1] # childpid[f]
    BY DEF PoStreams
  <2>1. /\ f \in FdNum
        /\ pofd[f] = End(childpid[f], kid[childpid[f]].type)
        /\ \A g \in FdNum \ {f} : pofd[g][1] # childpid[f]
        /\ \A j \in Running \ {childpid[f]} : \A g \in FdNum : kid[j].fds[g][1] # childpid[f]
    BY Zenon DEF PoInv, PoStreams
  <2>2. pofd[f][1] # 0
    BY <2>1 DEF End
  <2> QED BY Zenon, <2>1, <2>2, <1>1
<1>5. PoStandard'
  <2>1. std => \A f \in FdNum : f \in 0 .. 2 => pofd[f] = File
    BY Zenon DEF PoInv, PoStandard
  <2>2. std => \A f \in FdNum : f \in 0 .. 2 => pofd'[f] = File
    BY <2>1
  <2> QED BY Zenon, <2>2 DEF PoInv, PoStandard, Running
<1> QED BY Zenon, <1>2, <1>3, <1>4, <1>5 DEF PoInv

\* A fork: the child is the next one, its descriptors are those of ChildFds,
\* and no other child changes.
LEMMA ForkFacts ==
    ASSUME PoInv, CanPopen, NEW type \in {"r", "w"}, Fork(type, "run")
    PROVE  /\ kid' \in Seq(Kid)
           /\ Len(kid') = NewPid /\ Len(kid) \in Nat /\ NewPid = Len(kid) + 1
           /\ \A k \in 1 .. Len(kid) : kid'[k] = kid[k]
           /\ kid'[NewPid].type = type /\ kid'[NewPid].fds = ChildFds(type)
           /\ Running' = Running \cup {NewPid}
           /\ Running \subseteq 1 .. Len(kid)
<1> DEFINE new == [type |-> type, fds |-> ChildFds(type), st |-> "run"]
<1>1. kid \in Seq(Kid) /\ kid' = Append(kid, new)
  BY Zenon DEF PoInv, PoTypes, Fork
<1>2. Len(kid) \in Nat /\ NewPid = Len(kid) + 1 /\ NewPid \in Nat
  BY <1>1 DEF NewPid
<1>3. ChildFds(type) \in [FdNum -> Slot]
  <2>1. Closed \in Slot /\ End(NewPid, Its(type)) \in Slot
    BY Zenon, <1>2 DEF Closed, End, Its, Slot
  <2>2. \A f \in FdNum : pofd[f] \in Slot
    BY Zenon DEF PoInv, PoTypes
  <2> QED BY Zenon, <2>1, <2>2 DEF ChildFds
<1>4. new \in Kid
  BY Zenon, <1>3 DEF Kid
<1>5. new.type = type /\ new.fds = ChildFds(type) /\ new.st = "run"
  BY Zenon
<1> HIDE DEF new
<1>6. /\ kid' \in Seq(Kid) /\ Len(kid') = Len(kid) + 1
      /\ \A k \in 1 .. Len(kid) : kid'[k] = kid[k]
      /\ kid'[Len(kid) + 1] = new
      /\ DOMAIN kid' = 1 .. Len(kid) + 1 /\ DOMAIN kid = 1 .. Len(kid)
  BY <1>1, <1>4
<1>7. Running' = Running \cup {NewPid}
  BY <1>2, <1>5, <1>6 DEF Running
<1>8. Running \subseteq 1 .. Len(kid)
  BY Zenon, <1>6 DEF Running
<1> QED BY Zenon, <1>2, <1>5, <1>6, <1>7, <1>8

\* The descriptors a child starts with: its own end, or what the caller has
\* in a descriptor that childpid[] does not know.
LEMMA ChildHas ==
    ASSUME PoInv, CanPopen, NEW type \in {"r", "w"}, NEW g \in FdNum
    PROVE  \/ ChildFds(type)[g][1] = 0
           \/ ChildFds(type)[g][1] = NewPid
           \/ /\ ChildFds(type)[g] = pofd[g]
              /\ g \in 0 .. MaxFd - 1 => childpid[g] = 0
<1>1. childpid \in [0 .. MaxFd - 1 -> Nat]
  BY Zenon DEF PoInv, PoTypes
<1>2. \/ ChildFds(type)[g] = Closed
      \/ ChildFds(type)[g] = End(NewPid, Its(type))
      \/ ChildFds(type)[g] = pofd[g] /\ ~(g < MaxFd /\ childpid[g] > 0)
  BY Zenon DEF ChildFds
<1>3. Closed[1] = 0 /\ End(NewPid, Its(type))[1] = NewPid
  BY Zenon DEF Closed, End
<1>4. ~(g < MaxFd /\ childpid[g] > 0) => (g \in 0 .. MaxFd - 1 => childpid[g] = 0)
  BY <1>1, PopenAssumption
<1> QED BY Zenon, <1>2, <1>3, <1>4

\* popen, whether or not the child is remembered.
LEMMA PopenStep ==
    ASSUME PoInv, CanPopen, pfd1 < MaxFd, NEW type \in {"r", "w"}, Fork(type, "run"),
           pofd' = [pofd EXCEPT ![MineFd(type)] = End(NewPid, Mine(type))],
           \/ childpid' = [childpid EXCEPT ![MineFd(type)] = NewPid]
           \/ childpid' = childpid,
           UNCHANGED <<closing, std>>
    PROVE  PoInv'
<1> DEFINE m == MineFd(type)
<1>1. m \in FdNum /\ m \in 0 .. MaxFd - 1 /\ pofd[m] = Closed
  <2>1. FreeFds \subseteq FdNum /\ FdNum \subseteq Nat
    BY PopenAssumption DEF FreeFds, FdNum
  <2>2. pfd0 \in FreeFds /\ pfd1 \in FreeFds /\ pfd0 < MaxFd /\ pfd1 < MaxFd
    BY Zenon, PipeFds
  <2>3. m = pfd0 \/ m = pfd1
    BY Zenon DEF MineFd
  <2> HIDE DEF m
  <2>4. m \in FreeFds /\ m < MaxFd
    BY Zenon, <2>2, <2>3
  <2>5. m \in FdNum /\ pofd[m] = Closed
    BY Zenon, <2>4 DEF FreeFds
  <2> QED BY <2>1, <2>4, <2>5, PopenAssumption
<1> HIDE DEF m
<1>2. /\ kid' \in Seq(Kid)
      /\ Len(kid') = NewPid /\ Len(kid) \in Nat /\ NewPid = Len(kid) + 1
      /\ \A k \in 1 .. Len(kid) : kid'[k] = kid[k]
      /\ kid'[NewPid].type = type /\ kid'[NewPid].fds = ChildFds(type)
      /\ Running' = Running \cup {NewPid}
      /\ Running \subseteq 1 .. Len(kid)
  BY Zenon, ForkFacts
<1>3. PoTypes /\ PoNumbers /\ PoStreams /\ PoStandard
  BY Zenon DEF PoInv
<1>4. /\ pofd' \in [FdNum -> Slot]
      /\ pofd'[m] = End(NewPid, type)
      /\ \A f \in FdNum \ {m} : pofd'[f] = pofd[f]
  <2>1. End(NewPid, type) \in Slot
    BY <1>2 DEF End, Slot
  <2> QED BY Zenon, <1>1, <1>3, <2>1 DEF PoTypes, m, Mine
<1>5. /\ childpid' \in [0 .. MaxFd - 1 -> Nat]
      /\ childpid'[m] = NewPid \/ childpid'[m] = childpid[m]
      /\ \A f \in (0 .. MaxFd - 1) \ {m} : childpid'[f] = childpid[f]
  <2>1. childpid \in [0 .. MaxFd - 1 -> Nat] /\ NewPid \in Nat
    BY <1>2, <1>3 DEF PoTypes
  <2>2. \/ childpid' = [childpid EXCEPT ![m] = NewPid]
        \/ childpid' = childpid
    BY Zenon DEF m
  <2> QED BY ZenonT(30), <1>1, <2>1, <2>2
<1>6. PoTypes'
  BY <1>2, <1>3, <1>4, <1>5 DEF PoTypes
<1>7. Closed[1] = 0 /\ End(NewPid, type)[1] = NewPid
  BY Zenon DEF Closed, End
<1>8. /\ \A f \in FdNum : pofd[f][1] <= Len(kid) /\ pofd[f][1] \in Nat
      /\ \A f \in FdNum \ {m} : pofd'[f][1] <= Len(kid)
      /\ pofd'[m][1] = NewPid
  BY Zenon, <1>3, <1>4, <1>7 DEF PoTypes, PoNumbers, Slot
<1>9. \A f \in FdNum : \/ ChildFds(type)[f][1] = 0
                       \/ ChildFds(type)[f][1] = NewPid
                       \/ /\ ChildFds(type)[f][1] = pofd[f][1]
                          /\ f \in 0 .. MaxFd - 1 => childpid[f] = 0
  BY Zenon, ChildHas
<1>10. childpid[m] = 0
  <2> SUFFICES ASSUME childpid[m] # 0 PROVE FALSE
    BY Zenon
  <2>1. pofd[m] = End(childpid[m], kid[childpid[m]].type)
    BY Zenon, <1>1, <1>3 DEF PoStreams
  <2> QED BY <1>1, <1>7, <2>1 DEF End
<1>11. PoNumbers'
  <2>1. \A f \in FdNum : pofd'[f][1] <= NewPid
    BY <1>1, <1>2, <1>8
  <2>2. \A k \in 1 .. NewPid : \A f \in FdNum : kid'[k].fds[f][1] <= NewPid
    <3> TAKE k \in 1 .. NewPid
    <3> TAKE f \in FdNum
    <3>1. CASE k = NewPid
      BY <3>1, <1>2, <1>8, <1>9
    <3>2. CASE k # NewPid
      <4>1. k \in 1 .. Len(kid)
        BY <3>2, <1>2
      <4>2. kid[k].fds[f][1] <= Len(kid) /\ kid[k].fds[f] \in Slot
        <5>1. kid[k] \in Kid
          BY <4>1, <1>3 DEF PoTypes
        <5> QED BY Zenon, <4>1, <5>1, <1>3 DEF PoNumbers, Kid
      <4>3. kid[k].fds[f][1] \in Nat
        BY Zenon, <4>2 DEF Slot
      <4> QED BY <4>1, <4>2, <4>3, <1>2
    <3> QED BY Zenon, <3>1, <3>2
  <2>3. \A f \in 0 .. MaxFd - 1 : childpid'[f] <= NewPid
    BY SMTT(40), <1>2, <1>3, <1>5 DEF PoNumbers, PoTypes
  <2> QED BY ZenonT(30), <1>2, <2>1, <2>2, <2>3 DEF PoNumbers
<1>12. PoStreams'
  <2> SUFFICES ASSUME NEW f \in 0 .. MaxFd - 1, childpid'[f] # 0
               PROVE  /\ f \in FdNum
                      /\ pofd'[f] = End(childpid'[f], kid'[childpid'[f]].type)
                      /\ \A g \in FdNum \ {f} : pofd'[g][1] # childpid'[f]
                      /\ \A j \in Running' \ {childpid'[f]} : \A g \in FdNum : kid'[j].fds[g][1] # childpid'[f]
    BY Zenon DEF PoStreams
  <2>1. CASE f = m
    <3>1. childpid'[f] = NewPid
      BY Zenon, <2>1, <1>5, <1>10
    <3>2. \A g \in FdNum \ {f} : pofd'[g][1] # NewPid
      BY <1>2, <1>8, <1>4, <2>1
    <3>3. \A j \in Running : \A g \in FdNum : kid'[j].fds[g][1] # NewPid
      BY SMTT(40), <1>2, <1>3 DEF PoNumbers
    <3> QED BY SMTT(30), <3>1, <3>2, <3>3, <1>1, <1>2, <1>4, <2>1
  <2>2. CASE f # m
    <3>1. childpid'[f] = childpid[f] /\ childpid[f] \in 1 .. Len(kid)
      BY SMTT(40), <2>2, <1>2, <1>3, <1>5 DEF PoTypes, PoNumbers
    <3>2. /\ f \in FdNum
          /\ pofd[f] = End(childpid[f], kid[childpid[f]].type)
          /\ \A g \in FdNum \ {f} : pofd[g][1] # childpid[f]
          /\ \A j \in Running \ {childpid[f]} : \A g \in FdNum : kid[j].fds[g][1] # childpid[f]
      BY Zenon, <1>3, <3>1 DEF PoStreams
    <3>3. \A g \in FdNum \ {f} : pofd'[g][1] # childpid[f]
      BY SMTT(40), <3>1, <3>2, <1>2, <1>4, <1>8
    <3>4. \A g \in FdNum : kid'[NewPid].fds[g][1] # childpid[f]
      BY SMTT(30), <3>1, <3>2, <1>2, <1>9
    <3>5. \A j \in Running \ {childpid[f]} : \A g \in FdNum : kid'[j].fds[g][1] # childpid[f]
      BY Zenon, <3>2, <1>2
    <3> QED BY SMTT(40), <3>1, <3>2, <3>3, <3>4, <3>5, <1>2, <1>4, <2>2
  <2> QED BY Zenon, <2>1, <2>2
<1>13. PoStandard'
  <2> SUFFICES ASSUME std
               PROVE  /\ \A f \in FdNum : f \in 0 .. 2 => pofd'[f] = File
                      /\ \A k \in Running' : kid'[k].fds[StdOf(kid'[k].type)] = End(k, Its(kid'[k].type))
    BY Zenon DEF PoStandard
  <2>1. /\ \A f \in FdNum : f \in 0 .. 2 => pofd[f] = File
        /\ \A k \in Running : kid[k].fds[StdOf(kid[k].type)] = End(k, Its(kid[k].type))
    BY Zenon, <1>3 DEF PoStandard
  <2>2. ~(m \in 0 .. 2)
    BY <2>1, <1>1 DEF File, Closed
  <2>3. 0 \in FdNum /\ 1 \in FdNum
    BY <2>2, <1>1, PopenAssumption DEF FdNum
  <2>4. \A f \in 0 .. MaxFd - 1 : f \in 0 .. 2 => childpid[f] = 0
    <3> SUFFICES ASSUME NEW f \in 0 .. MaxFd - 1, f \in 0 .. 2, childpid[f] # 0 PROVE FALSE
      BY Zenon
    <3>1. f \in FdNum /\ pofd[f] = End(childpid[f], kid[childpid[f]].type)
      BY Zenon, <1>3 DEF PoStreams
    <3> QED BY <3>1, <2>1 DEF End, File
  <2>5. StdOf(type) \in FdNum /\ StdOf(type) \in 0 .. 2
    BY <2>3 DEF StdOf
  <2>6. ~(StdOf(type) < MaxFd /\ childpid[StdOf(type)] > 0)
    BY <2>4, <2>5, PopenAssumption
  <2>7. ChildFds(type)[StdOf(type)] = End(NewPid, Its(type))
    BY Zenon, <2>5, <2>6 DEF ChildFds
  <2> QED BY ZenonT(30), <2>1, <2>2, <2>7, <1>2, <1>4
<1> QED BY Zenon, <1>6, <1>11, <1>12, <1>13 DEF PoInv

\* pclose forgets the child and closes the caller's end of its pipe.
LEMMA PcloseStep ==
    ASSUME PoInv, NEW f \in 0 .. MaxFd - 1, pclose(f)
    PROVE  PoInv'
<1>1. /\ childpid[f] # 0 /\ kid' = kid /\ std' = std /\ closing' = childpid[f]
      /\ childpid' = [childpid EXCEPT ![f] = 0]
      /\ pofd' = [pofd EXCEPT ![f] = Closed]
      /\ Running' = Running
  BY Zenon DEF pclose, Running
<1>2. PoTypes /\ PoNumbers /\ PoStreams /\ PoStandard
  BY Zenon DEF PoInv
<1>3. f \in FdNum /\ pofd[f] = End(childpid[f], kid[childpid[f]].type)
  BY Zenon, <1>1, <1>2 DEF PoStreams
<1>4. Closed \in Slot /\ Closed[1] = 0
  BY Zenon DEF Closed, Slot
<1>5. /\ pofd' \in [FdNum -> Slot] /\ pofd'[f] = Closed
      /\ \A g \in FdNum \ {f} : pofd'[g] = pofd[g]
  BY Zenon, <1>1, <1>2, <1>3, <1>4 DEF PoTypes
<1>6. /\ childpid' \in [0 .. MaxFd - 1 -> Nat] /\ childpid'[f] = 0
      /\ \A g \in (0 .. MaxFd - 1) \ {f} : childpid'[g] = childpid[g]
  BY Zenon, <1>1, <1>2 DEF PoTypes
<1>7. Len(kid) \in Nat /\ childpid[f] \in 0 .. Len(kid)
  BY <1>2 DEF PoTypes, PoNumbers
<1>8. PoTypes'
  BY Zenon, <1>1, <1>2, <1>5, <1>6, <1>7 DEF PoTypes
<1>9. PoNumbers'
  BY SMTT(30), <1>1, <1>2, <1>4, <1>5, <1>6, <1>7 DEF PoNumbers
<1>10. PoStreams'
  <2> SUFFICES ASSUME NEW h \in 0 .. MaxFd - 1, childpid'[h] # 0
               PROVE  /\ h \in FdNum
                      /\ pofd'[h] = End(childpid'[h], kid'[childpid'[h]].type)
                      /\ \A g \in FdNum \ {h} : pofd'[g][1] # childpid'[h]
                      /\ \A j \in Running' \ {childpid'[h]} : \A g \in FdNum : kid'[j].fds[g][1] # childpid'[h]
    BY Zenon DEF PoStreams
  <2>1. h # f /\ childpid'[h] = childpid[h] /\ childpid[h] # 0
    BY Zenon, <1>6
  <2>2. /\ h \in FdNum
        /\ pofd[h] = End(childpid[h], kid[childpid[h]].type)
        /\ \A g \in FdNum \ {h} : pofd[g][1] # childpid[h]
        /\ \A j \in Running \ {childpid[h]} : \A g \in FdNum : kid[j].fds[g][1] # childpid[h]
    BY Zenon, <1>2, <2>1 DEF PoStreams
  <2> QED BY <1>1, <1>4, <1>5, <2>1, <2>2
<1>11. PoStandard'
  <2>1. std => f \notin 0 .. 2
    BY <1>1, <1>2, <1>3 DEF PoStandard, File, End
  <2> QED BY Zenon, <1>1, <1>2, <1>5, <2>1 DEF PoStandard
<1> QED BY Zenon, <1>8, <1>9, <1>10, <1>11 DEF PoInv

\* One element of a sequence is replaced.
LEMMA ReplaceOne ==
    ASSUME NEW S, NEW s \in Seq(S), NEW k \in 1 .. Len(s), NEW x \in S,
           NEW t, t = [s EXCEPT ![k] = x]
    PROVE  /\ t \in Seq(S) /\ Len(t) = Len(s) /\ DOMAIN t = DOMAIN s
           /\ t[k] = x
           /\ \A j \in 1 .. Len(s) : j # k => t[j] = s[j]
OBVIOUS

\* A child that ends, or is waited for, has no descriptors that it did not have.
LEMMA KidStep ==
    ASSUME PoInv, UNCHANGED <<pofd, childpid, std>>, closing' \in 0 .. Len(kid),
           kid' \in Seq(Kid), Len(kid') = Len(kid), Running' \subseteq Running,
           \A k \in 1 .. Len(kid) :
              /\ kid'[k].type = kid[k].type
              /\ k \in Running' => kid'[k].fds = kid[k].fds
              /\ \A g \in FdNum : kid'[k].fds[g] \in {kid[k].fds[g], Closed}
    PROVE  PoInv'
<1>1. PoTypes /\ PoNumbers /\ PoStreams /\ PoStandard
  BY Zenon DEF PoInv
<1>2. Len(kid) \in Nat /\ DOMAIN kid = 1 .. Len(kid) /\ Running \subseteq 1 .. Len(kid)
  BY <1>1 DEF PoTypes, Running
<1>3. PoTypes'
  BY Zenon, <1>1 DEF PoTypes
<1>4. PoNumbers'
  <2>1. Closed[1] = 0
    BY Zenon DEF Closed
  <2> QED BY <1>1, <1>2, <2>1 DEF PoNumbers
<1>5. PoStreams'
  <2> SUFFICES ASSUME NEW f \in 0 .. MaxFd - 1, childpid[f] # 0
               PROVE  /\ f \in FdNum
                      /\ pofd[f] = End(childpid[f], kid'[childpid[f]].type)
                      /\ \A g \in FdNum \ {f} : pofd[g][1] # childpid[f]
                      /\ \A j \in Running' \ {childpid[f]} : \A g \in FdNum : kid'[j].fds[g][1] # childpid[f]
    BY DEF PoStreams
  <2>1. /\ f \in FdNum
        /\ pofd[f] = End(childpid[f], kid[childpid[f]].type)
        /\ \A g \in FdNum \ {f} : pofd[g][1] # childpid[f]
        /\ \A j \in Running \ {childpid[f]} : \A g \in FdNum : kid[j].fds[g][1] # childpid[f]
    BY Zenon, <1>1 DEF PoStreams
  <2>2. childpid[f] \in 1 .. Len(kid)
    BY SMTT(30), <1>1, <1>2 DEF PoTypes, PoNumbers
  <2> QED BY ZenonT(40), <1>2, <2>1, <2>2
<1>6. PoStandard'
  BY Zenon, <1>1, <1>2 DEF PoStandard
<1> QED BY Zenon, <1>3, <1>4, <1>5, <1>6 DEF PoInv

\* Every step keeps the invariant.
LEMMA PopenSteps == PoInv /\ [poNext]_povars => PoInv'
<1> SUFFICES ASSUME PoInv, [poNext]_povars PROVE PoInv'
  BY Zenon
<1>1. PoTypes
  BY Zenon DEF PoInv
<1>2. \A f \in FreeFds : f \in FdNum /\ pofd[f] = Closed
  BY Zenon DEF FreeFds
<1>3. Closed \in Slot /\ File \in Slot
  BY Zenon DEF Closed, File, Slot
<1>4. ASSUME NEW type \in {"r", "w"}, popen(type) \/ PopenNoStream(type) PROVE PoInv'
  <2>1. CASE popen(type)
    BY Zenon, <2>1, PopenStep DEF popen
  <2>2. CASE PopenNoStream(type)
    BY Zenon, <2>2, PopenStep DEF PopenNoStream
  <2> QED BY Zenon, <1>4, <2>1, <2>2
<1>5. CASE PopenTooMany \/ UNCHANGED povars
  <2> pofd' = pofd /\ childpid' = childpid /\ kid' = kid /\ closing' = closing /\ std' = std
    BY Zenon, <1>5 DEF PopenTooMany, povars
  <2>1. Running' = Running
    BY Zenon DEF Running
  <2>2. PoTypes' /\ PoNumbers'
    BY Zenon DEF PoInv, PoTypes, PoNumbers
  <2>3. PoStreams'
    BY <2>1 DEF PoInv, PoStreams
  <2>4. PoStandard'
    BY Zenon, <2>1 DEF PoInv, PoStandard
  <2> QED BY Zenon, <2>2, <2>3, <2>4 DEF PoInv
<1>6. CASE PopenNoFork
  <2>1. /\ pofd' = [pofd EXCEPT ![pfd0] = File, ![pfd1] = File]
        /\ UNCHANGED <<childpid, kid, closing, std>> /\ CanPopen
    BY Zenon, <1>6 DEF PopenNoFork
  <2>2. pfd0 \in FreeFds /\ pfd1 \in FreeFds
    BY Zenon, <2>1, PipeFds
  <2> QED BY <1>1, <1>2, <1>3, <2>1, <2>2, CallerStep DEF PoTypes
<1>7. ASSUME NEW f \in DOMAIN childpid, pclose(f) PROVE PoInv'
  BY Zenon, <1>1, <1>7, PcloseStep DEF PoTypes
<1>8. CASE PcloseReturn
  <2>1. /\ closing \in 1 .. Len(kid) /\ kid' = [kid EXCEPT ![closing].st = "gone"]
        /\ closing' = 0 /\ UNCHANGED <<pofd, childpid, std>>
        /\ kid \in Seq(Kid)
    BY <1>1, <1>8 DEF PcloseReturn, PoTypes
  <2>2. [kid[closing] EXCEPT !.st = "gone"] \in Kid
    <3>1. kid[closing] \in Kid
      BY <2>1
    <3> QED BY Zenon, <3>1 DEF Kid
  <2>3. kid' \in Seq(Kid) /\ Len(kid') = Len(kid)
    BY <2>1, <2>2
  <2>4. \A k \in 1 .. Len(kid) :
           /\ kid'[k].type = kid[k].type /\ kid'[k].fds = kid[k].fds
           /\ kid'[k].st = "run" => kid[k].st = "run"
    BY <2>1 DEF Kid
  <2>5. Running' \subseteq Running
    BY Zenon, <2>1, <2>3, <2>4 DEF Running
  <2> QED BY <2>1, <2>3, <2>4, <2>5, KidStep
<1>9. CASE OpenFile
  <2>1. /\ pofd' = [pofd EXCEPT ![pfd0] = File] /\ FreeFds # {}
        /\ UNCHANGED <<childpid, kid, closing, std>>
    BY Zenon, <1>9 DEF OpenFile
  <2>2. FreeFds \in SUBSET Nat
    BY PopenAssumption DEF FreeFds, FdNum
  <2>3. pfd0 \in FreeFds
    BY Zenon, <2>1, <2>2, LowestIs DEF pfd0
  <2> QED BY Zenon, <1>1, <1>2, <1>3, <2>1, <2>3, CallerStep DEF PoTypes
<1>10. ASSUME NEW f \in FdNum, CloseFile(f) PROVE PoInv'
  <2>1. /\ pofd' = [pofd EXCEPT ![f] = Closed] /\ pofd[f] = File /\ f > 2
        /\ UNCHANGED <<childpid, kid, closing, std>>
    BY Zenon, <1>10 DEF CloseFile
  <2> QED BY Zenon, <1>1, <1>3, <2>1, CallerStep DEF PoTypes
<1>11. ASSUME NEW k \in DOMAIN kid, Ends(k) PROVE PoInv'
  <2> DEFINE none == [f \in FdNum |-> Closed]
  <2>1. /\ k \in 1 .. Len(kid) /\ kid' = [kid EXCEPT ![k].st = "zombie", ![k].fds = none]
        /\ UNCHANGED <<pofd, childpid, closing, std>>
        /\ kid \in Seq(Kid) /\ kid[k] \in Kid
    BY <1>1, <1>11 DEF Ends, PoTypes
  <2>2. none \in [FdNum -> Slot] /\ \A f \in FdNum : none[f] = Closed
    BY Zenon, <1>3
  <2> HIDE DEF none
  <2> DEFINE ended == [[kid[k] EXCEPT !.st = "zombie"] EXCEPT !.fds = none]
  <2>3. /\ ended \in Kid /\ ended.type = kid[k].type /\ ended.fds = none /\ ended.st = "zombie"
        /\ kid' = [kid EXCEPT ![k] = ended]
    BY Zenon, <2>1, <2>2 DEF Kid
  <2> HIDE DEF ended
  <2>4. /\ kid' \in Seq(Kid) /\ Len(kid') = Len(kid) /\ DOMAIN kid = DOMAIN kid' /\ kid'[k] = ended
        /\ \A j \in 1 .. Len(kid) : j # k => kid'[j] = kid[j]
    <3>1. kid \in Seq(Kid) /\ k \in 1 .. Len(kid) /\ ended \in Kid /\ kid' = [kid EXCEPT ![k] = ended]
      BY Zenon, <2>1, <2>3
    <3> QED BY ONLY <3>1, ReplaceOne
  <2>5. Running' \subseteq Running /\ k \notin Running'
    BY Zenon, <2>3, <2>4 DEF Running
  <2>6. closing' \in 0 .. Len(kid)
    BY Zenon, <1>1, <2>1 DEF PoTypes
  <2> QED BY Zenon, <2>1, <2>2, <2>3, <2>4, <2>5, <2>6, KidStep
<1> QED BY <1>4, <1>5, <1>6, <1>7, <1>8, <1>9, <1>10, <1>11 DEF poNext

\* The private pipes follow from the invariant.
LEMMA PrivateOfInv == PoInv => PipesArePrivate
<1> SUFFICES ASSUME PoInv PROVE PipesArePrivate
  BY Zenon
<1>1. childpid \in [0 .. MaxFd - 1 -> Nat]
  BY Zenon DEF PoInv, PoTypes
<1>2. ASSUME NEW f \in 0 .. MaxFd - 1, childpid[f] # 0
      PROVE  /\ pofd[f] = End(childpid[f], Mine(kid[childpid[f]].type))
             /\ \A j \in Running \ {childpid[f]} : \A e \in {"r", "w"} :
                   ~HasOpen(kid[j].fds, End(childpid[f], e))
  <2>1. /\ pofd[f] = End(childpid[f], kid[childpid[f]].type)
        /\ \A j \in Running \ {childpid[f]} : \A g \in FdNum : kid[j].fds[g][1] # childpid[f]
    BY Zenon, <1>2 DEF PoInv, PoStreams
  <2>2. \A e \in {"r", "w"} : End(childpid[f], e)[1] = childpid[f]
    BY Zenon DEF End
  <2> QED BY <2>1, <2>2, Zenon DEF HasOpen, Mine
<1>3. \A k \in Running : std => kid[k].fds[StdOf(kid[k].type)] = End(k, Its(kid[k].type))
  BY Zenon DEF PoInv, PoStandard
<1> QED BY <1>1, <1>2, <1>3, Zenon DEF PipesArePrivate

\* For any table size and any number of descriptors and children: no child of
\* popen ever holds an end of the pipe of another stream the caller has open,
\* childpid[] and the descriptors agree, and a child talks to its own pipe.
THEOREM PopenIsPrivate == poSpec => []PipesArePrivate
<1>1. poSpec => []PoInv
  BY PopenInitOK, PopenSteps, PTL DEF poSpec
<1> QED BY <1>1, PrivateOfInv, PTL

-----------------------------------------------------------------------------
(***************************************************************************)
(* Barriers: the count of a barrier is the number of threads still to      *)
(* come.                                                                   *)
(***************************************************************************)
\* Everybody who may come to the barrier.
Everybody == IF bprog = "my" THEN BThr ELSE BThr \cup {BMain}
\* The threads that got PTHREAD_BARRIER_SERIAL_THREAD.
Serial == {t \in BThr : bpc[t] \in {"serial", "ended serial"}}

\* The count is the number of threads still to come.
BarrierCount ==
    /\ came \subseteq Everybody
    /\ bcount \in Nat
    /\ bprog = "sort" /\ AtB(BMain, "start") => came = {}
    /\ ~(bprog = "sort" /\ AtB(BMain, "start")) => bcount = Cardinality(Everybody) - Cardinality(came)

\* Ex11_5: where the threads and main are.
MyPlaces ==
    /\ \A t \in BThr : bpc[t] \in {"start", "asleep", "woken", "serial", "out", "ended", "ended serial"}
    /\ \A t \in BThr : t \in came <=> bpc[t] # "start"
    /\ bpc[BMain] \in {"start", "end"}
    /\ \A t \in BThr : bpc[t] \in {"serial", "out", "ended", "ended serial"} => came = BThr
    /\ AtB(BMain, "end") => \A t \in BThr : bpc[t] \in {"ended", "ended serial"}
    /\ came # BThr => Serial = {}
    /\ came = BThr => \E s \in BThr : Serial = {s}

\* barrier.c: where the threads and main are.
SortPlaces ==
    /\ \A t \in BThr : bpc[t] \in {"start", "sort", "arrive", "inside", "passed"}
    /\ bpc[BMain] \in {"start", "arrive", "inside", "passed", "end"}
    /\ AtB(BMain, "start") => \A t \in BThr : AtB(t, "start")
    /\ \A t \in Everybody : t \in came <=> bpc[t] \in {"inside", "passed", "end"}
    /\ \A t \in Everybody : bpc[t] \in {"passed", "end"} => came = Everybody

\* The inductive invariant.
BarrierInv ==
    /\ bprog \in {"my", "sort"}
    /\ bpc = [t \in BThr \cup {BMain} |-> bpc[t]]
    /\ BarrierCount
    /\ bprog = "my" => MyPlaces
    /\ bprog = "sort" => SortPlaces

\* How many threads may come.
LEMMA BThrIs ==
    /\ IsFiniteSet(BThr) /\ Cardinality(BThr) = NTHR /\ BMain \notin BThr /\ BThr # {} /\ NTHR \in Nat
    /\ IsFiniteSet(BThr \cup {BMain}) /\ Cardinality(BThr \cup {BMain}) = NTHR + 1
<1>1. NTHR \in Nat \ {0}
  BY Zenon, BarrierAssumption
<1>2. IsFiniteSet(BThr) /\ Cardinality(BThr) = NTHR
  BY <1>1, FS_Interval DEF BThr
<1>3. BMain \notin BThr /\ 0 \in BThr
  BY <1>1 DEF BThr, BMain
<1>4. IsFiniteSet(BThr \cup {BMain}) /\ Cardinality(BThr \cup {BMain}) = NTHR + 1
  BY Zenon, <1>2, <1>3, FS_AddElement
<1> QED BY Zenon, <1>1, <1>2, <1>3, <1>4

\* One more of S has come: the count of those missing goes down, and is zero
\* when all have come.
LEMMA OneMore ==
    ASSUME NEW S, IsFiniteSet(S), NEW C, C \subseteq S, NEW x \in S, x \notin C, NEW D, D = C \cup {x}
    PROVE  /\ Cardinality(C) \in Nat /\ Cardinality(D) = Cardinality(C) + 1
           /\ Cardinality(D) <= Cardinality(S)
           /\ Cardinality(D) = Cardinality(S) => D = S
<1>1. IsFiniteSet(C) /\ IsFiniteSet(D) /\ D \subseteq S
  BY FS_Subset
<1>2. Cardinality(C) \in Nat
  BY Zenon, <1>1, FS_CardinalityType
<1>3. Cardinality(D) = Cardinality(C) + 1
  BY Zenon, <1>1, FS_AddElement
<1>4. /\ Cardinality(D) <= Cardinality(S)
      /\ Cardinality(D) = Cardinality(S) => D = S
  BY Zenon, <1>1, FS_Subset
<1> QED BY Zenon, <1>2, <1>3, <1>4

\* Nobody has come at the start.
LEMMA BarrierInitOK == bInit => BarrierInv
<1> SUFFICES ASSUME bInit PROVE BarrierInv
  BY Zenon
<1>1. /\ bprog \in {"my", "sort"} /\ came = {} /\ bcount = NTHR
      /\ bpc = [t \in BThr \cup {BMain} |-> "start"]
  BY Zenon DEF bInit, my_barrier_init
<1>2. Cardinality({}) = 0 /\ BMain \notin BThr
  BY Zenon, FS_EmptySet, BThrIs
<1>3. BarrierCount
  <2>1. bprog = "sort" => AtB(BMain, "start")
    BY Zenon, <1>1 DEF AtB
  <2>2. bprog = "my" => bcount = Cardinality(Everybody) - Cardinality(came)
    BY <1>1, <1>2, BThrIs DEF Everybody
  <2> QED BY Zenon, <1>1, <2>1, <2>2, BThrIs DEF BarrierCount
<1>4. \A t \in BThr \cup {BMain} : bpc[t] = "start"
  BY Zenon, <1>1
<1>5. MyPlaces
  BY Zenon, <1>1, <1>4, BThrIs DEF MyPlaces, AtB, Serial
<1>6. SortPlaces
  BY Zenon, <1>1, <1>4, BThrIs DEF SortPlaces, AtB, Everybody
<1> QED BY Zenon, <1>1, <1>3, <1>5, <1>6 DEF BarrierInv

\* An unsigned count that is not zero does not wrap around.
LEMMA Decrement ==
    ASSUME NEW n \in Nat, NEW d \in Nat, n > 0, n <= d
    PROVE  (n - 1) % (d + 1) = n - 1
<1>1. n - 1 \in Nat /\ n - 1 < d + 1 /\ d + 1 \in Nat \ {0}
  OBVIOUS
<1> QED BY <1>1

\* my_barrier_wait: the last one to come is told so and wakes the others.
LEMMA MyWaitStep ==
    ASSUME BarrierInv, NEW t \in BThr, my_barrier_wait(t)
    PROVE  BarrierInv'
<1>0. /\ bprog = "my" /\ bprog' = "my" /\ MyPlaces /\ BarrierCount /\ AtB(t, "start")
      /\ came' = came \cup {t} /\ bpc = [u \in BThr \cup {BMain} |-> bpc[u]]
      /\ bcount' = (bcount - 1) % (UnsignedMax + 1)
  BY Zenon DEF BarrierInv, my_barrier_wait
<1>1. Everybody = BThr /\ came \subseteq BThr /\ bcount \in Nat /\ bcount = NTHR - Cardinality(came)
  BY Zenon, <1>0, BThrIs DEF Everybody, BarrierCount
<1>2. t \notin came /\ t \in DOMAIN bpc /\ DOMAIN bpc = BThr \cup {BMain}
  BY Zenon, <1>0 DEF MyPlaces, AtB
<1>3. /\ Cardinality(came) \in Nat /\ Cardinality(came') = Cardinality(came) + 1
      /\ Cardinality(came') <= NTHR /\ (Cardinality(came') = NTHR <=> came' = BThr)
  <2>1. IsFiniteSet(BThr) /\ Cardinality(BThr) = NTHR
    BY Zenon, BThrIs
  <2>2. /\ Cardinality(came) \in Nat /\ Cardinality(came') = Cardinality(came) + 1
        /\ Cardinality(came') <= Cardinality(BThr)
        /\ Cardinality(came') = Cardinality(BThr) => came' = BThr
    BY <1>0, <1>1, <1>2, <2>1, OneMore
  <2> QED BY Zenon, <2>1, <2>2
<1>4. bcount' = bcount - 1 /\ bcount' \in Nat /\ bcount' = NTHR - Cardinality(came')
  <2>1. NTHR \in Nat /\ bcount > 0 /\ bcount <= UnsignedMax /\ UnsignedMax \in Nat
    BY <1>1, <1>3, BarrierAssumption
  <2>2. bcount' = bcount - 1
    BY Zenon, <1>0, <1>1, <2>1, Decrement
  <2> QED BY <1>1, <1>3, <2>1, <2>2
<1>5. Everybody' = BThr
  BY Zenon, <1>0 DEF Everybody
<1>6. BarrierCount'
  BY Zenon, <1>0, <1>1, <1>4, <1>5, BThrIs DEF BarrierCount
<1>7. came # BThr /\ (bcount' = 0 <=> came' = BThr)
  <2>1. NTHR \in Nat /\ Cardinality(came') \in Nat
    BY <1>3, BThrIs
  <2>2. bcount' = 0 <=> Cardinality(came') = NTHR
    <3>1. bcount' = NTHR - Cardinality(came')
      BY Zenon, <1>4
    <3> QED BY ONLY <2>1, <3>1
  <2> QED BY Zenon, <1>2, <1>3, <2>2
<1>8. \A u \in BThr : bpc[u] \in {"start", "asleep", "woken"}
  BY Zenon, <1>0, <1>7 DEF MyPlaces
<1>9. AtB(BMain, "start") /\ BMain # t /\ t \in BThr \cup {BMain}
  BY Zenon, <1>0, <1>2, <1>8, BThrIs DEF MyPlaces, AtB
<1>10. CASE came' = BThr
  <2>1. bpc' = [u \in BThr \cup {BMain} |-> IF u = t THEN "serial"
                                            ELSE IF AtB(u, "asleep") THEN "woken" ELSE bpc[u]]
    BY Zenon, <1>2, <1>7, <1>10 DEF my_barrier_wait
  <2>2. /\ bpc'[t] = "serial" /\ bpc'[BMain] = "start"
        /\ \A u \in BThr \ {t} : bpc'[u] = IF bpc[u] = "asleep" THEN "woken" ELSE bpc[u]
    BY Zenon, <1>9, <2>1 DEF AtB
  <2>3. \A u \in BThr \ {t} : bpc'[u] = "woken"
    <3>1. \A u \in BThr \ {t} : bpc[u] # "start"
      BY Zenon, <1>0, <1>10 DEF MyPlaces
    <3> QED BY Zenon, <1>8, <2>2, <3>1
  <2>4. Serial' = {t}
    BY Zenon, <2>2, <2>3 DEF Serial
  <2>5. MyPlaces'
    BY Zenon, <1>10, <2>2, <2>3, <2>4 DEF MyPlaces, AtB
  <2> QED BY Zenon, <1>0, <1>6, <2>1, <2>5 DEF BarrierInv
<1>11. CASE came' # BThr
  <2>1. bpc' = [bpc EXCEPT ![t] = "asleep"]
    BY Zenon, <1>7, <1>11 DEF my_barrier_wait
  <2>2. /\ bpc' = [u \in BThr \cup {BMain} |-> bpc'[u]]
        /\ bpc'[t] = "asleep" /\ bpc'[BMain] = "start" /\ \A u \in BThr \ {t} : bpc'[u] = bpc[u]
    BY Zenon, <1>0, <1>9, <2>1 DEF AtB
  <2>3. Serial' = {}
    BY Zenon, <1>8, <2>2 DEF Serial
  <2>4. \A u \in BThr : bpc'[u] \in {"start", "asleep", "woken"}
    BY Zenon, <1>8, <2>2
  <2>5. \A u \in BThr : u \in came' <=> bpc'[u] # "start"
    BY Zenon, <1>0, <2>2 DEF MyPlaces
  <2>6. MyPlaces'
    BY Zenon, <1>11, <2>2, <2>3, <2>4, <2>5 DEF MyPlaces, AtB
  <2> QED BY Zenon, <1>0, <1>6, <2>2, <2>6 DEF BarrierInv
<1> QED BY Zenon, <1>10, <1>11

\* A thread that has waited wakes up, looks at the count, or returns.
LEMMA MyMoveStep ==
    ASSUME BarrierInv, NEW t \in BThr, bprog = "my", Awake(t) \/ SpuriousB(t) \/ thrd_func(t)
    PROVE  BarrierInv'
<1>0. /\ bprog' = "my" /\ MyPlaces /\ BarrierCount /\ UNCHANGED <<bcount, came>>
      /\ bpc = [u \in BThr \cup {BMain} |-> bpc[u]]
  BY Zenon DEF BarrierInv, Awake, SpuriousB, thrd_func
<1>1. Everybody = BThr /\ Everybody' = BThr /\ BMain \notin BThr
  BY Zenon, <1>0, BThrIs DEF Everybody
<1>2. BarrierCount'
  BY Zenon, <1>0, <1>1 DEF BarrierCount
<1>3. bcount = 0 => came = BThr
  <2>1. bcount = NTHR - Cardinality(came) /\ came \subseteq BThr
    BY Zenon, <1>0, <1>1, BThrIs DEF BarrierCount
  <2>2. came # BThr => Cardinality(came) < NTHR
    BY <2>1, BThrIs, FS_Subset, FS_CardinalityType
  <2> QED BY <2>1, <2>2, BThrIs, FS_CardinalityType, FS_Subset
<1>4. PICK new : /\ bpc' = [bpc EXCEPT ![t] = new] /\ bpc[t] # "start"
                 /\ new \in {"asleep", "woken", "out", "ended", "ended serial"}
                 /\ new \in {"out", "ended", "ended serial"} => came = BThr
                 /\ new = "ended serial" <=> bpc[t] \in {"serial", "ended serial"}
                 /\ bpc[t] \notin {"ended", "ended serial"}
  <2>1. CASE Awake(t)
    <3>1. AtB(t, "woken") /\ bpc' = [bpc EXCEPT ![t] = IF bcount > 0 THEN "asleep" ELSE "out"]
      BY Zenon, <2>1 DEF Awake, GoB
    <3>2. bcount > 0 \/ bcount = 0
      BY <1>0 DEF BarrierCount
    <3> QED BY Zenon, <1>3, <3>1, <3>2 DEF AtB
  <2>2. CASE SpuriousB(t)
    BY Zenon, <2>2 DEF SpuriousB, GoB, AtB
  <2>3. CASE thrd_func(t)
    <3>1. /\ bpc[t] \in {"serial", "out"}
          /\ bpc' = [bpc EXCEPT ![t] = IF AtB(t, "serial") THEN "ended serial" ELSE "ended"]
      BY Zenon, <2>3 DEF thrd_func, GoB
    <3>2. came = BThr
      BY Zenon, <1>0, <3>1 DEF MyPlaces
    <3> QED BY Zenon, <3>1, <3>2 DEF AtB
  <2> QED BY Zenon, <2>1, <2>2, <2>3
<1>5. /\ bpc' = [u \in BThr \cup {BMain} |-> bpc'[u]]
      /\ bpc'[t] = new /\ bpc'[BMain] = bpc[BMain] /\ \A u \in BThr \ {t} : bpc'[u] = bpc[u]
  BY Zenon, <1>0, <1>1, <1>4
<1>6. Serial' = Serial
  BY Zenon, <1>4, <1>5 DEF Serial
<1>7. ~AtB(BMain, "end")
  BY Zenon, <1>0, <1>4 DEF MyPlaces
<1>8. MyPlaces'
  BY Zenon, <1>0, <1>4, <1>5, <1>6, <1>7 DEF MyPlaces, AtB
<1> QED BY Zenon, <1>0, <1>2, <1>5, <1>8 DEF BarrierInv

\* main has joined every thread.
LEMMA DestroyStep ==
    ASSUME BarrierInv, my_barrier_destroy
    PROVE  BarrierInv'
<1>0. /\ bprog = "my" /\ bprog' = "my" /\ MyPlaces /\ BarrierCount /\ came' = came /\ bcount' = 0
      /\ bpc = [u \in BThr \cup {BMain} |-> bpc[u]] /\ bpc' = [bpc EXCEPT ![BMain] = "end"]
      /\ \A t \in BThr : bpc[t] \in {"ended", "ended serial"}
  BY Zenon DEF BarrierInv, my_barrier_destroy, GoB
<1>1. /\ bpc' = [u \in BThr \cup {BMain} |-> bpc'[u]]
      /\ bpc'[BMain] = "end" /\ \A u \in BThr : bpc'[u] = bpc[u]
  BY Zenon, <1>0, BThrIs
<1>2. came = BThr
  BY Zenon, <1>0, BThrIs DEF MyPlaces
<1>3. BarrierCount'
  <2>1. Everybody' = BThr /\ came' = BThr /\ bprog' # "sort"
    BY Zenon, <1>0, <1>2 DEF Everybody
  <2>2. NTHR - NTHR = 0 /\ Cardinality(BThr) = NTHR
    BY BThrIs
  <2> QED BY Zenon, <1>0, <2>1, <2>2 DEF BarrierCount
<1>4. Serial' = Serial
  BY Zenon, <1>1 DEF Serial
<1>5. MyPlaces'
  BY Zenon, <1>0, <1>1, <1>4 DEF MyPlaces, AtB
<1> QED BY Zenon, <1>0, <1>1, <1>3, <1>5 DEF BarrierInv

\* main of barrier.c creates the numbers and the threads.
LEMMA CreateStep ==
    ASSUME BarrierInv, CreateNumbers
    PROVE  BarrierInv'
<1>0. /\ bprog = "sort" /\ bprog' = "sort" /\ BarrierCount /\ came' = came /\ bcount' = NTHR + 1
      /\ AtB(BMain, "start") /\ DOMAIN bpc = BThr \cup {BMain}
      /\ bpc' = [t \in DOMAIN bpc |-> IF t = BMain THEN "arrive" ELSE "sort"]
  BY Zenon DEF BarrierInv, CreateNumbers
<1>1. came' = {} /\ Everybody' = BThr \cup {BMain}
  BY Zenon, <1>0 DEF BarrierCount, Everybody
<1>2. /\ bpc' = [t \in BThr \cup {BMain} |-> bpc'[t]]
      /\ bpc'[BMain] = "arrive" /\ \A t \in BThr : bpc'[t] = "sort"
  BY Zenon, <1>0, BThrIs
<1>3. BarrierCount'
  <2>1. NTHR + 1 \in Nat /\ Cardinality(Everybody') = NTHR + 1 /\ Cardinality({}) = 0
    BY <1>1, BThrIs, FS_EmptySet
  <2>2. bcount' = Cardinality(Everybody') - Cardinality(came')
    BY <1>0, <1>1, <2>1
  <2> QED BY Zenon, <1>0, <1>1, <2>1, <2>2 DEF BarrierCount
<1>4. SortPlaces'
  BY Zenon, <1>1, <1>2 DEF SortPlaces, AtB
<1> QED BY Zenon, <1>0, <1>2, <1>3, <1>4 DEF BarrierInv

\* The threads and main arrive at the barrier; the last one lets them pass.
LEMMA ArriveStep ==
    ASSUME BarrierInv, NEW t \in BThr \cup {BMain}, BarrierWait(t)
    PROVE  BarrierInv'
<1>0. /\ AtB(t, "arrive") /\ bcount > 0 /\ bcount' = bcount - 1 /\ bprog' = bprog
      /\ BarrierCount /\ came' = came \cup {t} /\ bpc = [u \in BThr \cup {BMain} |-> bpc[u]]
  BY Zenon DEF BarrierInv, BarrierWait
<1>1. bprog = "sort" /\ SortPlaces
  <2>1. bprog # "my"
    BY Zenon, <1>0 DEF BarrierInv, MyPlaces, AtB
  <2> QED BY Zenon, <2>1 DEF BarrierInv
<1>2. Everybody = BThr \cup {BMain} /\ Everybody' = BThr \cup {BMain}
  BY Zenon, <1>0, <1>1 DEF Everybody
<1>3. bpc[BMain] # "start" /\ t \notin came
  BY Zenon, <1>0, <1>1, <1>2 DEF SortPlaces, AtB
<1>4. came \subseteq Everybody /\ bcount = Cardinality(Everybody) - Cardinality(came) /\ bcount \in Nat
  BY Zenon, <1>0, <1>3 DEF BarrierCount, AtB
<1>5. IsFiniteSet(Everybody) /\ Cardinality(Everybody) \in Nat
  BY <1>2, BThrIs
<1>6. /\ Cardinality(came) \in Nat /\ Cardinality(came') = Cardinality(came) + 1
      /\ Cardinality(came') <= Cardinality(Everybody)
      /\ Cardinality(came') = Cardinality(Everybody) => came' = Everybody
  <2>1. /\ t \in Everybody /\ t \notin came /\ came \subseteq Everybody
        /\ came' = came \cup {t} /\ IsFiniteSet(Everybody)
    BY Zenon, <1>0, <1>2, <1>3, <1>4, <1>5
  <2> QED BY ONLY <2>1, OneMore
<1>7. bcount' \in Nat /\ bcount' = Cardinality(Everybody) - Cardinality(came')
  BY <1>0, <1>4, <1>5, <1>6
<1>8. bcount' = 0 <=> came' = Everybody
  <2>1. Cardinality(came') \in Nat
    BY <1>6
  <2>2. bcount' = Cardinality(Everybody) - Cardinality(came')
    BY Zenon, <1>7
  <2>3. bcount' = 0 <=> Cardinality(came') = Cardinality(Everybody)
    BY ONLY <1>5, <2>1, <2>2
  <2> QED BY Zenon, <1>6, <2>3
<1>9. \A u \in Everybody : bpc[u] # "passed"
  BY Zenon, <1>1, <1>2, <1>3 DEF SortPlaces
<1>10. bpc[BMain] # "end"
  BY Zenon, <1>1, <1>2, <1>3 DEF SortPlaces
<1>11. CASE came' = Everybody
  <2>1. bpc' = [u \in BThr \cup {BMain} |-> IF u = t \/ AtB(u, "inside") THEN "passed" ELSE bpc[u]]
    BY Zenon, <1>0, <1>8, <1>11 DEF BarrierWait
  <2>2. \A u \in Everybody : bpc'[u] = "passed"
    <3>1. \A u \in Everybody \ {t} : bpc[u] \in {"inside", "passed", "end"}
      BY Zenon, <1>0, <1>1, <1>11 DEF SortPlaces
    <3>2. \A u \in Everybody \ {t} : bpc[u] # "end"
      BY Zenon, <1>1, <1>2, <1>10 DEF SortPlaces
    <3> QED BY Zenon, <1>2, <1>9, <2>1, <3>1, <3>2 DEF AtB
  <2>3. SortPlaces'
    BY Zenon, <1>2, <1>11, <2>2 DEF SortPlaces, AtB
  <2>4. BarrierCount'
    BY Zenon, <1>1, <1>2, <1>7, <1>11, <2>2 DEF BarrierCount, AtB
  <2> QED BY Zenon, <1>0, <1>1, <2>1, <2>3, <2>4 DEF BarrierInv
<1>12. CASE came' # Everybody
  <2>1. bpc' = [bpc EXCEPT ![t] = "inside"]
    BY Zenon, <1>8, <1>12 DEF BarrierWait
  <2>2. /\ bpc' = [u \in BThr \cup {BMain} |-> bpc'[u]]
        /\ bpc'[t] = "inside" /\ \A u \in Everybody \ {t} : bpc'[u] = bpc[u]
    BY Zenon, <1>0, <1>2, <2>1
  <2>3. SortPlaces'
    BY ZenonT(30), <1>0, <1>1, <1>2, <1>3, <1>9, <2>2, BThrIs DEF SortPlaces, AtB
  <2>4. BarrierCount'
    BY ZenonT(30), <1>0, <1>1, <1>2, <1>3, <1>4, <1>7, <2>2 DEF BarrierCount, AtB
  <2> QED BY Zenon, <1>0, <1>1, <2>2, <2>3, <2>4 DEF BarrierInv
<1> QED BY Zenon, <1>11, <1>12

\* A thread sorts its part, and main merges them and prints the numbers.
LEMMA SortStep ==
    ASSUME BarrierInv, merge \/ PrintSorted \/ \E t \in BThr : SortPart(t)
    PROVE  BarrierInv'
<1>0. /\ UNCHANGED <<bprog, bcount, came>> /\ BarrierCount
      /\ bpc = [u \in BThr \cup {BMain} |-> bpc[u]]
  BY Zenon DEF BarrierInv, merge, PrintSorted, SortPart
<1>1. bprog = "sort" /\ SortPlaces
  <2>1. bprog # "my"
    BY Zenon DEF BarrierInv, MyPlaces, merge, PrintSorted, SortPart, AtB
  <2> QED BY Zenon, <2>1 DEF BarrierInv
<1>2. Everybody = BThr \cup {BMain} /\ Everybody' = BThr \cup {BMain}
  BY Zenon, <1>0, <1>1 DEF Everybody
<1>3. \/ bpc' = bpc
      \/ AtB(BMain, "passed") /\ bpc' = [bpc EXCEPT ![BMain] = "end"]
      \/ \E t \in BThr : AtB(t, "sort") /\ bpc' = [bpc EXCEPT ![t] = "arrive"]
  BY Zenon DEF merge, PrintSorted, SortPart, GoB
<1>4. /\ bpc' = [u \in BThr \cup {BMain} |-> bpc'[u]]
      /\ AtB(BMain, "start")' <=> AtB(BMain, "start")
  BY Zenon, <1>0, <1>3, BThrIs DEF AtB
<1>5. BarrierCount'
  BY Zenon, <1>0, <1>2, <1>4 DEF BarrierCount
<1>6. SortPlaces'
  BY ZenonT(30), <1>0, <1>1, <1>2, <1>3, BThrIs DEF SortPlaces, AtB
<1> QED BY Zenon, <1>0, <1>1, <1>4, <1>5, <1>6 DEF BarrierInv

\* Every step keeps the invariant.
LEMMA BarrierSteps == BarrierInv /\ [bNext]_bvars => BarrierInv'
<1> SUFFICES ASSUME BarrierInv, [bNext]_bvars PROVE BarrierInv'
  BY Zenon
<1>1. CASE UNCHANGED bvars
  BY ZenonT(30), <1>1 DEF bvars, BarrierInv, BarrierCount, MyPlaces, SortPlaces, Everybody, Serial, AtB
<1>2. CASE MainB
  BY Zenon, <1>2, DestroyStep, CreateStep, ArriveStep, SortStep DEF MainB
<1>3. ASSUME NEW t \in BThr, Awake(t) \/ SpuriousB(t) \/ thrd_func(t) PROVE BarrierInv'
  <2>1. bprog = "my"
    BY Zenon, <1>3 DEF BarrierInv, SortPlaces, Awake, SpuriousB, thrd_func, AtB
  <2> QED BY Zenon, <1>3, <2>1, MyMoveStep
<1>4. ASSUME NEW t \in BThr, ThreadB(t) \/ SpuriousB(t) PROVE BarrierInv'
  BY Zenon, <1>3, <1>4, MyWaitStep, SortStep, ArriveStep DEF ThreadB
<1> QED BY Zenon, <1>1, <1>2, <1>4 DEF bNext

(***************************************************************************)
(* For any number of threads, and with wakeups that come without a reason: *)
(* nobody leaves either barrier before the last one has come, exactly one  *)
(* thread is told that it was the last one, and main destroys the barrier  *)
(* of Ex11_5.barrier_wait.c after everybody has left it.                   *)
(***************************************************************************)
THEOREM BarrierKeepsBack == bSpec => []BarrierHolds
<1>1. ASSUME BarrierInv PROVE BarrierHolds
  <2> DEFINE past == {t \in DOMAIN bpc : bpc[t] \in {"serial", "out", "ended", "ended serial", "passed"}}
  <2>1. DOMAIN bpc = BThr \cup {BMain} /\ bprog \in {"my", "sort"} /\ BMain \notin BThr
    BY Zenon, <1>1, BThrIs DEF BarrierInv
  <2>2. CASE bprog = "my"
    <3>1. MyPlaces
      BY Zenon, <1>1, <2>2 DEF BarrierInv
    <3>2. past \subseteq BThr
      BY Zenon, <2>1, <3>1 DEF MyPlaces
    <3>3. past # {} => came = BThr
      BY Zenon, <3>1, <3>2 DEF MyPlaces
    <3>4. AtB(BMain, "end") => past = BThr
      BY Zenon, <2>1, <3>1, <3>2 DEF MyPlaces
    <3>5. Cardinality(Serial) = IF came = BThr THEN 1 ELSE 0
      BY Zenon, <3>1, FS_EmptySet, FS_Singleton DEF MyPlaces
    <3> QED BY <2>2, <3>3, <3>4, <3>5, Zenon DEF BarrierHolds, Serial
  <2>3. CASE bprog = "sort"
    <3>1. SortPlaces /\ Everybody = BThr \cup {BMain}
      BY Zenon, <1>1, <2>3 DEF BarrierInv, Everybody
    <3>2. past # {} => came = DOMAIN bpc
      BY Zenon, <2>1, <3>1 DEF SortPlaces
    <3>3. bprog # "my"
      BY Zenon, <2>3
    <3> QED BY <3>2, <3>3, Zenon DEF BarrierHolds
  <2> QED BY Zenon, <2>1, <2>2, <2>3
<1>2. BarrierInv => BarrierHolds
  BY Zenon, <1>1
<1> QED BY BarrierInitOK, BarrierSteps, <1>2, PTL DEF bSpec
=============================================================================
