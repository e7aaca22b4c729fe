------------------------------ MODULE Barriers ------------------------------
(***************************************************************************)
(* Two programs with a barrier.                                            *)
(*   "my"    mytests/threads/Ex11_5.barrier_wait.c: a barrier made of a    *)
(*           mutex and a condition variable; its sections under the mutex  *)
(*           are one step each, pthread_cond_wait splits them;             *)
(*   "sort"  threads/barrier.c: threads sort a part of the numbers each    *)
(*           and meet the main thread at a pthread barrier; then the main  *)
(*           thread merges the parts.                                      *)
(***************************************************************************)
EXTENDS Integers, FiniteSets, Sequences, TLC

CONSTANTS NTHR,       \* threads (THRD_NUMS of the first program)
          TNUM,       \* numbers one thread sorts
          MaxNum,     \* bound: the largest number random() returns
          UnsignedMax \* the largest unsigned

ASSUME BarrierAssumption == NTHR \in Nat \ {0} /\ UnsignedMax \in Nat /\ NTHR <= UnsignedMax

BThr == 0 .. (NTHR - 1)
BMain == NTHR
NUMNUM == NTHR * TNUM
\* More than random() returns, as it is where a long has 64 bits.
LONG_MAX == MaxNum + 1

VARIABLES
    bprog,   \* the program that runs
    bpc,     \* [BThr \cup {BMain} -> where the thread is]
    bcount,  \* barrier->count; for the pthread barrier, threads still missing
    came,    \* threads that have called wait
    nums, snums, unsorted, \* the numbers, the result, the numbers as created
    idx      \* merge: idx[i], the next number of part i

bvars == <<bprog, bpc, bcount, came, nums, snums, unsorted, idx>>

AtB(t, pc) == bpc[t] = pc
GoB(t, pc) == bpc' = [bpc EXCEPT ![t] = pc]

(***************************************************************************)
(* Ex11_5.barrier_wait.c.                                                  *)
(***************************************************************************)
my_barrier_init == NTHR

\* The last one wakes all others and is told so; the others sleep.
my_barrier_wait(t) ==
    /\ bprog = "my" /\ AtB(t, "start")
    /\ bcount' = (bcount - 1) % (UnsignedMax + 1)
    /\ came' = came \cup {t}
    /\ bpc' = IF bcount' = 0
              THEN [u \in DOMAIN bpc |-> IF u = t THEN "serial"
                                         ELSE IF AtB(u, "asleep") THEN "woken" ELSE bpc[u]]
              ELSE [bpc EXCEPT ![t] = "asleep"]
    /\ UNCHANGED <<bprog, nums, snums, unsorted, idx>>

\* Takes every wakeup for the one it waits for.
Awake_Variant(t) ==
    /\ AtB(t, "woken")
    /\ GoB(t, "out")
    /\ UNCHANGED <<bprog, bcount, came, nums, snums, unsorted, idx>>

\* pthread_cond_wait has returned: while (barrier->count > 0).
Awake(t) ==
    /\ AtB(t, "woken")
    /\ GoB(t, IF bcount > 0 THEN "asleep" ELSE "out")
    /\ UNCHANGED <<bprog, bcount, came, nums, snums, unsorted, idx>>

\* A wakeup without a broadcast.
SpuriousB(t) ==
    /\ AtB(t, "asleep")
    /\ GoB(t, "woken")
    /\ UNCHANGED <<bprog, bcount, came, nums, snums, unsorted, idx>>

\* thrd_func returns after my_barrier_wait.
thrd_func(t) ==
    /\ bprog = "my" /\ bpc[t] \in {"serial", "out"}
    /\ GoB(t, IF AtB(t, "serial") THEN "ended serial" ELSE "ended")
    /\ UNCHANGED <<bprog, bcount, came, nums, snums, unsorted, idx>>

\* main joins every thread, then destroys the barrier.
my_barrier_destroy ==
    /\ bprog = "my" /\ AtB(BMain, "start")
    /\ \A t \in BThr : bpc[t] \in {"ended", "ended serial"}
    /\ bcount' = 0
    /\ GoB(BMain, "end")
    /\ UNCHANGED <<bprog, came, nums, snums, unsorted, idx>>

(***************************************************************************)
(* barrier.c.                                                              *)
(***************************************************************************)
\* main: the numbers are created before the threads, and the barrier is for
\* all of them and for main.
CreateNumbers_Variant ==
    /\ bprog = "sort" /\ AtB(BMain, "start")
    /\ nums' \in [0 .. (NUMNUM - 1) -> 0 .. MaxNum]
    /\ unsorted' = nums'
    /\ bcount' = NTHR
    /\ bpc' = [t \in DOMAIN bpc |-> IF t = BMain THEN "arrive" ELSE "sort"]
    /\ UNCHANGED <<bprog, came, snums, idx>>

CreateNumbers ==
    /\ bprog = "sort" /\ AtB(BMain, "start")
    /\ nums' \in [0 .. (NUMNUM - 1) -> 0 .. MaxNum]
    /\ unsorted' = nums'
    /\ bcount' = NTHR + 1
    /\ bpc' = [t \in DOMAIN bpc |-> IF t = BMain THEN "arrive" ELSE "sort"]
    /\ UNCHANGED <<bprog, came, snums, idx>>

\* complong, the order heapsort works by.
complong(l1, l2) == IF l1 = l2 THEN 0 ELSE IF l1 < l2 THEN -1 ELSE 1

Part(f, i) == [k \in 1 .. TNUM |-> f[(i * TNUM) + k - 1]]

\* thr_fn: heapsort of the thread's own part.
SortPart(t) ==
    /\ AtB(t, "sort")
    /\ LET sorted == SortSeq(Part(nums, t), LAMBDA a, b : complong(a, b) < 0)
       IN  nums' = [k \in DOMAIN nums |->
                      IF k \in (t * TNUM) .. (((t + 1) * TNUM) - 1)
                      THEN sorted[k - (t * TNUM) + 1] ELSE nums[k]]
    /\ GoB(t, "arrive")
    /\ UNCHANGED <<bprog, bcount, came, snums, unsorted, idx>>

\* pthread_barrier_wait: the last one releases those who are inside.
BarrierWait(t) ==
    /\ AtB(t, "arrive") /\ bcount > 0
    /\ bcount' = bcount - 1
    /\ came' = came \cup {t}
    /\ bpc' = IF bcount' = 0
              THEN [u \in DOMAIN bpc |-> IF u = t \/ AtB(u, "inside") THEN "passed" ELSE bpc[u]]
              ELSE [bpc EXCEPT ![t] = "inside"]
    /\ UNCHANGED <<bprog, nums, snums, unsorted, idx>>

\* The parts that still have numbers, and the first of the smallest ones:
\* only a number below num replaces it.
Remaining == {i \in BThr : idx[i] < (i + 1) * TNUM /\ nums[idx[i]] < LONG_MAX}
minidx ==
    CHOOSE i \in Remaining : \A j \in Remaining :
        nums[idx[i]] < nums[idx[j]] \/ (nums[idx[i]] = nums[idx[j]] /\ i <= j)

\* One turn of the outer loop of merge().
merge ==
    /\ AtB(BMain, "passed") /\ Len(snums) < NUMNUM
    /\ snums' = Append(snums, nums[idx[minidx]])
    /\ idx' = [idx EXCEPT ![minidx] = @ + 1]
    /\ UNCHANGED <<bprog, bpc, bcount, came, nums, unsorted>>

PrintSorted ==
    /\ AtB(BMain, "passed") /\ Len(snums) = NUMNUM
    /\ GoB(BMain, "end")
    /\ UNCHANGED <<bprog, bcount, came, nums, snums, unsorted, idx>>

bInit ==
    /\ bprog \in {"my", "sort"}
    /\ bpc = [t \in BThr \cup {BMain} |-> "start"]
    /\ bcount = my_barrier_init
    /\ came = {}
    /\ nums = << >> /\ snums = << >> /\ unsorted = << >>
    /\ idx = [i \in BThr |-> i * TNUM]

ThreadB(t) == my_barrier_wait(t) \/ Awake(t) \/ thrd_func(t) \/ SortPart(t) \/ BarrierWait(t)
MainB == my_barrier_destroy \/ CreateNumbers \/ BarrierWait(BMain) \/ merge \/ PrintSorted

bNext == MainB \/ \E t \in BThr : ThreadB(t) \/ SpuriousB(t)

\* Every thread runs.
bFair == WF_bvars(MainB) /\ \A t \in BThr : WF_bvars(ThreadB(t))
bSpec == bInit /\ [][bNext]_bvars /\ bFair

bTypeOK ==
    /\ bpc \in [BThr \cup {BMain} -> {"start", "asleep", "woken", "serial", "out", "ended",
                                      "ended serial", "sort", "arrive", "inside", "passed", "end"}]
    /\ bcount \in 0 .. UnsignedMax /\ came \subseteq DOMAIN bpc
    /\ Len(snums) <= NUMNUM

(***************************************************************************)
(* Nobody is past the barrier before the last one has come to it, one and  *)
(* only one thread is told that it was the last, and the barrier is not    *)
(* destroyed while a thread is in it; wakeups without a reason included.   *)
(***************************************************************************)
BarrierHolds ==
    LET past == {t \in DOMAIN bpc : bpc[t] \in {"serial", "out", "ended", "ended serial", "passed"}}
        all == IF bprog = "my" THEN BThr ELSE DOMAIN bpc
    IN  /\ past # {} => came = all
        /\ bprog = "my" => Cardinality({t \in BThr : bpc[t] \in {"serial", "ended serial"}})
                             = (IF came = BThr THEN 1 ELSE 0)
        /\ bprog = "my" /\ AtB(BMain, "end") => past = BThr

(***************************************************************************)
(* What main prints is the numbers it created, in order: the barrier keeps *)
(* merge() from parts that are not sorted yet, and merge() takes every     *)
(* number once, equal ones in different parts included.                    *)
(***************************************************************************)
MergeSorts ==
    bprog = "sort" /\ AtB(BMain, "end") =>
        /\ \A k \in 1 .. (NUMNUM - 1) : snums[k] <= snums[k + 1]
        /\ \A v \in 0 .. MaxNum :
              Cardinality({k \in DOMAIN snums : snums[k] = v})
                = Cardinality({k \in DOMAIN unsorted : unsorted[k] = v})

(***************************************************************************)
(* Every program comes to its end: no thread is left asleep in the barrier *)
(* and main joins them all.                                                *)
(***************************************************************************)
BarrierOpens == <>AtB(BMain, "end")

=============================================================================
