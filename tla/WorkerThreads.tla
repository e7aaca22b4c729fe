--------------------------- MODULE WorkerThreads ---------------------------
(***************************************************************************)
(* Job queues served by worker threads: the list of threads/rwlock.c and   *)
(* the two solutions of exercise 11.3 in mytests/threads.                  *)
(*   "workerthrd"  Ex11_3_workerthrd.c: a mutex and a condition variable   *)
(*                 for each worker, a reader-writer lock for the list;     *)
(*   "herd"        Ex11_3_workerthrd_thundering_herd.c: one mutex and one  *)
(*                 condition variable in the queue;                        *)
(*   "rwlock"      rwlock.c, whose workers look for a job again and again. *)
(* The list is modelled with its pointers.  A section under the lock of    *)
(* the list is one step, because nothing else reads or writes the list     *)
(* meanwhile; worker->lock is a variable, because it is held across steps. *)
(***************************************************************************)
EXTENDS Integers, FiniteSets, Sequences

CONSTANTS POOL_SIZE, \* number of workers
          NJobs,     \* bound: jobs the main thread creates
          NIL        \* the null pointer

Worker == 0 .. (POOL_SIZE - 1)
Job == 1 .. NJobs
Main == POOL_SIZE

VARIABLES
    wprog,    \* the program that runs
    q,        \* the queue: q_head, q_tail and j_next, j_prev of every job
    wlock,    \* [Worker -> holder of worker->lock, or NIL]
    wpc,      \* [Worker -> where the worker is]
    pJob,     \* [Worker -> the job it has found]
    mpc,      \* where the main thread is
    made,     \* jobs created so far
    joined,   \* workers signalled or joined at shutdown
    graceful_stop,
    handled   \* [Job -> number of times the job was handled, by its worker]

wtvars == <<wprog, q, wlock, wpc, pJob, mpc, made, joined, graceful_stop, handled>>

\* create_jobs: pJob->j_worker = &workers[i % psize].
j_worker(i) == i % POOL_SIZE

(***************************************************************************)
(* The list.                                                               *)
(***************************************************************************)
queue_init == [head |-> NIL, tail |-> NIL,
               next |-> [j \in Job |-> NIL], prev |-> [j \in Job |-> NIL]]

job_insert(Q, j) ==
    [head |-> j,
     tail |-> IF Q.head = NIL THEN j ELSE Q.tail,
     next |-> [Q.next EXCEPT ![j] = Q.head],
     prev |-> [i \in Job |-> IF i = j THEN NIL ELSE IF i = Q.head THEN j ELSE Q.prev[i]]]

job_append(Q, j) ==
    [head |-> IF Q.tail = NIL THEN j ELSE Q.head,
     tail |-> j,
     next |-> [i \in Job |-> IF i = j THEN NIL ELSE IF i = Q.tail THEN j ELSE Q.next[i]],
     prev |-> [Q.prev EXCEPT ![j] = Q.tail]]

\* A next or prev field through a pointer; nothing where the pointer is null.
Link(f, i, v) == IF i = NIL THEN f ELSE [f EXCEPT ![i] = v]

\* Forgets to move the tail when the last job leaves a longer list.
job_remove_Variant(Q, j) ==
    IF j = Q.head
    THEN [Q EXCEPT !.head = Q.next[j],
                   !.tail = IF Q.tail = j THEN NIL ELSE Q.tail,
                   !.prev = IF Q.tail = j THEN Q.prev ELSE Link(Q.prev, Q.next[j], Q.prev[j])]
    ELSE [Q EXCEPT !.next = Link(Q.next, Q.prev[j], Q.next[j]),
                   !.prev = Link(Q.prev, Q.next[j], Q.prev[j])]

\* rwlock.c: by the place of the job, at the head, at the tail or between.
job_remove(Q, j) ==
    IF j = Q.head
    THEN [Q EXCEPT !.head = Q.next[j],
                   !.tail = IF Q.tail = j THEN NIL ELSE Q.tail,
                   !.prev = IF Q.tail = j THEN Q.prev ELSE Link(Q.prev, Q.next[j], Q.prev[j])]
    ELSE IF j = Q.tail
    THEN [Q EXCEPT !.tail = Q.prev[j], !.next = Link(Q.next, Q.prev[j], Q.next[j])]
    ELSE [Q EXCEPT !.next = Link(Q.next, Q.prev[j], Q.next[j]),
                   !.prev = Link(Q.prev, Q.next[j], Q.prev[j])]

\* Ex11_3_workerthrd.c: by the neighbours the job has.
job_remove_links(Q, j) ==
    [head |-> IF Q.prev[j] = NIL THEN Q.next[j] ELSE Q.head,
     tail |-> IF Q.next[j] = NIL THEN Q.prev[j] ELSE Q.tail,
     next |-> Link(Q.next, Q.prev[j], Q.next[j]),
     prev |-> Link(Q.prev, Q.next[j], Q.prev[j])]

\* The jobs from i on, following j_next; stops when it has seen as many as exist.
From(Q, i) ==
    LET chain[n \in 0 .. NJobs, k \in Job \cup {NIL}] ==
            IF k = NIL \/ n = 0 THEN << >> ELSE <<k>> \o chain[n - 1, Q.next[k]]
    IN  chain[NJobs, i]

\* The first job of the list that is for worker w.
job_find(Q, w) ==
    LET mine == SelectSeq(From(Q, Q.head), LAMBDA i : j_worker(i) = w)
    IN  IF mine = << >> THEN NIL ELSE mine[1]

At(w, pc) == wpc[w] = pc
Goto(w, pc) == wpc' = [wpc EXCEPT ![w] = pc]

(***************************************************************************)
(* create_jobs: an odd job goes to the head, an even one to the tail.      *)
(***************************************************************************)
Put(i) == IF i % 2 = 0 THEN job_append(q, i) ELSE job_insert(q, i)

\* The job is in the list; the worker is signalled after the lock is released.
AddJob ==
    /\ wprog = "workerthrd" /\ mpc = "create" /\ made < NJobs
    /\ q' = Put(made + 1)
    /\ made' = made + 1
    /\ mpc' = "signal"
    /\ UNCHANGED <<wprog, wlock, wpc, pJob, joined, graceful_stop, handled>>

\* pthread_cond_signal: one who waits is woken; without one it has no effect.
CondSignal(w) == wpc' = IF At(w, "asleep") THEN [wpc EXCEPT ![w] = "woken"] ELSE wpc

SignalWorker ==
    /\ mpc = "signal"
    /\ CondSignal(j_worker(made))
    /\ mpc' = "create"
    /\ UNCHANGED <<wprog, q, wlock, pJob, made, joined, graceful_stop, handled>>

\* The broadcast is inside the lock of the queue.
HerdAdd_Variant ==
    /\ wprog = "herd" /\ mpc = "create" /\ made < NJobs
    /\ q' = Put(made + 1)
    /\ made' = made + 1
    /\ \E w \in Worker : CondSignal(w)
    /\ UNCHANGED <<wprog, wlock, pJob, mpc, joined, graceful_stop, handled>>

HerdAdd ==
    /\ wprog = "herd" /\ mpc = "create" /\ made < NJobs
    /\ q' = Put(made + 1)
    /\ made' = made + 1
    /\ wpc' = [w \in Worker |-> IF At(w, "asleep") THEN "woken" ELSE wpc[w]]
    /\ UNCHANGED <<wprog, wlock, pJob, mpc, joined, graceful_stop, handled>>

\* rwlock.c has no main program: jobs go to either end.
RwAdd ==
    /\ wprog = "rwlock" /\ made < NJobs
    /\ q' \in {job_insert(q, made + 1), job_append(q, made + 1)}
    /\ made' = made + 1
    /\ UNCHANGED <<wprog, wlock, wpc, pJob, mpc, joined, graceful_stop, handled>>

(***************************************************************************)
(* Ex11_3_workerthrd.c: worker_func and job_fetch_atomic.                  *)
(***************************************************************************)
WorkerTop(w) ==
    /\ wprog = "workerthrd" /\ At(w, "top")
    /\ Goto(w, IF graceful_stop THEN "exited" ELSE "lock")
    /\ UNCHANGED <<wprog, q, wlock, pJob, mpc, made, joined, graceful_stop, handled>>

WorkerLock(w) ==
    /\ At(w, "lock") /\ wlock[w] = NIL
    /\ wlock' = [wlock EXCEPT ![w] = w]
    /\ Goto(w, "find")
    /\ UNCHANGED <<wprog, q, pJob, mpc, made, joined, graceful_stop, handled>>

WorkerFind(w) ==
    /\ At(w, "find")
    /\ pJob' = [pJob EXCEPT ![w] = job_find(q, w)]
    /\ Goto(w, IF job_find(q, w) = NIL THEN "wait" ELSE "remove")
    /\ UNCHANGED <<wprog, q, wlock, mpc, made, joined, graceful_stop, handled>>

\* pthread_cond_wait releases the mutex and sleeps in one step.
WorkerWait(w) ==
    /\ At(w, "wait")
    /\ wlock' = [wlock EXCEPT ![w] = NIL]
    /\ Goto(w, "asleep")
    /\ UNCHANGED <<wprog, q, pJob, mpc, made, joined, graceful_stop, handled>>

\* A wakeup nobody asked for, which pthread_cond_wait may have.
Spurious(w) ==
    /\ At(w, "asleep")
    /\ Goto(w, "woken")
    /\ UNCHANGED <<wprog, q, wlock, pJob, mpc, made, joined, graceful_stop, handled>>

\* pthread_cond_wait returns with the mutex; graceful_stop ends the loop.
WorkerWoken(w) ==
    /\ wprog = "workerthrd" /\ At(w, "woken") /\ wlock[w] = NIL
    /\ \/ graceful_stop /\ Goto(w, "top") /\ UNCHANGED wlock
       \/ ~graceful_stop /\ Goto(w, "find") /\ wlock' = [wlock EXCEPT ![w] = w]
    /\ UNCHANGED <<wprog, q, pJob, mpc, made, joined, graceful_stop, handled>>

WorkerRemove(w) ==
    /\ wprog = "workerthrd" /\ At(w, "remove")
    /\ q' = job_remove_links(q, pJob[w])
    /\ wlock' = [wlock EXCEPT ![w] = NIL]
    /\ Goto(w, "handle")
    /\ UNCHANGED <<wprog, pJob, mpc, made, joined, graceful_stop, handled>>

\* The job is printed and freed.
Handle(w) ==
    /\ At(w, "handle")
    /\ handled' = [handled EXCEPT ![pJob[w]] = @ + 1]
    /\ pJob' = [pJob EXCEPT ![w] = NIL]
    /\ Goto(w, "top")
    /\ UNCHANGED <<wprog, q, wlock, mpc, made, joined, graceful_stop>>

(***************************************************************************)
(* Ex11_3_workerthrd_thundering_herd.c: under the mutex of the queue, a    *)
(* worker either waits or takes its job.                                   *)
(***************************************************************************)
HerdFetch(w) ==
    /\ wprog = "herd" /\ wpc[w] \in {"top", "woken"}
    /\ pJob' = [pJob EXCEPT ![w] = job_find(q, w)]
    /\ IF pJob'[w] = NIL
       THEN Goto(w, "asleep") /\ UNCHANGED q
       ELSE Goto(w, "handle") /\ q' = job_remove(q, pJob'[w])
    /\ UNCHANGED <<wprog, wlock, mpc, made, joined, graceful_stop, handled>>

\* rwlock.c: a worker finds a job under the read lock and removes it later.
RwFind(w) ==
    /\ wprog = "rwlock" /\ At(w, "top") /\ job_find(q, w) # NIL
    /\ pJob' = [pJob EXCEPT ![w] = job_find(q, w)]
    /\ Goto(w, "remove")
    /\ UNCHANGED <<wprog, q, wlock, mpc, made, joined, graceful_stop, handled>>

RwRemove(w) ==
    /\ wprog = "rwlock" /\ At(w, "remove")
    /\ q' = job_remove(q, pJob[w])
    /\ Goto(w, "handle")
    /\ UNCHANGED <<wprog, wlock, pJob, mpc, made, joined, graceful_stop, handled>>

(***************************************************************************)
(* The end of main: pause() returns once handle_sigint has run.  A SIGINT  *)
(* that comes earlier sets the flag, and pause() waits for another one.    *)
(***************************************************************************)
handle_sigint ==
    /\ wprog = "workerthrd"
    /\ graceful_stop' = TRUE
    /\ mpc' = IF mpc = "pause" THEN "wake" ELSE mpc
    /\ UNCHANGED <<wprog, q, wlock, wpc, pJob, made, joined, handled>>

Pause ==
    /\ wprog # "rwlock" /\ mpc = "create" /\ made = NJobs
    /\ mpc' = "pause"
    /\ UNCHANGED <<wprog, q, wlock, wpc, pJob, made, joined, graceful_stop, handled>>

\* Locks worker->lock, signals and unlocks, worker by worker.
WakeWorker ==
    /\ mpc = "wake" /\ wlock[joined] = NIL
    /\ CondSignal(joined)
    /\ joined' = (joined + 1) % POOL_SIZE
    /\ mpc' = IF joined' = 0 THEN "join" ELSE "wake"
    /\ UNCHANGED <<wprog, q, wlock, pJob, made, graceful_stop, handled>>

JoinWorker ==
    /\ mpc = "join" /\ At(joined, "exited")
    /\ joined' = (joined + 1) % POOL_SIZE
    /\ mpc' = IF joined' = 0 THEN "clean" ELSE "join"
    /\ UNCHANGED <<wprog, q, wlock, wpc, pJob, made, graceful_stop, handled>>

\* The jobs nobody has taken are removed from the head on and freed.
CleanUp ==
    /\ mpc = "clean"
    /\ IF q.head # NIL
       THEN q' = job_remove_links(q, q.head) /\ UNCHANGED mpc
       ELSE mpc' = "end" /\ UNCHANGED q
    /\ UNCHANGED <<wprog, wlock, wpc, pJob, made, joined, graceful_stop, handled>>

MainStep == AddJob \/ SignalWorker \/ HerdAdd \/ RwAdd \/ Pause \/ WakeWorker \/ JoinWorker \/ CleanUp

WorkerStep(w) ==
    \/ WorkerTop(w) \/ WorkerLock(w) \/ WorkerFind(w) \/ WorkerWait(w) \/ WorkerWoken(w)
    \/ WorkerRemove(w) \/ Handle(w) \/ HerdFetch(w) \/ RwFind(w) \/ RwRemove(w)

wtInit ==
    /\ wprog \in {"workerthrd", "herd", "rwlock"}
    /\ q = queue_init
    /\ wlock = [w \in Worker |-> NIL]
    /\ wpc = [w \in Worker |-> "top"]
    /\ pJob = [w \in Worker |-> NIL]
    /\ mpc = "create"
    /\ made = 0
    /\ joined = 0
    /\ graceful_stop = FALSE
    /\ handled = [j \in Job |-> 0]

wtNext == MainStep \/ handle_sigint \/ \E w \in Worker : WorkerStep(w) \/ Spurious(w)

\* Every thread runs; nothing is owed by the one who types the interrupt, nor
\* by spurious wakeups.
wtFair == WF_wtvars(MainStep) /\ \A w \in Worker : WF_wtvars(WorkerStep(w))

wtSpec == wtInit /\ [][wtNext]_wtvars /\ wtFair

\* Where the program has nothing left to do but to wait for SIGINT or for jobs.
wtResting ==
    \/ mpc = "end"
    \/ wprog = "herd" /\ mpc = "pause" /\ \A w \in Worker : At(w, "asleep")
    \/ wprog = "rwlock" /\ made = NJobs /\ q.head = NIL /\ \A w \in Worker : At(w, "top")

wtTypeOK ==
    /\ q \in [head : Job \cup {NIL}, tail : Job \cup {NIL},
              next : [Job -> Job \cup {NIL}], prev : [Job -> Job \cup {NIL}]]
    /\ wlock \in [Worker -> Worker \cup {NIL}]
    /\ wpc \in [Worker -> {"top", "lock", "find", "wait", "asleep", "woken", "remove", "handle", "exited"}]
    /\ pJob \in [Worker -> Job \cup {NIL}]
    /\ mpc \in {"create", "signal", "pause", "wake", "join", "clean", "end"}
    /\ made \in 0 .. NJobs /\ joined \in Worker /\ graceful_stop \in BOOLEAN
    /\ handled \in [Job -> 0 .. 1]

(***************************************************************************)
(* Every job that was created is either in the list or with its worker, or *)
(* has been handled or freed, and only once; both chains of pointers, from *)
(* the head by j_next and from the tail by j_prev, visit the same jobs:    *)
(* job_insert, job_append and both versions of job_remove, in any order.   *)
(***************************************************************************)
JobsAccountedFor ==
    LET list == From(q, q.head)
        held == {pJob[w] : w \in {v \in Worker : At(v, "handle")}}
        queued == {list[k] : k \in DOMAIN list}
    IN  /\ Cardinality(queued) = Len(list)
        /\ \A k \in 1 .. (Len(list) - 1) : q.prev[list[k + 1]] = list[k]
        /\ IF list = << >> THEN q.tail = NIL
           ELSE q.tail = list[Len(list)] /\ q.prev[list[1]] = NIL
        /\ mpc \notin {"clean", "end"} =>
              \A j \in 1 .. made : (IF j \in queued THEN 1 ELSE 0)
                                   + (IF j \in held THEN 1 ELSE 0) + handled[j] = 1
        /\ \A w \in Worker : pJob[w] # NIL =>
              j_worker(pJob[w]) = w /\ (At(w, "remove") => pJob[w] \in queued)

(***************************************************************************)
(* With one mutex and a broadcast under it, every job is handled in the    *)
(* end: no worker sleeps through the arrival of its job.                   *)
(***************************************************************************)
HerdServesAll == \A j \in Job : (wprog = "herd" /\ made >= j) ~> (handled[j] = 1)

(***************************************************************************)
(* What the note at the head of Ex11_3_workerthrd.c says the mutex is for: *)
(* no worker misses the wakeup for a job, so every job is handled unless   *)
(* the program is told to stop.                                            *)
(***************************************************************************)
WorkersServeAll ==
    \A j \in Job : (wprog = "workerthrd" /\ made >= j) ~> (handled[j] = 1 \/ graceful_stop)

=============================================================================
