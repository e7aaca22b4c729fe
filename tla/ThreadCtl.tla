----------------------------- MODULE ThreadCtl -----------------------------
(***************************************************************************)
(* Small programs about threads that share a lock, a condition or a        *)
(* buffer:                                                                 *)
(*   "timeout"  threadctl/timeout.c with makethread of detach.c: a         *)
(*              function to be called at a given time, by a detached       *)
(*              thread or at once, under a recursive mutex;                *)
(*   "suspend"  threadctl/suspend.c: a thread that waits for signals tells *)
(*              main about SIGQUIT;                                        *)
(*   "condvar"  threads/condvar.c: messages between threads;               *)
(*   "getenv1", "getenv2", "getenv3"  threadctl/getenv1.c to getenv3.c.    *)
(***************************************************************************)
EXTENDS Integers, Sequences, FiniteSets

CONSTANTS SECTONSEC, \* "nanoseconds" of a "second" on the clock of the model
          WaitSecs,  \* seconds main adds to the time (10 in the code)
          MaxClock,  \* bound: the clock stops here
          NMsgs,     \* bound: messages put into the queue
          Caller,    \* threads that call getenv or process_msg
          Name       \* variables of the environment

ASSUME CtlAssumption ==
    /\ SECTONSEC \in Nat \ {0} /\ WaitSecs \in Nat
    /\ {"main", "thr"} \cap Caller = {}

NoOne == "nobody"
NoName == "no name"

VARIABLES
    tprog,     \* the program that runs
    tpc,       \* [{"main", "thr"} \cup Caller -> where the thread is]
    owner, depth, \* the mutex: who holds it and how often (recursive)
    clock,     \* the time, in nanoseconds of the model
    when, to_wait, \* timeout.c: the time of the retry and the time to sleep
    sigpend,   \* suspend.c: pending signals
    quitflag,
    workq, sent, processed, \* condvar.c: queue (head first), messages so far
    envbuf,    \* getenv: [buffer -> the name whose value it holds]
    wanted      \* getenv: [Caller -> the name of the last call]

ctlvars == <<tprog, tpc, owner, depth, clock, when, to_wait, sigpend, quitflag,
             workq, sent, processed, envbuf, wanted>>
timevars == <<clock, when, to_wait>>
quitvars == <<sigpend, quitflag>>
msgvars == <<workq, sent, processed>>
envvars == <<envbuf, wanted>>
mutexvars == <<owner, depth>>

AtT(t, pc) == tpc[t] = pc
GoT(t, pc) == tpc' = [tpc EXCEPT ![t] = pc]
\* pthread_mutex_lock and unlock of a recursive mutex.
Lock(t) == owner \in {NoOne, t} /\ owner' = t /\ depth' = depth + 1
Unlock(t) == owner = t /\ depth' = depth - 1 /\ owner' = IF depth = 1 THEN NoOne ELSE t

(***************************************************************************)
(* timeout.c.  A time is a number; struct timespec is its quotient and its *)
(* remainder.                                                              *)
(***************************************************************************)
Timespec(t) == [sec |-> t \div SECTONSEC, nsec |-> t % SECTONSEC]
Later(a, b) == a.sec > b.sec \/ (a.sec = b.sec /\ a.nsec > b.nsec)

\* Subtracts the nanoseconds without a borrow.
ToWait_Variant(w, n) == [sec |-> w.sec - n.sec, nsec |-> w.nsec - n.nsec]

\* to_wait = when - now, with a borrow where the nanoseconds ask for it.
ToWait(w, n) ==
    IF w.nsec >= n.nsec
    THEN [sec |-> w.sec - n.sec, nsec |-> w.nsec - n.nsec]
    ELSE [sec |-> w.sec - n.sec - 1, nsec |-> SECTONSEC - n.nsec + w.nsec]

\* clock_nanosleep sleeps that long, and not at all if tv_nsec is out of range.
Sleeps(w) == IF w.nsec \in 0 .. (SECTONSEC - 1) THEN (w.sec * SECTONSEC) + w.nsec ELSE 0

Tick ==
    /\ tprog = "timeout" /\ clock < MaxClock
    /\ clock' = clock + 1
    /\ UNCHANGED <<tprog, tpc, mutexvars, when, to_wait, quitvars, msgvars, envvars>>

\* main locks; condition is not initialized, and may be true or false.
CheckCondition ==
    /\ tprog = "timeout" /\ AtT("main", "start") /\ Lock("main")
    /\ \/ GoT("main", "unlock") /\ UNCHANGED when
       \/ GoT("main", "timeout") /\ when' = Timespec(clock + (WaitSecs * SECTONSEC))
    /\ UNCHANGED <<tprog, clock, to_wait, quitvars, msgvars, envvars>>

\* The time has not come, malloc succeeds and so does makethread.
timeout ==
    /\ AtT("main", "timeout") /\ Later(when, Timespec(clock))
    /\ to_wait' = clock + Sleeps(ToWait(when, Timespec(clock)))
    /\ tpc' = [tpc EXCEPT !["main"] = "unlock", !["thr"] = "sleep"]
    /\ UNCHANGED <<tprog, mutexvars, clock, when, quitvars, msgvars, envvars>>

\* It has come, or malloc or makethread fails: the function is called now.
timeout_now ==
    /\ AtT("main", "timeout")
    /\ GoT("main", "retry")
    /\ UNCHANGED <<tprog, mutexvars, timevars, quitvars, msgvars, envvars>>

timeout_helper ==
    /\ AtT("thr", "sleep") /\ clock >= to_wait
    /\ GoT("thr", "retry")
    /\ UNCHANGED <<tprog, mutexvars, timevars, quitvars, msgvars, envvars>>

\* retry, in the helper or in main, which holds the mutex already.
retry(t) ==
    /\ AtT(t, "retry") /\ Lock(t)
    /\ GoT(t, "retrying")
    /\ UNCHANGED <<tprog, timevars, quitvars, msgvars, envvars>>

RetryDone(t) ==
    /\ AtT(t, "retrying") /\ Unlock(t)
    /\ GoT(t, IF t = "main" THEN "unlock" ELSE "end")
    /\ UNCHANGED <<tprog, timevars, quitvars, msgvars, envvars>>

MainUnlock ==
    /\ AtT("main", "unlock") /\ Unlock("main")
    /\ GoT("main", "unlocked")
    /\ UNCHANGED <<tprog, timevars, quitvars, msgvars, envvars>>

\* exit(0) ends the helper wherever it is.
MainExit ==
    /\ AtT("main", "unlocked")
    /\ tpc' = [tpc EXCEPT !["main"] = "end", !["thr"] = "end"]
    /\ owner' = NoOne /\ depth' = 0
    /\ UNCHANGED <<tprog, timevars, quitvars, msgvars, envvars>>

(***************************************************************************)
(* suspend.c.  SIGINT and SIGQUIT are blocked in both threads; thr_fn      *)
(* takes one with sigwait.                                                 *)
(***************************************************************************)
Raise(s) ==
    /\ tprog = "suspend" /\ tpc["main"] \notin {"end", "killed"} /\ s \notin sigpend
    /\ sigpend' = sigpend \cup {s}
    /\ UNCHANGED <<tprog, tpc, mutexvars, timevars, quitflag, msgvars, envvars>>

\* SIGINT prints a line; SIGQUIT sets the flag under the mutex.
SigWait ==
    /\ tprog = "suspend" /\ AtT("thr", "start") /\ owner = NoOne
    /\ \E s \in sigpend :
          /\ sigpend' = sigpend \ {s}
          /\ IF s = "SIGQUIT" THEN GoT("thr", "signal") /\ quitflag' = TRUE
             ELSE UNCHANGED <<tpc, quitflag>>
    /\ UNCHANGED <<tprog, mutexvars, timevars, msgvars, envvars>>

SignalMain ==
    /\ AtT("thr", "signal")
    /\ tpc' = [tpc EXCEPT !["thr"] = "end", !["main"] = IF @ = "asleep" THEN "woken" ELSE @]
    /\ UNCHANGED <<tprog, mutexvars, timevars, quitvars, msgvars, envvars>>

\* main under the mutex: while (quitflag == 0) pthread_cond_wait.
WaitQuit ==
    /\ tprog = "suspend" /\ tpc["main"] \in {"start", "woken"}
    /\ GoT("main", IF quitflag THEN "reset" ELSE "asleep")
    /\ UNCHANGED <<tprog, mutexvars, timevars, quitvars, msgvars, envvars>>

SpuriousT(t) ==
    /\ AtT(t, "asleep")
    /\ GoT(t, "woken")
    /\ UNCHANGED <<tprog, mutexvars, timevars, quitvars, msgvars, envvars>>

\* quitflag = 0; the old mask is restored and a pending signal kills; exit.
ResetMask ==
    /\ AtT("main", "reset")
    /\ quitflag' = FALSE
    /\ tpc' = [tpc EXCEPT !["main"] = IF sigpend = {} THEN "end" ELSE "killed", !["thr"] = "end"]
    /\ UNCHANGED <<tprog, mutexvars, timevars, sigpend, msgvars, envvars>>

(***************************************************************************)
(* condvar.c: the queue is a stack; the signal comes after the unlock.     *)
(***************************************************************************)
enqueue_msg_Variant ==
    /\ tprog = "condvar" /\ AtT("main", "start") /\ sent < NMsgs
    /\ workq' = <<sent + 1>> \o workq
    /\ sent' = sent + 1
    /\ UNCHANGED <<tprog, tpc, mutexvars, timevars, quitvars, processed, envvars>>

enqueue_msg ==
    /\ tprog = "condvar" /\ AtT("main", "start") /\ sent < NMsgs
    /\ workq' = <<sent + 1>> \o workq
    /\ sent' = sent + 1
    /\ GoT("main", "signal")
    /\ UNCHANGED <<tprog, mutexvars, timevars, quitvars, processed, envvars>>

\* pthread_cond_signal wakes one of those who wait.
EnqueueSignal ==
    /\ tprog = "condvar" /\ AtT("main", "signal")
    /\ LET asleep == {c \in Caller : AtT(c, "asleep")}
           start == [tpc EXCEPT !["main"] = "start"]
       IN  tpc' \in IF asleep = {} THEN {start}
                    ELSE {[start EXCEPT ![c] = "woken"] : c \in asleep}
    /\ UNCHANGED <<tprog, mutexvars, timevars, quitvars, msgvars, envvars>>

\* Under qlock: waits while the queue is empty, or takes the first message.
process_msg(c) ==
    /\ tprog = "condvar" /\ tpc[c] \in {"start", "woken"}
    /\ IF workq = << >>
       THEN GoT(c, "asleep") /\ UNCHANGED <<workq, processed>>
       ELSE /\ processed' = processed \cup {Head(workq)}
            /\ workq' = Tail(workq)
            /\ GoT(c, "start")
    /\ UNCHANGED <<tprog, mutexvars, timevars, quitvars, sent, envvars>>

(***************************************************************************)
(* getenv: a call leaves the value in a buffer and the caller uses it      *)
(* later.  The buffers are the caller's own (getenv_r), one per thread     *)
(* (pthread_getspecific) or one for all ("shared").                        *)
(***************************************************************************)
BufferOf_Variant(c) == IF tprog = "getenv2" THEN c ELSE "shared"

BufferOf(c) == IF tprog = "getenv1" THEN "shared" ELSE c

\* getenv_r copies the value under env_mutex into the buffer it is given, if
\* the value fits.
getenv_r(c) ==
    /\ tprog = "getenv2" /\ AtT(c, "start")
    /\ \E n \in Name :
          \/ wanted' = [wanted EXCEPT ![c] = n] /\ envbuf' = [envbuf EXCEPT ![BufferOf(c)] = n]
          \/ wanted' = [wanted EXCEPT ![c] = NoName] /\ UNCHANGED envbuf
    /\ GoT(c, "use")
    /\ UNCHANGED <<tprog, mutexvars, timevars, quitvars, msgvars>>

\* getenv3.c copies into the buffer of the thread, allocated at its first call
\* (without memory the result is a null pointer); getenv1.c has no lock.
getenv(c) ==
    /\ tprog \in {"getenv1", "getenv3"} /\ AtT(c, "start")
    /\ \E n \in Name :
          \/ wanted' = [wanted EXCEPT ![c] = n] /\ envbuf' = [envbuf EXCEPT ![BufferOf(c)] = n]
          \/ tprog = "getenv3" /\ wanted' = [wanted EXCEPT ![c] = NoName] /\ UNCHANGED envbuf
    /\ GoT(c, "use")
    /\ UNCHANGED <<tprog, mutexvars, timevars, quitvars, msgvars>>

UseValue(c) ==
    /\ AtT(c, "use")
    /\ GoT(c, "start")
    /\ UNCHANGED <<tprog, mutexvars, timevars, quitvars, msgvars, envvars>>

ctlInit ==
    /\ tprog \in {"timeout", "suspend", "condvar", "getenv1", "getenv2", "getenv3"}
    /\ tpc = [t \in {"main", "thr"} \cup Caller |-> "start"]
    /\ owner = NoOne /\ depth = 0
    /\ clock = 0 /\ when = Timespec(0) /\ to_wait = 0
    /\ sigpend = {} /\ quitflag = FALSE
    /\ workq = << >> /\ sent = 0 /\ processed = {}
    /\ envbuf = [b \in Caller \cup {"shared"} |-> NoName]
    /\ wanted = [c \in Caller |-> NoName]

MainT == CheckCondition \/ timeout \/ timeout_now \/ MainUnlock \/ MainExit \/ retry("main")
         \/ RetryDone("main") \/ WaitQuit \/ ResetMask \/ EnqueueSignal
ThrT == timeout_helper \/ retry("thr") \/ RetryDone("thr") \/ SigWait \/ SignalMain
CallerT(c) == process_msg(c) \/ getenv_r(c) \/ getenv(c) \/ UseValue(c)

ctlNext ==
    \/ Tick \/ MainT \/ ThrT \/ enqueue_msg
    \/ \E s \in {"SIGINT", "SIGQUIT"} : Raise(s)
    \/ \E c \in Caller : CallerT(c)
    \/ \E t \in {"main"} \cup Caller : SpuriousT(t)

\* Every thread runs; nobody has to send a signal or a message.
ctlFair == WF_ctlvars(MainT) /\ WF_ctlvars(ThrT) /\ \A c \in Caller : WF_ctlvars(CallerT(c))
ctlSpec == ctlInit /\ [][ctlNext]_ctlvars /\ ctlFair

\* Where a program has ended or waits for what nobody has to send.
ctlResting ==
    \/ tpc["main"] \in {"end", "killed"}
    \/ tprog = "condvar" /\ sent = NMsgs /\ processed = 1 .. NMsgs /\ AtT("main", "start")

ctlTypeOK ==
    /\ DOMAIN tpc = {"main", "thr"} \cup Caller
    /\ owner \in {NoOne, "main", "thr"} /\ depth \in 0 .. 2 /\ (owner = NoOne) = (depth = 0)
    /\ clock \in 0 .. MaxClock /\ to_wait \in 0 .. (MaxClock + (WaitSecs * SECTONSEC))
    /\ sigpend \subseteq {"SIGINT", "SIGQUIT"} /\ quitflag \in BOOLEAN
    /\ sent \in 0 .. NMsgs /\ processed \subseteq 1 .. NMsgs
    /\ envbuf \in [Caller \cup {"shared"} -> Name \cup {NoName}]
    /\ wanted \in [Caller -> Name \cup {NoName}]

(***************************************************************************)
(* The helper thread calls retry at the time main asked for and not        *)
(* before, and it never runs while main is between its check and the end   *)
(* of its call of timeout: "make the check and the call to timeout         *)
(* atomic".                                                                *)
(***************************************************************************)
RetryIsTimely ==
    /\ tpc["thr"] \in {"retry", "retrying"} => ~Later(when, Timespec(clock))
    /\ AtT("thr", "retrying") => tpc["main"] \notin {"timeout", "retry", "retrying", "unlock"}

(***************************************************************************)
(* No wakeup is lost although both programs signal after they have         *)
(* released the mutex: once thr_fn has taken SIGQUIT, main comes to its    *)
(* end, and every message that is enqueued is processed.                   *)
(***************************************************************************)
WakeupsArrive ==
    /\ (tprog = "suspend" /\ AtT("thr", "signal")) ~> (tpc["main"] \in {"end", "killed"})
    /\ \A m \in 1 .. NMsgs : (sent >= m) ~> (m \in processed)

(***************************************************************************)
(* With getenv2.c and getenv3.c, a thread that uses the result of its call *)
(* reads the value of the variable it asked for, whatever others ask for   *)
(* in between; getenv1.c does not promise it.                              *)
(***************************************************************************)
EnvironmentIsOwn ==
    \A c \in Caller : tprog \in {"getenv2", "getenv3"} /\ AtT(c, "use") /\ wanted[c] # NoName
                      => envbuf[BufferOf(c)] = wanted[c]

=============================================================================
