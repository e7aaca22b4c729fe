------------------------------ MODULE TellWait ------------------------------
(***************************************************************************)
(* TELL_WAIT, TELL_PARENT, TELL_CHILD, WAIT_PARENT and WAIT_CHILD, with    *)
(* signals (lib/tellwait.c, copied to librlt/tellwait.c) and with pipes    *)
(* (ipc1/tellwait.c), and the programs that use them: two processes that   *)
(* increment a counter in turn, or lock parts of a file in a given order.  *)
(*                                                                         *)
(* A program is a list of operations for the parent and one for the child; *)
(* each operation is an action, or two where the other process may act in  *)
(* between.  Errors of system calls end the programs and are left out.     *)
(***************************************************************************)
EXTENDS Integers, Sequences, SequencesExt, FiniteSets

CONSTANTS Rounds \* bound: turns of each process (13, or NLOOPS / 2)

P == {"parent", "child"}
Other(p) == IF p = "parent" THEN "child" ELSE "parent"
Nobody == "nobody"
None == -1

VARIABLES
    twprog, mech,  \* the program, and "signals" or "pipes"
    op,       \* [P -> operations done]
    sub,      \* [P -> where it is within an operation]
    sigflag, sigpend, sigblock, \* [P -> the flag, a pending signal, the mask]
    pfd,      \* [P -> bytes in the pipe it reads]
    store, off,    \* the counter file (or the shared memory) and its offset
    iobuf,    \* [P -> output of its stdio stream that is not written yet]
    value,    \* [P -> value]
    flock     \* [byte -> who has locked it]

twvars == <<twprog, mech, op, sub, sigflag, sigpend, sigblock, pfd, store, off, iobuf, value, flock>>
sigvars == <<sigflag, sigpend, sigblock>>
filevars == <<store, off, iobuf, value>>

Repeat(s, n) == FlattenSeq([i \in 1 .. n |-> s])

(***************************************************************************)
(* The programs.                                                           *)
(***************************************************************************)
procsync == [parent |-> Repeat(<<"incre", "tell", "wait">>, Rounds),
             child  |-> Repeat(<<"wait", "incre", "tell">>, Rounds)]
procsync_fd == [parent |-> Repeat(<<"incre", "tell", "wait">>, Rounds),
                child  |-> Repeat(<<"wait", "incre", "tell">>, Rounds)]
devzero == [parent |-> Repeat(<<"incre", "tell", "wait">>, Rounds),
            child  |-> Repeat(<<"wait", "incre", "tell">>, Rounds)]
tellwait2 == [parent |-> <<"output", "tell">>,
              child  |-> <<"wait", "output">>]
deadlock == [parent |-> <<"lock 1", "tell", "wait", "lock 0">>,
             child  |-> <<"lock 0", "tell", "wait", "lock 1">>]
mandatory == [parent |-> <<"write_lock", "tell", "waitpid">>,
              child  |-> <<"wait", "read_lock">>]

Scripts == [procsync |-> procsync, procsync_fd |-> procsync_fd, devzero |-> devzero,
            tellwait2 |-> tellwait2, deadlock |-> deadlock, mandatory |-> mandatory]

Script(p) == Append(Scripts[twprog][p], "exit")
Counting == {"procsync", "procsync_fd", "devzero"}

Ended(p) == op[p] >= Len(Script(p))
Does(p, o, s) == ~Ended(p) /\ Script(p)[op[p] + 1] = o /\ sub[p] = s
Done(p) == op' = [op EXCEPT ![p] = @ + 1] /\ sub' = [sub EXCEPT ![p] = ""]
Within(p, s) == sub' = [sub EXCEPT ![p] = s] /\ UNCHANGED op

(***************************************************************************)
(* lib/tellwait.c.                                                         *)
(***************************************************************************)
\* SIGUSR1 and SIGUSR2 are blocked before the fork.
TELL_WAIT_Variant == [p \in P |-> FALSE]

TELL_WAIT == [p \in P |-> TRUE]

\* TELL_CHILD and TELL_PARENT: kill.
Tell(p) ==
    /\ mech = "signals" /\ Does(p, "tell", "")
    /\ sigpend' = [sigpend EXCEPT ![Other(p)] = TRUE]
    /\ Done(p)
    /\ UNCHANGED <<twprog, mech, sigflag, sigblock, pfd, filevars, flock>>

\* The flag stays set.
Wait_Variant(p) ==
    /\ mech = "signals" /\ Does(p, "wait", "")
    /\ IF sigflag[p]
       THEN sigblock' = [sigblock EXCEPT ![p] = FALSE] /\ Done(p)
       ELSE Within(p, "sigsuspend") /\ UNCHANGED sigblock
    /\ UNCHANGED <<twprog, mech, sigflag, sigpend, pfd, filevars, flock>>

\* WAIT_PARENT and WAIT_CHILD: the flag is tested; if it is set it is cleared
\* and the mask from before TELL_WAIT, which blocks nothing, is restored.
Wait(p) ==
    /\ mech = "signals" /\ Does(p, "wait", "")
    /\ IF sigflag[p]
       THEN /\ sigflag' = [sigflag EXCEPT ![p] = FALSE]
            /\ sigblock' = [sigblock EXCEPT ![p] = FALSE]
            /\ Done(p)
       ELSE Within(p, "sigsuspend") /\ UNCHANGED <<sigflag, sigblock>>
    /\ UNCHANGED <<twprog, mech, sigpend, pfd, filevars, flock>>

\* sigsuspend blocks nothing, and sleeps unless a signal is pending.
sigsuspend(p) ==
    /\ Does(p, "wait", "sigsuspend")
    /\ Within(p, "asleep")
    /\ UNCHANGED <<twprog, mech, sigvars, pfd, filevars, flock>>

\* A signal that is not blocked is delivered; sigsuspend returns after it.
sig_usr(p) ==
    /\ sigpend[p] /\ (~sigblock[p] \/ sub[p] = "asleep")
    /\ sigpend' = [sigpend EXCEPT ![p] = FALSE]
    /\ sigflag' = [sigflag EXCEPT ![p] = TRUE]
    /\ sub' = IF sub[p] = "asleep" THEN [sub EXCEPT ![p] = ""] ELSE sub
    /\ UNCHANGED <<twprog, mech, op, sigblock, pfd, filevars, flock>>

(***************************************************************************)
(* ipc1/tellwait.c: one byte in a pipe for each direction.                 *)
(***************************************************************************)
PipeTell(p) ==
    /\ mech = "pipes" /\ Does(p, "tell", "")
    /\ pfd' = [pfd EXCEPT ![Other(p)] = @ + 1]
    /\ Done(p)
    /\ UNCHANGED <<twprog, mech, sigvars, filevars, flock>>

PipeWait(p) ==
    /\ mech = "pipes" /\ Does(p, "wait", "") /\ pfd[p] > 0
    /\ pfd' = [pfd EXCEPT ![p] = @ - 1]
    /\ Done(p)
    /\ UNCHANGED <<twprog, mech, sigvars, filevars, flock>>

(***************************************************************************)
(* The counter.  Both processes share the offset of the file; the buffer   *)
(* of a stream is copied by fork.                                          *)
(***************************************************************************)
\* fwrite leaves the 0 in the buffer.
init_file_Variant == [store |-> << >>, off |-> 0, iobuf |-> [p \in P |-> 0]]

\* fwrite and fflush before the fork.
init_file == [store |-> <<0>>, off |-> 1, iobuf |-> [p \in P |-> None]]

\* write at the offset: within the file or at its end.
WriteAt(s, o, v) == IF o < Len(s) THEN [s EXCEPT ![o + 1] = v] ELSE Append(s, v)

\* fseek writes what the buffer holds where the offset is, and rewinds; fread.
ReadStream(p) ==
    /\ twprog = "procsync" /\ Does(p, "incre", "")
    /\ LET s == IF iobuf[p] = None THEN store ELSE WriteAt(store, off, iobuf[p])
       IN  store' = s /\ value' = [value EXCEPT ![p] = s[1]]
    /\ off' = 1
    /\ iobuf' = [iobuf EXCEPT ![p] = None]
    /\ Within(p, "write")
    /\ UNCHANGED <<twprog, mech, sigvars, pfd, flock>>

\* fseek, fwrite of the value plus one, fflush.
incre_file(p) ==
    /\ twprog = "procsync" /\ Does(p, "incre", "write")
    /\ store' = WriteAt(store, 0, value[p] + 1)
    /\ off' = 1
    /\ Done(p)
    /\ UNCHANGED <<twprog, mech, sigvars, pfd, iobuf, value, flock>>

\* lseek and read; the counter in shared memory has no offset.
ReadFd(p) ==
    /\ twprog \in {"procsync_fd", "devzero"} /\ Does(p, "incre", "")
    /\ value' = [value EXCEPT ![p] = store[1]]
    /\ off' = 1
    /\ Within(p, "write")
    /\ UNCHANGED <<twprog, mech, sigvars, pfd, store, iobuf, flock>>

incre_file_fd(p) ==
    /\ twprog = "procsync_fd" /\ Does(p, "incre", "write")
    /\ store' = WriteAt(store, 0, value[p] + 1)
    /\ off' = 1
    /\ Done(p)
    /\ UNCHANGED <<twprog, mech, sigvars, pfd, iobuf, value, flock>>

\* The counter must be what this turn expects, or the process quits.
update(p) ==
    /\ twprog = "devzero" /\ Does(p, "incre", "write")
    /\ IF value[p] = 2 * (op[p] \div 3) + (IF p = "parent" THEN 0 ELSE 1)
       THEN store' = <<value[p] + 1>> /\ Done(p)
       ELSE op' = [op EXCEPT ![p] = Len(Script(p))] /\ UNCHANGED <<store, sub>>
    /\ UNCHANGED <<twprog, mech, sigvars, pfd, off, iobuf, value, flock>>

\* tellwait2.c: a string, here of two characters, written one at a time.
charatatime(p) ==
    /\ Does(p, "output", sub[p])
    /\ store' = Append(store, p)
    /\ IF sub[p] = "" THEN Within(p, "last") ELSE Done(p)
    /\ UNCHANGED <<twprog, mech, sigvars, pfd, off, iobuf, value, flock>>

(***************************************************************************)
(* Record locks on the two bytes of a file.                                *)
(***************************************************************************)
ByteOf(o) == IF o = "lock 0" THEN 0 ELSE 1
AtLock(p, s) == Does(p, "lock 0", s) \/ Does(p, "lock 1", s)
ByteAt(p) == ByteOf(Script(p)[op[p] + 1])

\* exit(0), or err_sys: the locks of the process go.
Quit(p) ==
    /\ op' = [op EXCEPT ![p] = Len(Script(p))]
    /\ sub' = [sub EXCEPT ![p] = ""]
    /\ flock' = [b \in DOMAIN flock |-> IF flock[b] = p THEN Nobody ELSE flock[b]]

\* external: F_SETLKW takes a free lock, sleeps while another process has it,
\* and fails with EDEADLK when that process sleeps for a lock of this one.
writew_lock(p) ==
    IF flock[ByteAt(p)] = Nobody
    THEN flock' = [flock EXCEPT ![ByteAt(p)] = p] /\ Done(p)
    ELSE IF AtLock(Other(p), "asleep") /\ flock[ByteAt(Other(p))] = p
    THEN Quit(p)
    ELSE sub[p] # "asleep" /\ Within(p, "asleep") /\ UNCHANGED flock

lockabyte(p) ==
    /\ AtLock(p, sub[p])
    /\ writew_lock(p)
    /\ UNCHANGED <<twprog, mech, sigvars, pfd, filevars>>

\* The parent locks the whole file; the child asks without waiting, and
\* quits when it gets the lock.
write_lock(p) ==
    /\ Does(p, "write_lock", "")
    /\ flock' = [b \in DOMAIN flock |-> p]
    /\ Done(p)
    /\ UNCHANGED <<twprog, mech, sigvars, pfd, filevars>>

read_lock(p) ==
    /\ Does(p, "read_lock", "")
    /\ IF \E b \in DOMAIN flock : flock[b] = Other(p)
       THEN Done(p) /\ UNCHANGED flock ELSE Quit(p)
    /\ UNCHANGED <<twprog, mech, sigvars, pfd, filevars>>

waitpid(p) ==
    /\ Does(p, "waitpid", "") /\ Ended(Other(p))
    /\ Done(p)
    /\ UNCHANGED <<twprog, mech, sigvars, pfd, filevars, flock>>

twExit(p) ==
    /\ Does(p, "exit", "")
    /\ Quit(p)
    /\ UNCHANGED <<twprog, mech, sigvars, pfd, filevars>>

(***************************************************************************)
twInitOf(progs) ==
    /\ twprog \in progs
    /\ mech = IF twprog = "devzero" THEN "pipes" ELSE "signals"
    /\ op = [p \in P |-> 0] /\ sub = [p \in P |-> ""]
    /\ sigflag = [p \in P |-> FALSE] /\ sigpend = [p \in P |-> FALSE]
    /\ sigblock = TELL_WAIT
    /\ pfd = [p \in P |-> 0]
    /\ store = (IF twprog = "procsync" THEN init_file.store
                ELSE IF twprog \in Counting THEN <<0>> ELSE << >>)
    /\ off = (IF twprog = "procsync" THEN init_file.off ELSE 1)
    /\ iobuf = IF twprog = "procsync" THEN init_file.iobuf ELSE [p \in P |-> None]
    /\ value = [p \in P |-> 0]
    /\ flock = [b \in {0, 1} |-> Nobody]

twInit == twInitOf(DOMAIN Scripts)

twStep(p) ==
    \/ Tell(p) \/ Wait(p) \/ sigsuspend(p) \/ PipeTell(p) \/ PipeWait(p)
    \/ ReadStream(p) \/ incre_file(p) \/ ReadFd(p) \/ incre_file_fd(p) \/ update(p)
    \/ charatatime(p) \/ lockabyte(p) \/ write_lock(p) \/ read_lock(p) \/ waitpid(p)
    \/ twExit(p)

twNext == \E p \in P : twStep(p) \/ sig_usr(p)

\* Both processes run, and signals are delivered.
twFair == \A p \in P : WF_twvars(twStep(p)) /\ WF_twvars(sig_usr(p))

twSpec == twInit /\ [][twNext]_twvars /\ twFair

\* The two are over, or wait for each other for ever.
twResting == ~ENABLED twNext

(***************************************************************************)
(* Properties.                                                             *)
(***************************************************************************)
twTypeOK ==
    /\ twprog \in DOMAIN Scripts /\ mech \in {"signals", "pipes"}
    /\ op \in [P -> 0 .. 3 * Rounds + 5]
    /\ sub \in [P -> {"", "sigsuspend", "asleep", "write", "last"}]
    /\ sigflag \in [P -> BOOLEAN] /\ sigpend \in [P -> BOOLEAN] /\ sigblock \in [P -> BOOLEAN]
    /\ pfd \in [P -> 0 .. Rounds]
    /\ off \in 0 .. 1 /\ iobuf \in [P -> Nat \cup {None}] /\ value \in [P -> Nat]
    /\ flock \in [{0, 1} -> P \cup {Nobody}]

\* How often a process has done an operation.
Times(p, o) == Len(SelectSeq(SubSeq(Script(p), 1, op[p]), LAMBDA x : x = o))

\* A process that comes back from WAIT_PARENT or WAIT_CHILD for the n-th time
\* has been told n times: what the other process did before its TELL has
\* happened.  (A process that quits does not count the operations it skips.)
WaitsFollowTells ==
    \A p \in P : ~Ended(p) => \/ Ended(Other(p)) \/ Times(p, "wait") <= Times(Other(p), "tell")

\* Parent and child increment in turn: the file, or the shared memory, holds
\* one integer, and it is the number of increments made by both, also when
\* the offset and the buffer of the stream were copied by fork; the child's
\* characters come after the parent's.
TurnsAlternate ==
    /\ twprog \in Counting /\ Times("parent", "incre") > 0 =>
          /\ store = <<Times("parent", "incre") + Times("child", "incre")>>
          /\ Times("parent", "incre") - Times("child", "incre") \in {0, 1}
          /\ \E p \in P : sub[p] # "write"
    /\ twprog = "tellwait2" => \A i, j \in DOMAIN store : i < j => ~(store[i] = "child" /\ store[j] = "parent")

\* The dialogue ends when each process waits at most once, or with pipes:
\* the two exit, also when they lock two bytes in opposite orders.  (With
\* signals and several rounds it need not: the first wait has restored a mask
\* that blocks nothing, so the second may test the flag, then be interrupted
\* by the handler, and then sleep in sigsuspend.)
ConversationEnds ==
    (twprog \notin {"procsync", "procsync_fd"}) ~> (\A p \in P : Ended(p))
=============================================================================
