------------------------------ MODULE Daemons ------------------------------
(***************************************************************************)
(* Daemons: daemonize (daemons/init.c, the same as lib/daemonize.c),       *)
(* already_running (daemons/single.c) with lockfile (advio/lockfile.c),    *)
(* and the two daemons that reread their configuration: reread.c, with a   *)
(* thread in sigwait, and reread2.c, with handlers.  Copies of the daemon  *)
(* are started at any time, run into each other at the lock file, exit,    *)
(* are killed and started again.  Each system call is a step.              *)
(***************************************************************************)
EXTENDS Integers, Sequences

CONSTANTS
    Copy,       \* copies of the daemon
    MaxStarts   \* bound: starts of the daemon

VARIABLES
    dmprog,     \* "reread" or "reread2"
    done,       \* [Copy -> calls made], Off when it does not run
    gen,        \* [Copy -> number of its current process]
    starts,     \* starts so far
    leader, ctty, dfds, \* [Copy -> leads its session, has a terminal, descriptors]
    hup, term,  \* [Copy -> dispositions]
    blocked,    \* [Copy -> the signals are blocked]
    dpend,      \* [Copy -> pending signals]
    locker,     \* process that has locked LOCKFILE
    pidfile     \* process LOCKFILE names

dmvars == <<dmprog, done, gen, starts, leader, ctty, dfds, hup, term, blocked, dpend, locker, pidfile>>
session == <<leader, ctty, dfds>>
signals == <<hup, term, blocked, dpend>>

Off == -1
NoProc == <<"none", 0>>
Self(d) == <<d, gen[d]>>

(***************************************************************************)
(* The calls of the programs, in order.                                    *)
(***************************************************************************)
daemonize == <<"fork", "setsid", "ignore HUP", "fork", "chdir", "close all", "attach">>
already_running == <<"open", "lockfile", "ftruncate", "write">>

reread_main_Variant ==
    already_running \o daemonize \o <<"default HUP", "block all", "create thread">>

reread_main ==
    daemonize \o already_running \o <<"default HUP", "block all", "create thread">>

reread2_main == daemonize \o already_running \o <<"catch TERM", "catch HUP">>

Main == IF dmprog = "reread" THEN reread_main ELSE reread2_main

Calls(d, c) == done[d] \in 0 .. Len(Main) - 1 /\ Main[done[d] + 1] = c
Called(d) == done' = [done EXCEPT ![d] = @ + 1]
Serving(d) == done[d] = Len(Main)

dmInitOf(progs) ==
    /\ dmprog \in progs
    /\ done = [d \in Copy |-> Off] /\ gen = [d \in Copy |-> 0] /\ starts = 0
    /\ leader = [d \in Copy |-> FALSE] /\ ctty = [d \in Copy |-> TRUE]
    /\ dfds = [d \in Copy |-> "inherited"]
    /\ hup = [d \in Copy |-> "DFL"] /\ term = [d \in Copy |-> "DFL"]
    /\ blocked = [d \in Copy |-> FALSE] /\ dpend = [d \in Copy |-> {}]
    /\ locker = NoProc /\ pidfile = NoProc

dmInit == dmInitOf({"reread", "reread2"})

\* A shell runs the program.
Start(d) ==
    /\ done[d] = Off /\ starts < MaxStarts
    /\ starts' = starts + 1 /\ gen' = [gen EXCEPT ![d] = @ + 1]
    /\ done' = [done EXCEPT ![d] = 0]
    /\ leader' = [leader EXCEPT ![d] = FALSE] /\ ctty' = [ctty EXCEPT ![d] = TRUE]
    /\ dfds' = [dfds EXCEPT ![d] = "inherited"]
    /\ hup' = [hup EXCEPT ![d] = "DFL"] /\ term' = [term EXCEPT ![d] = "DFL"]
    /\ blocked' = [blocked EXCEPT ![d] = FALSE] /\ dpend' = [dpend EXCEPT ![d] = {}]
    /\ UNCHANGED <<dmprog, locker, pidfile>>

\* external: the locks of a process go when it ends.
Unlocked(p) == locker' = IF locker = p THEN NoProc ELSE locker

dmEnds(d) ==
    /\ done' = [done EXCEPT ![d] = Off]
    /\ Unlocked(Self(d))
    /\ UNCHANGED <<dmprog, gen, starts, session, signals, pidfile>>

(***************************************************************************)
(* daemonize.                                                              *)
(***************************************************************************)
\* fork: the child, which has no lock, goes on and the parent exits.
Forks(d) ==
    /\ Calls(d, "fork")
    /\ gen' = [gen EXCEPT ![d] = @ + 1] /\ leader' = [leader EXCEPT ![d] = FALSE]
    /\ Unlocked(Self(d)) /\ Called(d)
    /\ UNCHANGED <<dmprog, starts, ctty, dfds, signals, pidfile>>

ForkFails(d) == Calls(d, "fork") /\ dmEnds(d)

SetSid(d) ==
    /\ Calls(d, "setsid")
    /\ leader' = [leader EXCEPT ![d] = TRUE] /\ ctty' = [ctty EXCEPT ![d] = FALSE]
    /\ Called(d)
    /\ UNCHANGED <<dmprog, gen, starts, dfds, signals, locker, pidfile>>

IgnoreHup(d) ==
    /\ Calls(d, "ignore HUP")
    /\ hup' = [hup EXCEPT ![d] = "IGN"] /\ dpend' = [dpend EXCEPT ![d] = @ \ {"HUP"}]
    /\ Called(d)
    /\ UNCHANGED <<dmprog, gen, starts, session, term, blocked, locker, pidfile>>

ChangeDir(d) ==
    /\ Calls(d, "chdir") /\ Called(d)
    /\ UNCHANGED <<dmprog, gen, starts, session, signals, locker, pidfile>>

\* Closing the descriptors gives up the locks as well.
CloseAll(d) ==
    /\ Calls(d, "close all")
    /\ dfds' = [dfds EXCEPT ![d] = "closed"]
    /\ Unlocked(Self(d)) /\ Called(d)
    /\ UNCHANGED <<dmprog, gen, starts, leader, ctty, signals, pidfile>>

Attach(d) ==
    /\ Calls(d, "attach")
    /\ dfds' = [dfds EXCEPT ![d] = "/dev/null"]
    /\ Called(d)
    /\ UNCHANGED <<dmprog, gen, starts, leader, ctty, signals, locker, pidfile>>

(***************************************************************************)
(* already_running.                                                        *)
(***************************************************************************)
OpenLockfile(d) ==
    /\ Calls(d, "open") /\ Called(d)
    /\ UNCHANGED <<dmprog, gen, starts, session, signals, locker, pidfile>>

\* F_SETLK: when another process has the lock the program exits.
lockfile(d) ==
    /\ Calls(d, "lockfile")
    /\ IF locker = NoProc
       THEN /\ locker' = Self(d) /\ Called(d)
            /\ UNCHANGED <<dmprog, gen, starts, session, signals, pidfile>>
       ELSE dmEnds(d)

Truncate(d) ==
    /\ Calls(d, "ftruncate")
    /\ pidfile' = NoProc /\ Called(d)
    /\ UNCHANGED <<dmprog, gen, starts, session, signals, locker>>

WritePid(d) ==
    /\ Calls(d, "write")
    /\ pidfile' = Self(d) /\ Called(d)
    /\ UNCHANGED <<dmprog, gen, starts, session, signals, locker>>

(***************************************************************************)
(* Signals.  reread.c blocks them all and takes them in a thread; until    *)
(* then SIGHUP is ignored, or kills between two calls.                     *)
(***************************************************************************)
DefaultHup(d) ==
    /\ Calls(d, "default HUP")
    /\ hup' = [hup EXCEPT ![d] = "DFL"] /\ Called(d)
    /\ UNCHANGED <<dmprog, gen, starts, session, term, blocked, dpend, locker, pidfile>>

BlockAll(d) ==
    /\ Calls(d, "block all")
    /\ blocked' = [blocked EXCEPT ![d] = TRUE] /\ Called(d)
    /\ UNCHANGED <<dmprog, gen, starts, session, hup, term, dpend, locker, pidfile>>

CreateThread(d) ==
    /\ Calls(d, "create thread") /\ Called(d)
    /\ UNCHANGED <<dmprog, gen, starts, session, signals, locker, pidfile>>

CatchTerm(d) ==
    /\ Calls(d, "catch TERM")
    /\ term' = [term EXCEPT ![d] = "own"] /\ Called(d)
    /\ UNCHANGED <<dmprog, gen, starts, session, hup, blocked, dpend, locker, pidfile>>

CatchHup(d) ==
    /\ Calls(d, "catch HUP")
    /\ hup' = [hup EXCEPT ![d] = "own"] /\ Called(d)
    /\ UNCHANGED <<dmprog, gen, starts, session, term, blocked, dpend, locker, pidfile>>

\* Somebody signals the process that the file names.
Signal(d, s) ==
    /\ done[d] # Off /\ pidfile = Self(d)
    /\ s = "HUP" => hup[d] # "IGN"
    /\ dpend' = [dpend EXCEPT ![d] = @ \cup {s}]
    /\ UNCHANGED <<dmprog, done, gen, starts, session, hup, term, blocked, locker, pidfile>>

\* sigwait: SIGHUP has the file read again, SIGTERM ends the daemon.
thr_fn(d) ==
    /\ dmprog = "reread" /\ Serving(d)
    /\ \/ /\ "HUP" \in dpend[d]
          /\ dpend' = [dpend EXCEPT ![d] = @ \ {"HUP"}]
          /\ UNCHANGED <<dmprog, done, gen, starts, session, hup, term, blocked, locker, pidfile>>
       \/ "TERM" \in dpend[d] /\ dmEnds(d)

\* A signal that is not blocked: the default action and the handler sigterm
\* end the process, sighup rereads the file.
Take(d) ==
    /\ done[d] # Off /\ ~blocked[d]
    /\ \/ "TERM" \in dpend[d] /\ dmEnds(d)
       \/ "HUP" \in dpend[d] /\ hup[d] = "DFL" /\ dmEnds(d)
       \/ /\ "HUP" \in dpend[d] /\ hup[d] = "own"
          /\ dpend' = [dpend EXCEPT ![d] = @ \ {"HUP"}]
          /\ UNCHANGED <<dmprog, done, gen, starts, session, hup, term, blocked, locker, pidfile>>

\* The rest of the daemon is over, or the process is killed.
Finish(d) == done[d] # Off /\ dmEnds(d)

dmStep(d) ==
    \/ Forks(d) \/ SetSid(d) \/ IgnoreHup(d) \/ ChangeDir(d) \/ CloseAll(d) \/ Attach(d)
    \/ OpenLockfile(d) \/ lockfile(d) \/ Truncate(d) \/ WritePid(d)
    \/ DefaultHup(d) \/ BlockAll(d) \/ CreateThread(d) \/ CatchTerm(d) \/ CatchHup(d)

dmNext ==
    \E d \in Copy :
        \/ Start(d) \/ dmStep(d) \/ ForkFails(d) \/ Finish(d)
        \/ thr_fn(d) \/ Take(d) \/ \E s \in {"HUP", "TERM"} : Signal(d, s)

dmSpec == dmInit /\ [][dmNext]_dmvars

dmTypeOK ==
    /\ dmprog \in {"reread", "reread2"}
    /\ done \in [Copy -> Off .. 14] /\ gen \in [Copy -> 0 .. 3 * MaxStarts] /\ starts \in 0 .. MaxStarts
    /\ dfds \in [Copy -> {"inherited", "closed", "/dev/null"}]
    /\ hup \in [Copy -> {"DFL", "IGN", "own"}] /\ term \in [Copy -> {"DFL", "own"}]
    /\ dpend \in [Copy -> SUBSET {"HUP", "TERM"}]

\* "Make sure only one copy of the daemon is running": at most one copy
\* serves, it has the lock and the file names it, although the lock is not
\* inherited by fork and the file still names an earlier process for a while.
\* It has lost its terminal and cannot get one by opening it.
OneDaemon ==
    \A d \in Copy : Serving(d) =>
        /\ locker = Self(d) /\ pidfile = Self(d)
        /\ ~ctty[d] /\ ~leader[d] /\ dfds[d] = "/dev/null"
        /\ \A e \in Copy \ {d} : ~Serving(e)
=============================================================================
