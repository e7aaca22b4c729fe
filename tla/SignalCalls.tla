---------------------------- MODULE SignalCalls ----------------------------
(***************************************************************************)
(* Library functions that change how their caller takes signals while they *)
(* run: system (signals/system.c), sleep (lib/sleep.c), abort              *)
(* (signals/abort.c), and two programs that wait for a signal: suspend2.c  *)
(* and mytests/signals/waitpid.c.  Each system call is a step.  A signal   *)
(* that is pending and not blocked is delivered before the next step; a    *)
(* handler is one step.  Errors of sigaction and sigprocmask are left out. *)
(***************************************************************************)
EXTENDS Integers, FiniteSets

CONSTANTS
    MaxSent,    \* bound: signals that others send
    NKids       \* CHILD_COUNT

Sig == {"INT", "QUIT", "CHLD", "ALRM", "ABRT"}

VARIABLES
    scprog,     \* the function or program
    at,         \* its next system call
    disp, mask, pend, \* disposition, mask and pending signals
    old,        \* what the function saved: dispositions and mask
    dozing,     \* the mask while it sleeps in sigsuspend, or NotDozing
    alarmed,    \* the alarm clock is on
    fate,       \* "", "returned", "exited", or the signal that killed it
    result,     \* the status system returns
    flushed,    \* abort has called fflush
    child,      \* system: its child and how that takes signals
    kids,       \* waitpid: state of each child
    live,       \* live_children, or quitflag of suspend2
    was,        \* dispositions and mask of the caller at the call
    nsent       \* signals sent so far

kernel == <<disp, mask, pend>>
local == <<old, result, flushed, child, kids, live>>
scvars == <<scprog, at, kernel, old, dozing, alarmed, fate, result, flushed, child, kids, live, was, nsent>>

NotDozing == {"none"}
Mask == IF dozing = NotDozing THEN mask ELSE dozing
Deliverable == pend \ Mask

NoChild == [st |-> "none", disp |-> [s \in Sig |-> "DFL"]]

First == [system |-> "ignore INT", sleep |-> "catch ALRM", abort |-> "check ABRT",
          suspend2 |-> "block QUIT", waitpid |-> "fork"]

\* Dispositions a caller may have; the handlers of the programs are theirs.
CallerDisp ==
    {d \in [Sig -> {"DFL", "IGN", "own"}] :
        /\ d["CHLD"] # "IGN" /\ d["ALRM"] = "DFL"
        /\ scprog = "system" => d["ABRT"] = "DFL" /\ d["QUIT"] = d["INT"]
        /\ scprog = "sleep" => d["ABRT"] = "DFL" /\ d["QUIT"] = "DFL" /\ d["CHLD"] = "DFL" /\ d["INT"] = "own"
        /\ scprog = "abort" => d["INT"] = "DFL" /\ d["QUIT"] = "DFL" /\ d["CHLD"] = "DFL"
        /\ scprog = "suspend2" => d = [s \in Sig |-> IF s \in {"INT", "QUIT"} THEN "own" ELSE "DFL"]
        /\ scprog = "waitpid" => d = [s \in Sig |-> IF s = "CHLD" THEN "own" ELSE "DFL"]}

scInitOf(progs) ==
    /\ scprog \in progs
    /\ at = First[scprog]
    /\ disp \in CallerDisp
    /\ mask \in IF scprog = "abort" THEN {{}, {"ABRT"}} ELSE {{}}
    /\ pend = {} /\ was = [disp |-> disp, mask |-> mask] /\ old = was
    /\ dozing = NotDozing /\ alarmed = FALSE /\ fate = "" /\ result = "" /\ flushed = FALSE
    /\ child = NoChild /\ kids = [k \in 1 .. NKids |-> IF scprog = "system" /\ k = 1 THEN "run" ELSE "none"]
    /\ live = (IF scprog = "waitpid" THEN NKids ELSE 0)
    /\ nsent = 0

scInit == scInitOf(DOMAIN First)

\* The process runs from one system call to the next.
Goes(from, to) == at = from /\ at' = to /\ fate = "" /\ dozing = NotDozing /\ Deliverable = {}
Same == UNCHANGED <<scprog, was, nsent>>

(***************************************************************************)
(* Signals.                                                                *)
(***************************************************************************)
Ignored(s) == disp[s] = "IGN" \/ (disp[s] = "DFL" /\ s = "CHLD")
Gen(S) == pend \cup {s \in S : ~Ignored(s)}

\* The handler of waitpid.c reaps one child.
sigchld_Variant ==
    LET dead == {k \in 1 .. NKids : kids[k] = "zombie"}
        one == CHOOSE k \in dead : TRUE
    IN  IF dead = {} THEN UNCHANGED <<kids, live>>
        ELSE kids' = [kids EXCEPT ![one] = "gone"] /\ live' = live - 1

\* It reaps every child that has ended, as a careful caller of system does.
sigchld ==
    LET dead == {k \in 1 .. NKids : kids[k] = "zombie"}
    IN  /\ kids' = [k \in 1 .. NKids |-> IF k \in dead THEN "gone" ELSE kids[k]]
        /\ live' = IF scprog = "waitpid" THEN live - Cardinality(dead) ELSE live

\* external: delivery.  A handler runs and a sleeping call returns, or the
\* default action is taken.
Deliver(s) ==
    /\ fate = "" /\ s \in Deliverable
    /\ pend' = pend \ {s}
    /\ IF Ignored(s) THEN UNCHANGED <<fate, dozing, kids, live, child>>
       ELSE IF disp[s] = "DFL"
       THEN fate' = s /\ UNCHANGED <<dozing, kids, live, child>>
       ELSE /\ dozing' = NotDozing
            /\ IF s = "CHLD"
               THEN /\ sigchld
                    /\ child' = IF child.st = "zombie" THEN [child EXCEPT !.st = "gone"] ELSE child
               ELSE /\ live' = (IF scprog = "suspend2" /\ s = "QUIT" THEN 1 ELSE live)
                    /\ UNCHANGED <<kids, child>>
            /\ UNCHANGED fate
    /\ Same /\ UNCHANGED <<at, disp, mask, old, alarmed, result, flushed>>

\* Somebody types INT or QUIT: the caller and its child get it.
Type(s) ==
    /\ fate = "" /\ nsent < MaxSent /\ s \in {"INT", "QUIT"}
    /\ nsent' = nsent + 1
    /\ IF child.st \notin {"none", "zombie", "gone"} /\ child.disp[s] = "DFL"
       THEN child' = [child EXCEPT !.st = "zombie"] /\ pend' = Gen({s, "CHLD"})
       ELSE UNCHANGED child /\ pend' = Gen({s})
    /\ UNCHANGED <<scprog, at, disp, mask, old, dozing, alarmed, fate, result, flushed, kids, live, was>>

\* The alarm goes off.
Alarm ==
    /\ fate = "" /\ alarmed
    /\ alarmed' = FALSE /\ pend' = Gen({"ALRM"})
    /\ Same /\ UNCHANGED <<at, disp, mask, dozing, fate, local>>

\* A child ends, and the parent is sent SIGCHLD.
ChildEnds ==
    /\ fate = "" /\ pend' = Gen({"CHLD"})
    /\ \/ child.st = "exec" /\ child' = [child EXCEPT !.st = "zombie"] /\ UNCHANGED kids
       \/ /\ \E k \in 1 .. NKids : kids[k] = "run" /\ kids' = [kids EXCEPT ![k] = "zombie"]
          /\ UNCHANGED child
    /\ Same /\ UNCHANGED <<at, disp, mask, old, dozing, alarmed, fate, result, flushed, live>>

Rest == Same /\ UNCHANGED <<pend, dozing, fate>>
SetDisp(s, d) == disp' = [disp EXCEPT ![s] = d]

(***************************************************************************)
(* system.                                                                 *)
(***************************************************************************)
IgnoreIntr ==
    /\ Goes("ignore INT", "ignore QUIT")
    /\ SetDisp("INT", "IGN") /\ old' = [old EXCEPT !.disp["INT"] = disp["INT"]]
    /\ Rest /\ UNCHANGED <<mask, alarmed, result, flushed, child, kids, live>>

IgnoreQuit ==
    /\ Goes("ignore QUIT", "block CHLD")
    /\ SetDisp("QUIT", "IGN") /\ old' = [old EXCEPT !.disp["QUIT"] = disp["QUIT"]]
    /\ Rest /\ UNCHANGED <<mask, alarmed, result, flushed, child, kids, live>>

\* SIGCHLD is not blocked.
BlockChld_Variant ==
    /\ Goes("block CHLD", "fork child")
    /\ old' = [old EXCEPT !.mask = mask]
    /\ Rest /\ UNCHANGED <<disp, mask, alarmed, result, flushed, child, kids, live>>

BlockChld ==
    /\ Goes("block CHLD", "fork child")
    /\ mask' = mask \cup {"CHLD"} /\ old' = [old EXCEPT !.mask = mask]
    /\ Rest /\ UNCHANGED <<disp, alarmed, result, flushed, child, kids, live>>

ForkChild ==
    /\ \/ /\ Goes("fork child", "waitpid")
          /\ child' = [st |-> "restore INT", disp |-> disp] /\ UNCHANGED result
       \/ /\ Goes("fork child", "restore INT")
          /\ result' = "-1" /\ UNCHANGED child
    /\ Rest /\ UNCHANGED <<disp, mask, old, alarmed, flushed, kids, live>>

\* The child takes back the dispositions and the mask, and calls execl, which
\* sets caught signals to their default.
AfterExec(d) == [s \in Sig |-> IF d[s] = "own" THEN "DFL" ELSE d[s]]

ChildRestores ==
    /\ fate = "" /\ child.st \in {"restore INT", "restore QUIT", "execl"}
    /\ child' =
         CASE child.st = "restore INT" ->
                [st |-> "restore QUIT", disp |-> [child.disp EXCEPT !["INT"] = old.disp["INT"]]]
           [] child.st = "restore QUIT" ->
                [st |-> "execl", disp |-> [child.disp EXCEPT !["QUIT"] = old.disp["QUIT"]]]
           [] child.st = "execl" -> [st |-> "exec", disp |-> AfterExec(child.disp)]
    /\ Same /\ UNCHANGED <<at, kernel, old, dozing, alarmed, fate, result, flushed, kids, live>>

\* waitpid, again after EINTR; ECHILD when the child is not there any more.
WaitChild ==
    /\ Goes("waitpid", "restore INT") /\ child.st \in {"zombie", "gone"}
    /\ result' = IF child.st = "zombie" THEN "status" ELSE "-1"
    /\ child' = [child EXCEPT !.st = "gone"]
    /\ Rest /\ UNCHANGED <<disp, mask, old, alarmed, flushed, kids, live>>

RestoreIntr ==
    /\ Goes("restore INT", "restore QUIT")
    /\ SetDisp("INT", old.disp["INT"])
    /\ Rest /\ UNCHANGED <<mask, alarmed, local>>

RestoreQuit ==
    /\ Goes("restore QUIT", "restore mask")
    /\ SetDisp("QUIT", old.disp["QUIT"])
    /\ Rest /\ UNCHANGED <<mask, alarmed, local>>

\* The last call of system and of sleep.
RestoreMask ==
    /\ Goes("restore mask", "return")
    /\ mask' = old.mask
    /\ Rest /\ UNCHANGED <<disp, alarmed, local>>

Return ==
    /\ Goes("return", "return")
    /\ fate' = "returned"
    /\ Same /\ UNCHANGED <<kernel, dozing, alarmed, local>>

(***************************************************************************)
(* sleep.                                                                  *)
(***************************************************************************)
CatchAlrm ==
    /\ Goes("catch ALRM", "block ALRM")
    /\ SetDisp("ALRM", "own") /\ old' = [old EXCEPT !.disp["ALRM"] = disp["ALRM"]]
    /\ Rest /\ UNCHANGED <<mask, alarmed, result, flushed, child, kids, live>>

\* SIGALRM is not blocked.
BlockAlrm_Variant ==
    /\ Goes("block ALRM", "alarm")
    /\ old' = [old EXCEPT !.mask = mask]
    /\ Rest /\ UNCHANGED <<disp, mask, alarmed, result, flushed, child, kids, live>>

BlockAlrm ==
    /\ Goes("block ALRM", "alarm")
    /\ mask' = mask \cup {"ALRM"} /\ old' = [old EXCEPT !.mask = mask]
    /\ Rest /\ UNCHANGED <<disp, alarmed, result, flushed, child, kids, live>>

SetAlarm ==
    /\ Goes("alarm", "sigsuspend")
    /\ alarmed' = TRUE
    /\ Rest /\ UNCHANGED <<disp, mask, local>>

Suspend ==
    /\ Goes("sigsuspend", "alarm off")
    /\ dozing' = old.mask \ {"ALRM"}
    /\ Same /\ UNCHANGED <<kernel, fate, alarmed, local>>

AlarmOff ==
    /\ Goes("alarm off", "restore ALRM")
    /\ alarmed' = FALSE
    /\ Rest /\ UNCHANGED <<disp, mask, local>>

RestoreAlrm ==
    /\ Goes("restore ALRM", "restore mask")
    /\ SetDisp("ALRM", old.disp["ALRM"])
    /\ Rest /\ UNCHANGED <<mask, alarmed, local>>

(***************************************************************************)
(* abort.                                                                  *)
(***************************************************************************)
\* An ignored SIGABRT is reset; with the default action streams are flushed.
CheckAbrt ==
    /\ Goes("check ABRT", "unblock ABRT")
    /\ IF disp["ABRT"] = "IGN" THEN SetDisp("ABRT", "DFL") ELSE UNCHANGED disp
    /\ flushed' = (disp["ABRT"] \in {"IGN", "DFL"})
    /\ Rest /\ UNCHANGED <<mask, alarmed, old, result, child, kids, live>>

UnblockAbrt ==
    /\ Goes("unblock ABRT", "kill")
    /\ mask' = Sig \ {"ABRT"}
    /\ Rest /\ UNCHANGED <<disp, alarmed, local>>

\* kill does not return before the signal is delivered.
KillSelf ==
    /\ Goes("kill", "default ABRT")
    /\ pend' = Gen({"ABRT"})
    /\ Same /\ UNCHANGED <<disp, mask, dozing, fate, alarmed, local>>

\* The handler is not replaced after it has returned.
DefaultAbrt_Variant ==
    /\ Goes("default ABRT", "kill again")
    /\ flushed' = TRUE
    /\ Rest /\ UNCHANGED <<disp, mask, alarmed, old, result, child, kids, live>>

DefaultAbrt ==
    /\ Goes("default ABRT", "kill again")
    /\ flushed' = TRUE
    /\ SetDisp("ABRT", "DFL") /\ mask' = Sig \ {"ABRT"}
    /\ Rest /\ UNCHANGED <<alarmed, old, result, child, kids, live>>

KillAgain ==
    /\ Goes("kill again", "exit")
    /\ pend' = Gen({"ABRT"})
    /\ Same /\ UNCHANGED <<disp, mask, dozing, fate, alarmed, local>>

ExitProcess ==
    /\ Goes("exit", "exit")
    /\ fate' = "exited"
    /\ Same /\ UNCHANGED <<kernel, dozing, alarmed, local>>

(***************************************************************************)
(* suspend2.c: SIGQUIT is blocked except in sigsuspend.                    *)
(***************************************************************************)
BlockQuit ==
    /\ Goes("block QUIT", "test quitflag")
    /\ mask' = mask \cup {"QUIT"} /\ old' = [old EXCEPT !.mask = mask]
    /\ Rest /\ UNCHANGED <<disp, alarmed, result, flushed, child, kids, live>>

TestQuitflag ==
    /\ Goes("test quitflag", IF live = 0 THEN "suspend QUIT" ELSE "unblock QUIT")
    /\ Rest /\ UNCHANGED <<disp, mask, alarmed, local>>

SuspendQuit ==
    /\ Goes("suspend QUIT", "test quitflag")
    /\ dozing' = {}
    /\ Same /\ UNCHANGED <<kernel, fate, alarmed, local>>

UnblockQuit ==
    /\ Goes("unblock QUIT", "exit")
    /\ live' = 0 /\ mask' = old.mask
    /\ Rest /\ UNCHANGED <<disp, alarmed, old, result, flushed, child, kids>>

(***************************************************************************)
(* waitpid.c: children that the handler of SIGCHLD reaps.                  *)
(***************************************************************************)
ForkKids ==
    /\ \E k \in 1 .. NKids :
          /\ kids[k] = "none" /\ \A j \in 1 .. k - 1 : kids[j] # "none"
          /\ Goes("fork", IF k = NKids THEN "test live" ELSE "fork")
          /\ kids' = [kids EXCEPT ![k] = "run"]
    /\ Rest /\ UNCHANGED <<disp, mask, alarmed, old, result, flushed, child, live>>

TestLive ==
    /\ Goes("test live", IF live > 0 THEN "pause" ELSE "exit")
    /\ Rest /\ UNCHANGED <<disp, mask, alarmed, local>>

Pause ==
    /\ Goes("pause", "test live")
    /\ dozing' = mask
    /\ Same /\ UNCHANGED <<kernel, fate, alarmed, local>>

(***************************************************************************)
scStep ==
    \/ IgnoreIntr \/ IgnoreQuit \/ BlockChld \/ ForkChild \/ WaitChild
    \/ RestoreIntr \/ RestoreQuit \/ RestoreMask \/ Return
    \/ CatchAlrm \/ BlockAlrm \/ SetAlarm \/ Suspend \/ AlarmOff \/ RestoreAlrm
    \/ CheckAbrt \/ UnblockAbrt \/ KillSelf \/ DefaultAbrt \/ KillAgain \/ ExitProcess
    \/ BlockQuit \/ TestQuitflag \/ SuspendQuit \/ UnblockQuit
    \/ ForkKids \/ TestLive \/ Pause

Delivery == \E s \in Sig : Deliver(s)

scNext == scStep \/ Delivery \/ Alarm \/ ChildEnds \/ ChildRestores \/ \E s \in {"INT", "QUIT"} : Type(s)

\* The process and its children run, signals are delivered, alarms go off.
scFair ==
    /\ WF_scvars(scStep) /\ WF_scvars(Delivery) /\ WF_scvars(Alarm)
    /\ WF_scvars(ChildEnds) /\ WF_scvars(ChildRestores)

scSpec == scInit /\ [][scNext]_scvars /\ scFair

(***************************************************************************)
scTypeOK ==
    /\ scprog \in DOMAIN First
    /\ disp \in [Sig -> {"DFL", "IGN", "own"}] /\ mask \subseteq Sig /\ pend \subseteq Sig
    /\ dozing = NotDozing \/ dozing \subseteq Sig
    /\ fate \in {"", "returned", "exited"} \cup Sig
    /\ live \in 0 .. NKids /\ nsent \in 0 .. MaxSent

\* A function that returns leaves the dispositions and the mask as it found
\* them; the command system runs takes SIGINT and SIGQUIT as the caller did;
\* and system returns the status of its child, which a SIGCHLD handler of the
\* caller has not reaped, unless there was no child.
CallsKeepSignals ==
    /\ fate = "returned" => disp = was.disp /\ mask = was.mask
    /\ child.st = "exec" => child.disp = AfterExec(was.disp)
    /\ scprog = "system" /\ fate = "returned" /\ child.st # "none" => result = "status"

\* abort ends the process by SIGABRT, whatever the caller did about the signal
\* before (it never reaches its exit), and the streams have been flushed.
AbortKills ==
    scprog = "abort" => /\ at = "exit" => "ABRT" \in Deliverable \/ fate = "ABRT"
                        /\ fate = "ABRT" => flushed

\* While waitpid.c runs, a child that has ended is reaped or SIGCHLD is still
\* to come, also when several end before one delivery.
ZombiesAreSignalled ==
    scprog = "waitpid" /\ fate = "" /\ (\E k \in 1 .. NKids : kids[k] = "zombie") => "CHLD" \in pend

\* What system, sleep, abort, sigsuspend and the SIGCHLD handler promise.
SignalsAreKept == CallsKeepSignals /\ AbortKills /\ ZombiesAreSignalled

\* sleep ends: the alarm is not lost before sigsuspend.
SleepEnds == (scprog = "sleep") ~> (fate # "")
=============================================================================
