------------------------------ MODULE MCThreads ------------------------------
(***************************************************************************)
(* The programs with several threads, for TLC.  They share no state: one   *)
(* behaviour runs one of them, chosen at the start, and the others stay    *)
(* where they begin.                                                       *)
(***************************************************************************)
EXTENDS PrintSignals, PrinterStatus, WorkerThreads, FooObjects, Barriers, ThreadCtl, MsgQueues

VARIABLE program

Programs == {"printd", "status", "workers", "foo", "barriers", "ctl", "msg"}
Runs(p) == program = p

printd == <<list, canceled, config, sig>>
allvars == <<program, printd, psvars, wtvars, foovars, bvars, ctlvars, mqvars>>

MCInit ==
    /\ program \in Programs
    /\ Init
    /\ IF Runs("status") THEN psInit ELSE psInitOf({CHOOSE a \in Answers : a.ok})
    /\ wtInit /\ (Runs("workers") \/ wprog = "herd")
    /\ fooInit /\ (Runs("foo") \/ fprog = "mutex1")
    /\ bInit /\ (Runs("barriers") \/ bprog = "my")
    /\ ctlInit /\ (Runs("ctl") \/ tprog = "condvar")
    /\ mqInit /\ (Runs("msg") \/ mqprog = "pollmsg")

OthersWait ==
    /\ UNCHANGED program
    /\ IF Runs("printd") THEN TRUE ELSE UNCHANGED printd
    /\ IF Runs("status") THEN TRUE ELSE UNCHANGED psvars
    /\ IF Runs("workers") THEN TRUE ELSE UNCHANGED wtvars
    /\ IF Runs("foo") THEN TRUE ELSE UNCHANGED foovars
    /\ IF Runs("barriers") THEN TRUE ELSE UNCHANGED bvars
    /\ IF Runs("ctl") THEN TRUE ELSE UNCHANGED ctlvars
    /\ IF Runs("msg") THEN TRUE ELSE UNCHANGED mqvars

\* The programs that may come to rest: they have ended, or wait for a signal,
\* a job or a message that nobody has to send.
AtRest ==
    /\ \/ program \in {"printd", "status", "foo", "barriers", "msg"}
       \/ Runs("workers") /\ wtResting
       \/ Runs("ctl") /\ ctlResting
    /\ UNCHANGED allvars

MCNext ==
    \/ AtRest
    \/ Runs("printd") /\ Next /\ OthersWait
    \/ Runs("status") /\ psNext /\ OthersWait
    \/ Runs("workers") /\ wtNext /\ OthersWait
    \/ Runs("foo") /\ fooNext /\ OthersWait
    \/ Runs("barriers") /\ bNext /\ OthersWait
    \/ Runs("ctl") /\ ctlNext /\ OthersWait
    \/ Runs("msg") /\ mqNext /\ OthersWait

\* The fairness of each program, for the one that runs.
MCFair ==
    /\ WF_wtvars(Runs("workers") /\ MainStep)
    /\ \A w \in Worker : WF_wtvars(Runs("workers") /\ WorkerStep(w))
    /\ WF_bvars(Runs("barriers") /\ MainB)
    /\ \A t \in BThr : WF_bvars(Runs("barriers") /\ ThreadB(t))
    /\ WF_ctlvars(Runs("ctl") /\ MainT) /\ WF_ctlvars(Runs("ctl") /\ ThrT)
    /\ \A c \in Caller : WF_ctlvars(Runs("ctl") /\ CallerT(c))
    /\ WF_mqvars(Runs("msg") /\ PollStep)
    /\ \A n \in Queue : WF_mqvars(Runs("msg") /\ HelperStep(n))

MCSpec == MCInit /\ [][MCNext]_allvars /\ MCFair

\* The variables of every program keep their types.
ThreadTypes ==
    TypeOK /\ psTypeOK /\ wtTypeOK /\ fooTypeOK /\ bTypeOK /\ ctlTypeOK /\ mqTypeOK

\* The barriers keep everybody back until the last one has come, and the sort
\* that relies on one prints the numbers in order.
BarriersWork == BarrierHolds /\ MergeSorts

\* No wakeup is lost: the herd of workers serves every job, both barriers
\* open, condvar.c and suspend.c react to every message and signal, and every
\* message of a queue is printed.
NoWakeupIsLost ==
    /\ HerdServesAll
    /\ Runs("barriers") => BarrierOpens
    /\ WakeupsArrive
    /\ MessagesArePrinted
=============================================================================
