----------------------------- MODULE MCProcesses -----------------------------
(***************************************************************************)
(* The libraries and programs that work with processes, descriptors,       *)
(* signals and terminals, for TLC.  They share no state: one behaviour     *)
(* runs one of them, chosen at the start, and the others stay where they   *)
(* begin.                                                                  *)
(***************************************************************************)
EXTENDS Semaph, OpenServer, TellWait, Popen, SignalCalls, Daemons, Outputs,
        FdPassing, Uptime, MemStream, Dup2

VARIABLE program

\* The clients of the open server have user IDs of their own.
MCUid == [c \in Cli |-> c]

\* The types that fmemopen is called with.
MCTypes == {<<"r">>, <<"w">>, <<"a">>, <<"r", "+">>, <<"w", "b", "+">>, <<"a", "+">>,
            <<"+">>, <<"r", "w">>, << >>}

\* The longest input of the programs that copy: "AnZ0a".
MCData == <<65, 110, 90, 48, 97>>

Programs == {"semaph", "opend", "tellwait", "popen", "signals", "daemons", "pty", "tty",
             "open", "uptime", "memory", "dup2", "copies"}
Runs(p) == program = p

allvars == <<program, vars, osvars, twvars, povars, scvars, dmvars, ptvars, ttvars,
             fpvars, upvars, msvars, dupvars, cpvars>>

MCInit ==
    /\ program \in Programs
    /\ Init /\ ttInit /\ msInit
    /\ osInit /\ (Runs("opend") \/ prog = "select")
    /\ poInit /\ (Runs("popen") \/ std)
    /\ IF Runs("tellwait") THEN twInit ELSE twInitOf({"tellwait2"})
    /\ IF Runs("signals") THEN scInit ELSE scInitOf({"suspend2"})
    /\ IF Runs("daemons") THEN dmInit ELSE dmInitOf({"reread"})
    /\ IF Runs("pty") THEN ptInit ELSE ptInitOf({CHOOSE o \in Options : o.interactive})
    /\ IF Runs("open") THEN fpInit ELSE fpInitOf({"recv_fd"})
    /\ IF Runs("uptime") THEN upInit ELSE upInitOf({"dgram"})
    /\ IF Runs("dup2") THEN dupInit ELSE dupInitOf({[f \in Fd |-> NotOpen]})
    /\ IF Runs("copies") THEN cpInit ELSE cpInitOf({"mcopy2"}) /\ source = << >>

OthersWait ==
    /\ UNCHANGED program
    /\ IF Runs("semaph") THEN TRUE ELSE UNCHANGED vars
    /\ IF Runs("opend") THEN TRUE ELSE UNCHANGED osvars
    /\ IF Runs("tellwait") THEN TRUE ELSE UNCHANGED twvars
    /\ IF Runs("popen") THEN TRUE ELSE UNCHANGED povars
    /\ IF Runs("signals") THEN TRUE ELSE UNCHANGED scvars
    /\ IF Runs("daemons") THEN TRUE ELSE UNCHANGED dmvars
    /\ IF Runs("pty") THEN TRUE ELSE UNCHANGED ptvars
    /\ IF Runs("tty") THEN TRUE ELSE UNCHANGED ttvars
    /\ IF Runs("open") THEN TRUE ELSE UNCHANGED fpvars
    /\ IF Runs("uptime") THEN TRUE ELSE UNCHANGED upvars
    /\ IF Runs("memory") THEN TRUE ELSE UNCHANGED msvars
    /\ IF Runs("dup2") THEN TRUE ELSE UNCHANGED dupvars
    /\ IF Runs("copies") THEN TRUE ELSE UNCHANGED cpvars

\* All but the semaphores, whose processes always have a call to make, end or
\* wait for somebody outside.
AtRest == ~Runs("semaph") /\ UNCHANGED allvars

MCNext ==
    \/ AtRest
    \/ Runs("semaph") /\ Next /\ OthersWait
    \/ Runs("opend") /\ osNext /\ OthersWait
    \/ Runs("tellwait") /\ twNext /\ OthersWait
    \/ Runs("popen") /\ poNext /\ OthersWait
    \/ Runs("signals") /\ scNext /\ OthersWait
    \/ Runs("daemons") /\ dmNext /\ OthersWait
    \/ Runs("pty") /\ ptNext /\ OthersWait
    \/ Runs("tty") /\ ttNext /\ OthersWait
    \/ Runs("open") /\ fpNext /\ OthersWait
    \/ Runs("uptime") /\ upNext /\ OthersWait
    \/ Runs("memory") /\ msNext /\ OthersWait
    \/ Runs("dup2") /\ dupNext /\ OthersWait
    \/ Runs("copies") /\ cpNext /\ OthersWait

\* The fairness of each program, for the one that runs.
MCFair ==
    /\ WF_osvars(Runs("opend") /\ loop)
    /\ \A p \in P : /\ WF_twvars(Runs("tellwait") /\ twStep(p))
                    /\ WF_twvars(Runs("tellwait") /\ sig_usr(p))
    /\ WF_povars(Runs("popen") /\ PcloseReturn)
    /\ \A k \in 1 .. MaxPid : WF_povars(Runs("popen") /\ k \in DOMAIN kid /\ Ends(k))
    /\ WF_scvars(Runs("signals") /\ scStep) /\ WF_scvars(Runs("signals") /\ Delivery)
    /\ WF_scvars(Runs("signals") /\ Alarm) /\ WF_scvars(Runs("signals") /\ ChildEnds)
    /\ WF_scvars(Runs("signals") /\ ChildRestores)
    /\ WF_ptvars(Runs("pty") /\ ParentStep) /\ WF_ptvars(Runs("pty") /\ SlaveStep)
    /\ WF_upvars(Runs("uptime") /\ ServerStep)
    /\ \A c \in Client : WF_upvars(Runs("uptime") /\ ClientStep(c))
    /\ WF_cpvars(Runs("copies") /\ Rot13c2Step)
    /\ \A b \in 0 .. NBUF - 1 : WF_cpvars(Runs("copies") /\ AioDone(b))

MCSpec == MCInit /\ [][MCNext]_allvars /\ MCFair

\* The variables of every program keep their types.
ProcessTypes ==
    /\ TypeOK /\ osTypeOK /\ twTypeOK /\ poTypeOK /\ scTypeOK /\ dmTypeOK /\ ptTypeOK
    /\ ttTypeOK /\ fpTypeOK /\ upTypeOK /\ msTypeOK /\ dupTypeOK /\ cpTypeOK

\* The tables of the open server agree with its connections, in either loop,
\* and the select loop handles a request under the uid of its client.
ServerTables == TablesAgree /\ EntryFilled /\ SelectUid

\* TELL and WAIT order the two processes, and they take turns.
TellWaitOrders == WaitsFollowTells /\ TurnsAlternate

\* Who waits is not left waiting: for the other process (TELL_WAIT, the locks),
\* for a child (pclose), for the alarm (sleep), for the program on the pseudo
\* terminal (pty), for the server (ruptime, the clients of the open server),
\* for the close of a connection and for asynchronous requests (rot13c2).
WaitingEnds ==
    /\ Answered /\ Released
    /\ Runs("tellwait") => ConversationEnds
    /\ PcloseReturns
    /\ Runs("signals") => SleepEnds
    /\ PtyEnds
    /\ Runs("uptime") => ClientsEnd
    /\ Runs("copies") => Rot13Ends
=============================================================================
