------------------------------- MODULE Uptime -------------------------------
(***************************************************************************)
(* The uptime service of sockets/: the stream server that uses popen       *)
(* (ruptimed.c), the one that forks (ruptimed-fd.c), the datagram server   *)
(* (ruptimed-dg.c), their clients (ruptime.c, ruptime-dg.c), initserver    *)
(* and connect_retry.                                                      *)
(*                                                                         *)
(* A process of the server is known by the client it is serving, clfd, and *)
(* by the one its standard output and error are connected to.  A datagram  *)
(* may be lost.                                                            *)
(***************************************************************************)
EXTENDS Integers, Sequences, FiniteSets

CONSTANTS
    Client,     \* the clients
    NoClient,
    NAddr,      \* addresses of the host
    MAXSLEEP,   \* a power of two
    NLines,     \* lines that uptime prints
    MaxProc     \* bound: processes of the server

\* MAXSLEEP is 128 in the code; a smaller power of two serves as well.
ASSUME UptimeAssumption ==
    /\ NoClient \notin Client /\ NAddr \in Nat \ {0} /\ NLines \in Nat /\ MaxProc \in Nat \ {0}
    /\ MAXSLEEP \in {1, 2, 4, 8, 16, 32, 64, 128}

UpPrograms == {"popen", "fork", "dgram"}
ServerProc == 1 .. MaxProc

VARIABLES
    upprog,     \* the server
    saddr,      \* the address being tried, or served
    proc,       \* its processes
    clt,        \* the clients
    backlog0,   \* connections not yet accepted, or datagrams for the server
    text,       \* what was sent to each client and not yet received
    heard,      \* what each client has written to its standard output
    procfail    \* ghost: a fork or an exec failed

upvars == <<upprog, saddr, proc, clt, backlog0, text, heard, procfail>>

NoServer == [at |-> "none", clfd |-> NoClient, std |-> NoClient, line |-> 0, kid |-> 0]
NewClient == [at |-> "start", addr |-> 1, numsec |-> 1, slept |-> 0, early |-> FALSE]
ErrorLine == 0
UptimeLines == [i \in 1 .. NLines |-> i]

upInitOf(progs) ==
    /\ upprog \in progs
    /\ saddr = 1
    /\ proc = [p \in ServerProc |-> IF p = 1 THEN [NoServer EXCEPT !.at = "initserver"] ELSE NoServer]
    /\ clt = [c \in Client |-> NewClient]
    /\ backlog0 = << >>
    /\ text = [c \in Client |-> << >>] /\ heard = [c \in Client |-> << >>]
    /\ procfail = FALSE

upInit == upInitOf(UpPrograms)

(***************************************************************************)
(* The server.                                                             *)
(***************************************************************************)
\* Whether a socket is bound and, for a stream, listening.
Listening == \E p \in ServerProc : proc[p].at \notin {"none", "initserver", "gone", "uptime"}

GoTo(p, at) == proc' = [proc EXCEPT ![p].at = at]
Served(p, at) == proc' = [proc EXCEPT ![p].at = at, ![p].clfd = NoClient]
Sends(c, t) == text' = [text EXCEPT ![c] = Append(@, t)]

\* main: the first address for which initserver succeeds is served.
initserver ==
    /\ proc[1].at = "initserver"
    /\ \/ GoTo(1, "accept") /\ UNCHANGED saddr
       \/ IF saddr < NAddr THEN saddr' = saddr + 1 /\ UNCHANGED proc
          ELSE GoTo(1, "gone") /\ UNCHANGED saddr
    /\ UNCHANGED <<upprog, clt, backlog0, text, heard, procfail>>

\* accept in the stream servers, recvfrom in the datagram server.
Accept(p) ==
    /\ proc[p].at = "accept" /\ backlog0 # << >>
    /\ proc' = [proc EXCEPT ![p].clfd = Head(backlog0), ![p].line = 0,
                            ![p].at = IF upprog = "fork" THEN "fork" ELSE "popen"]
    /\ backlog0' = Tail(backlog0)
    /\ UNCHANGED <<upprog, saddr, clt, text, heard, procfail>>

\* popen, which may fail; then the client is sent the error.
ServePopen(p) ==
    /\ proc[p].at = "popen"
    /\ \/ GoTo(p, "fgets") /\ UNCHANGED text
       \/ Sends(proc[p].clfd, ErrorLine) /\ GoTo(p, "close")
    /\ UNCHANGED <<upprog, saddr, clt, backlog0, heard, procfail>>

\* One line for a datagram, all of them for a stream.
ServeLine(p) ==
    LET last == IF upprog = "dgram" THEN 1 ELSE NLines IN
    /\ proc[p].at = "fgets"
    /\ IF proc[p].line < last
       THEN /\ Sends(proc[p].clfd, proc[p].line + 1)
            /\ proc' = [proc EXCEPT ![p].line = @ + 1]
       ELSE GoTo(p, "close") /\ UNCHANGED text
    /\ UNCHANGED <<upprog, saddr, clt, backlog0, heard, procfail>>

ServeClose(p) ==
    /\ proc[p].at = "close"
    /\ Served(p, "accept")
    /\ UNCHANGED <<upprog, saddr, clt, backlog0, text, heard, procfail>>

\* A child starts with the descriptors of its parent.
ServeFork(p) ==
    /\ proc[p].at = "fork"
    /\ \/ \E k \in ServerProc :
            /\ proc[k].at = "none"
            /\ proc' = [proc EXCEPT ![p].at = "parent", ![p].kid = k,
                                    ![k] = [proc[p] EXCEPT !.at = "dup2"]]
            /\ UNCHANGED procfail
       \/ proc' = [proc EXCEPT ![p] = [NoServer EXCEPT !.at = "gone"]] /\ procfail' = TRUE
    /\ UNCHANGED <<upprog, saddr, clt, backlog0, text, heard>>

\* The parent keeps the connection open.
ServeParent_Variant(p) ==
    /\ proc[p].at = "parent"
    /\ GoTo(p, "waitpid")
    /\ UNCHANGED <<upprog, saddr, clt, backlog0, text, heard, procfail>>

ServeParent(p) ==
    /\ proc[p].at = "parent"
    /\ Served(p, "waitpid")
    /\ UNCHANGED <<upprog, saddr, clt, backlog0, text, heard, procfail>>

ServeWait(p) ==
    /\ proc[p].at = "waitpid" /\ proc[proc[p].kid].at = "gone"
    /\ GoTo(p, "accept")
    /\ UNCHANGED <<upprog, saddr, clt, backlog0, text, heard, procfail>>

\* When exec fails the child goes on with the loop, and accepts clients.
ServeChild(p) ==
    /\ proc[p].at = "dup2"
    /\ \E ok \in BOOLEAN :
         /\ proc' = [proc EXCEPT ![p].std = proc[p].clfd, ![p].clfd = NoClient,
                                 ![p].at = IF ok THEN "uptime" ELSE "accept"]
         /\ procfail' = (procfail \/ ~ok)
    /\ UNCHANGED <<upprog, saddr, clt, backlog0, text, heard>>

\* external: the program uptime.
uptime(p) ==
    /\ proc[p].at = "uptime"
    /\ IF proc[p].line < NLines
       THEN /\ Sends(proc[p].std, proc[p].line + 1)
            /\ proc' = [proc EXCEPT ![p].line = @ + 1]
       ELSE proc' = [proc EXCEPT ![p] = [NoServer EXCEPT !.at = "gone"]] /\ UNCHANGED text
    /\ UNCHANGED <<upprog, saddr, clt, backlog0, heard, procfail>>

(***************************************************************************)
(* The clients.                                                            *)
(***************************************************************************)
\* The address after the last try with this one, or the end.
NextAddr(c) ==
    IF clt[c].addr < NAddr
    THEN [clt[c] EXCEPT !.addr = @ + 1, !.numsec = 1, !.slept = 0]
    ELSE [clt[c] EXCEPT !.at = "failed"]

\* A failed try, without the last one.
TryAgain_Variant(c) ==
    LET s == IF clt[c].numsec <= MAXSLEEP \div 2 THEN clt[c].numsec ELSE 0
        next == [clt[c] EXCEPT !.numsec = 2 * @, !.slept = @ + s]
    IN  IF next.numsec < MAXSLEEP THEN next ELSE NextAddr(c)

\* A failed try of connect_retry: sleep and double the delay.
TryAgain(c) ==
    LET s == IF clt[c].numsec <= MAXSLEEP \div 2 THEN clt[c].numsec ELSE 0
        next == [clt[c] EXCEPT !.numsec = 2 * @, !.slept = @ + s]
    IN  IF next.numsec <= MAXSLEEP THEN next ELSE NextAddr(c)

connect_retry(c) ==
    /\ upprog # "dgram" /\ clt[c].at = "start"
    /\ IF Listening /\ clt[c].addr = saddr
       THEN /\ clt' = [clt EXCEPT ![c].at = "recv"]
            /\ backlog0' = Append(backlog0, c)
       ELSE clt' = [clt EXCEPT ![c] = TryAgain(c)] /\ UNCHANGED backlog0
    /\ UNCHANGED <<upprog, saddr, proc, text, heard, procfail>>

\* Whether the other end of a client's connection is still open.
HeldOpen(c) ==
    \/ \E i \in DOMAIN backlog0 : backlog0[i] = c /\ Listening
    \/ \E p \in ServerProc : c \in {proc[p].clfd, proc[p].std}

print_uptime(c) ==
    /\ upprog # "dgram" /\ clt[c].at = "recv"
    /\ IF text[c] # << >>
       THEN /\ heard' = [heard EXCEPT ![c] = Append(@, Head(text[c]))]
            /\ text' = [text EXCEPT ![c] = Tail(@)]
            /\ UNCHANGED clt
       ELSE ~HeldOpen(c) /\ clt' = [clt EXCEPT ![c].at = "done"] /\ UNCHANGED <<heard, text>>
    /\ UNCHANGED <<upprog, saddr, proc, backlog0, procfail>>

\* The datagram client: sendto, alarm, recvfrom.
SendDatagram(c) ==
    /\ upprog = "dgram" /\ clt[c].at = "start"
    /\ clt' = [clt EXCEPT ![c].at = "alarm"]
    /\ \/ Listening /\ backlog0' = Append(backlog0, c)
       \/ UNCHANGED backlog0
    /\ UNCHANGED <<upprog, saddr, proc, text, heard, procfail>>

StartAlarm(c) ==
    /\ clt[c].at = "alarm"
    /\ clt' = [clt EXCEPT ![c].at = "armed"]
    /\ UNCHANGED <<upprog, saddr, proc, backlog0, text, heard, procfail>>

\* The handler only returns: an alarm before recvfrom has no effect.
sigalrm(c) ==
    /\ \/ clt[c].at = "armed" /\ ~clt[c].early /\ clt' = [clt EXCEPT ![c].early = TRUE]
       \/ clt[c].at = "recvfrom" /\ ~clt[c].early /\ clt' = [clt EXCEPT ![c].at = "failed"]
    /\ UNCHANGED <<upprog, saddr, proc, backlog0, text, heard, procfail>>

CallRecvfrom(c) ==
    /\ clt[c].at = "armed"
    /\ clt' = [clt EXCEPT ![c].at = "recvfrom"]
    /\ UNCHANGED <<upprog, saddr, proc, backlog0, text, heard, procfail>>

ReadDatagram(c) ==
    /\ clt[c].at = "recvfrom" /\ text[c] # << >>
    /\ heard' = [heard EXCEPT ![c] = <<Head(text[c])>>]
    /\ text' = [text EXCEPT ![c] = Tail(@)]
    /\ clt' = [clt EXCEPT ![c].at = "done"]
    /\ UNCHANGED <<upprog, saddr, proc, backlog0, procfail>>

\* external: the network loses an answer.
LoseDatagram(c) ==
    /\ upprog = "dgram" /\ text[c] # << >>
    /\ text' = [text EXCEPT ![c] = Tail(@)]
    /\ UNCHANGED <<upprog, saddr, proc, clt, backlog0, heard, procfail>>

ServerStep ==
    \/ initserver
    \/ \E p \in ServerProc :
         \/ Accept(p) \/ ServePopen(p) \/ ServeLine(p) \/ ServeClose(p)
         \/ ServeFork(p) \/ ServeParent(p) \/ ServeWait(p) \/ ServeChild(p) \/ uptime(p)

ClientStep(c) ==
    \/ connect_retry(c) \/ print_uptime(c)
    \/ SendDatagram(c) \/ StartAlarm(c) \/ sigalrm(c) \/ CallRecvfrom(c) \/ ReadDatagram(c)

upNext ==
    \/ ServerStep
    \/ \E c \in Client : ClientStep(c) \/ LoseDatagram(c)

\* The processes are scheduled; an alarm that was set goes off.
upFair == WF_upvars(ServerStep) /\ \A c \in Client : WF_upvars(ClientStep(c))

upSpec == upInit /\ [][upNext]_upvars /\ upFair

upTypeOK ==
    /\ upprog \in UpPrograms /\ saddr \in 1 .. NAddr
    /\ \A p \in ServerProc : {proc[p].clfd, proc[p].std} \subseteq Client \cup {NoClient}
    /\ \A c \in Client : clt[c].addr \in 1 .. NAddr /\ clt[c].numsec \in 1 .. MAXSLEEP

\* A client that ends normally has the whole answer of uptime, or the error
\* message, and nobody else's lines, unless a fork or an exec failed;
\* one that gives up did so only after its last try came MAXSLEEP-1 seconds
\* after the first.
WholeAnswer ==
    \A c \in Client :
        /\ clt[c].at = "done" /\ upprog # "dgram" =>
              heard[c] \in {UptimeLines, <<ErrorLine>>} \/ procfail
        /\ clt[c].at = "done" /\ upprog = "dgram" => heard[c] \in {<<1>>, <<ErrorLine>>}
        /\ clt[c].at = "failed" /\ upprog # "dgram" =>
              clt[c].slept = MAXSLEEP - 1 /\ clt[c].numsec = MAXSLEEP

\* Every client ends: a stream is closed by all who hold it, and the timeout
\* stands for a lost datagram; unless the alarm was too early (before
\* recvfrom is called), or an exec failed and the child holds the connection.
ClientsEnd ==
    \A c \in Client :
        []<>(clt[c].at \in {"done", "failed"} \/ clt[c].early \/ procfail)
=============================================================================
