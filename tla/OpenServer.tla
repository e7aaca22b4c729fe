----------------------------- MODULE OpenServer -----------------------------
(***************************************************************************)
(* The open server of src/ipc2/opend: the table of clients (client.c), the *)
(* two versions of its main loop (loop.poll.c and loop.select.c), and its  *)
(* clients (src/ipc2/open) with the connection functions of src/lib.  The  *)
(* server makes one step for each poll or select, for each accept and for  *)
(* each descriptor it looks at; clients connect, ask, and close or die in  *)
(* between.                                                                *)
(*                                                                         *)
(* Descriptors are the ones the kernel gives: the lowest that is free.     *)
(* Arrays count from 1, so that client[i] is client[i - 1] of the code.    *)
(* What a request asks for and whether it is granted is left out: either   *)
(* way the client gets an answer.  A request fits the buffer of one read.  *)
(* The index of the scan is not a variable: an entry that was looked at    *)
(* loses its event, which the code does not read again before the next     *)
(* poll or select, and the scan is at the first entry that has one.        *)
(***************************************************************************)
EXTENDS Integers, Sequences, FiniteSets, SequencesExt

CONSTANTS
    Cli,        \* client processes
    Uid,        \* client -> its user ID
    NoUid,      \* uid of an entry that was never used, and of the listener
    NoCli,      \* no client at the other end
    NALLOC      \* entries by which an array grows

ASSUME OpenAssumption ==
    /\ IsFiniteSet(Cli) /\ NoCli \notin Cli /\ NALLOC \in Nat \ {0}
    /\ \A c \in Cli : Uid[c] # NoUid

VARIABLES
    prog,       \* "poll" or "select": which loop was linked
    spc,         \* where the server is in it
    client,     \* the client table
    pollfd,     \* poll: the first numfd entries of the array
    maxfd,      \* poll: its size; select: the highest descriptor
    allset,     \* select: descriptors of interest
    rset,       \* select: those that were ready
    maxi,       \* select: highest index in use
    peer,       \* descriptor of the server -> client at the other end
    backlog,    \* clients that wait to be accepted
    cst,        \* state of each client
    sent,       \* clients whose request is in the socket
    misnamed    \* a request was handled under a uid not of its client

listenfd == 0
FD == 1 .. Cardinality(Cli)

arrays == <<client, pollfd, maxfd, allset, maxi>>
server == <<spc, arrays, rset>>
osvars == <<prog, server, peer, backlog, cst, sent, misnamed>>

Unused == [fd |-> -1, uid |-> NoUid]
Entry(f) == [fd |-> f, rev |-> {}]

\* client_alloc
client_alloc(tab) == tab \o [n \in 1 .. NALLOC |-> Unused]

\* Index of the first entry with a descriptor.
IndexOf(tab, f) ==
    CHOOSE n \in 1 .. Len(tab) : tab[n].fd = f /\ \A m \in 1 .. n - 1 : tab[m].fd # f

Available(tab) == \E n \in 1 .. Len(tab) : tab[n].fd = -1

\* The index client_add returns, and the table it leaves.
AddIndex(tab) == IF Available(tab) THEN IndexOf(tab, -1) ELSE Len(tab) + 1

\* Variant: an entry that is used again keeps its uid.
client_add_OldUid(tab, f, u) ==
    LET room == IF Available(tab) THEN tab ELSE client_alloc(tab)
    IN  [room EXCEPT ![AddIndex(tab)] = [fd |-> f, uid |-> IF @.uid = NoUid THEN u ELSE @.uid]]

client_add(tab, f, u) ==
    LET room == IF Available(tab) THEN tab ELSE client_alloc(tab)
    IN  [room EXCEPT ![AddIndex(tab)] = [fd |-> f, uid |-> u]]

\* Variant: marks the entry with 0.
client_del_Zero(tab, f) == [tab EXCEPT ![IndexOf(tab, f)].fd = 0]

\* log_quit if there is no such entry; TablesAgree says that there is one.
client_del(tab, f) == [tab EXCEPT ![IndexOf(tab, f)].fd = -1]

\* Variant: the poll loop has no entry for listenfd in client[].
osInit_NoListener ==
    /\ prog \in {"poll", "select"}
    /\ spc = "loop"
    /\ client = <<>>
    /\ pollfd = IF prog = "poll" THEN <<Entry(listenfd)>> ELSE <<>>
    /\ maxfd = IF prog = "poll" THEN NALLOC ELSE listenfd
    /\ allset = IF prog = "poll" THEN {} ELSE {listenfd}
    /\ rset = {} /\ maxi = 0
    /\ peer = [f \in FD |-> NoCli]
    /\ backlog = <<>>
    /\ cst = [c \in Cli |-> "new"]
    /\ sent = {}
    /\ misnamed = FALSE

\* serv_listen, and client_add(listenfd, 0) in the poll loop only.
osInit ==
    /\ prog \in {"poll", "select"}
    /\ spc = "loop"
    /\ client = IF prog = "poll" THEN client_add(<<>>, listenfd, NoUid) ELSE <<>>
    /\ pollfd = IF prog = "poll" THEN <<Entry(listenfd)>> ELSE <<>>
    /\ maxfd = IF prog = "poll" THEN NALLOC ELSE listenfd
    /\ allset = IF prog = "poll" THEN {} ELSE {listenfd}
    /\ rset = {} /\ maxi = 0
    /\ peer = [f \in FD |-> NoCli]
    /\ backlog = <<>>
    /\ cst = [c \in Cli |-> "new"]
    /\ sent = {}
    /\ misnamed = FALSE

-----------------------------------------------------------------------------
(***************************************************************************)
(* Clients: csopen.                                                        *)
(***************************************************************************)
\* cli_conn
cli_conn(c) ==
    /\ cst[c] = "new" /\ spc # "down"
    /\ cst' = [cst EXCEPT ![c] = "idle"]
    /\ backlog' = Append(backlog, c)
    /\ UNCHANGED <<prog, server, peer, sent, misnamed>>

\* writev of the request, which may come before the server has accepted.
csopen(c) ==
    /\ cst[c] = "idle" /\ spc # "down"
    /\ cst' = [cst EXCEPT ![c] = "waiting"]
    /\ sent' = sent \cup {c}
    /\ UNCHANGED <<prog, server, peer, backlog, misnamed>>

\* recv_fd reads the descriptor or the error message.
recv_fd(c) ==
    /\ cst[c] = "answered"
    /\ cst' = [cst EXCEPT ![c] = "idle"]
    /\ UNCHANGED <<prog, server, peer, backlog, sent, misnamed>>

\* The client exits, or is killed while it waits.  A connection closed with
\* an answer unread is reset.
CloseClient(c) ==
    /\ cst[c] \in {"idle", "waiting", "answered"}
    /\ cst' = [cst EXCEPT ![c] = IF @ = "answered" THEN "reset" ELSE "closed"]
    /\ UNCHANGED <<prog, server, peer, backlog, sent, misnamed>>

-----------------------------------------------------------------------------
(***************************************************************************)
(* What both loops do.                                                     *)
(***************************************************************************)
Gone(c) == cst[c] \in {"closed", "reset"}

\* A read from the descriptor does not block; the other end is closed.
Readable(f) ==
    IF f = listenfd THEN backlog # <<>>
    ELSE peer[f] # NoCli /\ (peer[f] \in sent \/ Gone(peer[f]))

HungUp(f) == f # listenfd /\ peer[f] # NoCli /\ Gone(peer[f])

\* accept: the lowest descriptor that is free.
NewFd == CHOOSE f \in FD : peer[f] = NoCli /\ \A g \in FD : peer[g] = NoCli => f =< g

serv_accept ==
    /\ peer' = [peer EXCEPT ![NewFd] = Head(backlog)]
    /\ backlog' = Tail(backlog)

\* The connection cannot be accepted or the name of the client is too old:
\* log_sys.
AcceptFails ==
    /\ spc = "accept"
    /\ spc' = "down"
    /\ UNCHANGED <<prog, arrays, rset, peer, backlog, cst, sent, misnamed>>

\* handle_request: the answer, whatever it is.  If the client is gone, the
\* write raises SIGPIPE.
handle_request(f, u) ==
    LET c == peer[f] IN
    /\ sent' = sent \ {c}
    /\ misnamed' = (misnamed \/ u # Uid[c])
    /\ spc' = IF Gone(c) THEN "down" ELSE spc
    /\ cst' = IF cst[c] = "waiting" THEN [cst EXCEPT ![c] = "answered"] ELSE cst

\* close: the client process has ended, and a new one may take its place.
CloseFd(f) ==
    /\ peer' = [peer EXCEPT ![f] = NoCli]
    /\ cst' = [cst EXCEPT ![peer[f]] = "new"]
    /\ sent' = sent \ {peer[f]}

-----------------------------------------------------------------------------
(***************************************************************************)
(* loop.poll.c                                                             *)
(***************************************************************************)
numfd == Len(pollfd)

\* The entries the scan has still to look at, and the first of them.
PollLeft == {n \in 2 .. numfd : pollfd[n].rev # {}}
PollIndex == CHOOSE n \in PollLeft : \A m \in PollLeft : n =< m

\* The scan is over; poll returns when there is an event.
Poll ==
    /\ prog = "poll" /\ spc = "loop" /\ PollLeft = {}
    /\ \E n \in 1 .. numfd : Readable(pollfd[n].fd)
    /\ pollfd' = [n \in 1 .. numfd |->
                    [pollfd[n] EXCEPT !.rev =
                        {e \in {"in", "hup"} : IF e = "in" THEN Readable(pollfd[n].fd)
                                                           ELSE HungUp(pollfd[n].fd)}]]
    /\ spc' = IF Readable(listenfd) THEN "accept" ELSE "loop"
    /\ UNCHANGED <<prog, client, maxfd, allset, maxi, rset, peer, backlog, cst, sent, misnamed>>

\* Variant: the array is not enlarged.
PollAccept_NoGrow ==
    /\ prog = "poll" /\ spc = "accept"
    /\ serv_accept
    /\ client' = client_add(client, NewFd, Uid[Head(backlog)])
    /\ pollfd' = Append(pollfd, Entry(NewFd))
    /\ spc' = "loop"
    /\ UNCHANGED <<prog, maxfd, allset, maxi, rset, cst, sent, misnamed>>

\* serv_accept, client_add, grow_pollfd.
PollAccept ==
    /\ prog = "poll" /\ spc = "accept"
    /\ serv_accept
    /\ client' = client_add(client, NewFd, Uid[Head(backlog)])
    /\ maxfd' = IF numfd = maxfd THEN maxfd + NALLOC ELSE maxfd
    /\ pollfd' = Append(pollfd, Entry(NewFd))
    /\ spc' = "loop"
    /\ UNCHANGED <<prog, allset, maxi, rset, cst, sent, misnamed>>

\* The client closed the connection: the last entry takes its place and is
\* looked at next.
PollHungUp ==
    /\ prog = "poll" /\ spc = "loop" /\ PollLeft # {}
    /\ LET i == PollIndex
           f == pollfd[i].fd
       IN  /\ "hup" \in pollfd[i].rev \/ peer[f] \notin sent
           /\ client' = client_del(client, f)
           /\ CloseFd(f)
           /\ pollfd' = Front([pollfd EXCEPT ![i] = pollfd[numfd]])
    /\ UNCHANGED <<prog, spc, maxfd, allset, maxi, rset, backlog, misnamed>>

\* A request, handled under client[i].uid.
PollRequest ==
    /\ prog = "poll" /\ spc = "loop" /\ PollLeft # {}
    /\ LET i == PollIndex
           f == pollfd[i].fd
       IN  /\ "hup" \notin pollfd[i].rev /\ peer[f] \in sent
           /\ handle_request(f, client[i].uid)
           /\ pollfd' = [pollfd EXCEPT ![i].rev = {}]
    /\ UNCHANGED <<prog, client, maxfd, allset, maxi, rset, peer, backlog>>

-----------------------------------------------------------------------------
(***************************************************************************)
(* loop.select.c                                                           *)
(***************************************************************************)
SelectLeft == {n \in 1 .. maxi : client[n].fd \in rset}
SelectIndex == CHOOSE n \in SelectLeft : \A m \in SelectLeft : n =< m

Select ==
    /\ prog = "select" /\ spc = "loop" /\ SelectLeft = {}
    /\ LET ready == {f \in allset : f =< maxfd /\ Readable(f)}
       IN  /\ ready # {}
           /\ rset' = ready
           /\ spc' = IF listenfd \in ready THEN "accept" ELSE "loop"
    /\ UNCHANGED <<prog, arrays, peer, backlog, cst, sent, misnamed>>

\* Variant: the highest descriptor is not kept.
SelectAccept_NoMax ==
    /\ prog = "select" /\ spc = "accept"
    /\ serv_accept
    /\ client' = client_add(client, NewFd, Uid[Head(backlog)])
    /\ allset' = allset \cup {NewFd}
    /\ maxi' = IF AddIndex(client) > maxi THEN AddIndex(client) ELSE maxi
    /\ spc' = "loop" /\ rset' = {}
    /\ UNCHANGED <<prog, pollfd, maxfd, cst, sent, misnamed>>

\* A new client; the other descriptors wait for the next select.
SelectAccept ==
    /\ prog = "select" /\ spc = "accept"
    /\ serv_accept
    /\ client' = client_add(client, NewFd, Uid[Head(backlog)])
    /\ allset' = allset \cup {NewFd}
    /\ maxfd' = IF NewFd > maxfd THEN NewFd ELSE maxfd
    /\ maxi' = IF AddIndex(client) > maxi THEN AddIndex(client) ELSE maxi
    /\ spc' = "loop" /\ rset' = {}
    /\ UNCHANGED <<prog, pollfd, cst, sent, misnamed>>

\* read returns 0: the client closed the connection.
SelectHungUp ==
    /\ prog = "select" /\ spc = "loop" /\ SelectLeft # {}
    /\ LET f == client[SelectIndex].fd
       IN  /\ peer[f] \notin sent
           /\ client' = client_del(client, f)
           /\ allset' = allset \ {f}
           /\ CloseFd(f)
           /\ rset' = rset \ {f}
    /\ UNCHANGED <<prog, spc, pollfd, maxfd, maxi, backlog, misnamed>>

\* read fails because the connection was reset, on systems that say so:
\* log_sys.
SelectReadError ==
    /\ prog = "select" /\ spc = "loop" /\ SelectLeft # {}
    /\ cst[peer[client[SelectIndex].fd]] = "reset"
    /\ spc' = "down"
    /\ UNCHANGED <<prog, arrays, rset, peer, backlog, cst, sent, misnamed>>

SelectRequest ==
    /\ prog = "select" /\ spc = "loop" /\ SelectLeft # {}
    /\ LET f == client[SelectIndex].fd
       IN  /\ peer[f] \in sent
           /\ handle_request(f, client[SelectIndex].uid)
           /\ rset' = rset \ {f}
    /\ UNCHANGED <<prog, arrays, peer, backlog>>

-----------------------------------------------------------------------------
loop ==
    \/ Poll \/ PollAccept \/ PollHungUp \/ PollRequest
    \/ Select \/ SelectAccept \/ SelectHungUp \/ SelectRequest

osNext ==
    \/ loop \/ AcceptFails \/ SelectReadError
    \/ \E c \in Cli : cli_conn(c) \/ csopen(c) \/ recv_fd(c) \/ CloseClient(c)

\* The kernel schedules the server.
osSpec == osInit /\ [][osNext]_osvars /\ WF_osvars(loop)

-----------------------------------------------------------------------------
Connected == {f \in FD : peer[f] # NoCli}
Used == {n \in 1 .. Len(client) : client[n].fd # -1}

\* Types.
osTypeOK ==
    /\ prog \in {"poll", "select"} /\ spc \in {"loop", "accept", "down"}
    /\ maxi \in Nat /\ maxfd \in Nat
    /\ \A n \in 1 .. Len(client) : client[n].fd \in FD \cup {-1} \cup (IF prog = "poll" THEN {listenfd} ELSE {})
    /\ \A n \in 1 .. numfd : pollfd[n].fd \in FD \cup {listenfd} /\ pollfd[n].rev \subseteq {"in", "hup"}
    /\ rset \subseteq allset \cup FD /\ allset \subseteq FD \cup {listenfd}
    /\ peer \in [FD -> Cli \cup {NoCli}]
    /\ cst \in [Cli -> {"new", "idle", "waiting", "answered", "closed", "reset"}]
    /\ sent \subseteq Cli

\* Every connection has one entry of client[] and is watched: it has one
\* entry of pollfd[], which stays within the array, or is in allset with its
\* descriptor and its index below the maxima.  So client_del always finds its
\* entry, and a descriptor number used again is never taken for the old one.
TablesAgree ==
    LET watched == Connected \cup {listenfd}
    IN  IF prog = "poll"
        THEN /\ {client[n].fd : n \in Used} = watched
             /\ {pollfd[n].fd : n \in 1 .. numfd} = watched
             /\ Cardinality(Used) = Cardinality(watched)
             /\ numfd = Cardinality(watched) /\ numfd =< maxfd
        ELSE /\ {client[n].fd : n \in Used} = Connected
             /\ Cardinality(Used) = Cardinality(Connected)
             /\ allset = watched
             /\ \A f \in watched : f =< maxfd
             /\ \A n \in Used : n =< maxi

\* The entry client[i] whose uid is read in a scan is inside the array and
\* was filled in by a client_add for a client.
EntryFilled ==
    \A n \in PollLeft \cup SelectLeft : n =< Len(client) /\ client[n].uid # NoUid

\* In the select loop a request is handled under the uid of the client that
\* sent it, however entries and descriptors are used again.
SelectUid == prog = "select" => ~misnamed

\* The same of the poll loop, which takes the uid of client[i] for the
\* connection pollfd[i].
PollUid == prog = "poll" => ~misnamed

\* A client that waits for its answer gets it, unless it is killed or the
\* server goes down: neither loop starves a client.
Answered == \A c \in Cli : cst[c] = "waiting" ~> cst[c] # "waiting" \/ spc = "down"

\* The descriptor of a client that has gone is closed, unless the server goes
\* down.
Released == \A c \in Cli : Gone(c) ~> ~Gone(c) \/ spc = "down"

=============================================================================
