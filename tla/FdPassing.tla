----------------------------- MODULE FdPassing -----------------------------
(***************************************************************************)
(* The open server that a client starts for itself (ipc2/open.fe and       *)
(* ipc2/opend.fe) and the protocol by which descriptors are passed:        *)
(* send_fd, send_err and recv_fd of lib, and send_fd and recv_ufd of ipc2, *)
(* which pass credentials as well.  A stream pipe is a sequence of bytes;  *)
(* a byte is text, null or status, and knows the request it answers.       *)
(*                                                                         *)
(* A request is abstracted to what becomes of it: the file is opened, it   *)
(* cannot be opened, or buf_args and cli_args refuse it.                   *)
(***************************************************************************)
EXTENDS Integers, Sequences

CONSTANTS
    FPMAXLINE,  \* MAXLINE: the size of the buffers
    NReq        \* bound: requests of the client

ASSUME FdAssumption == FPMAXLINE \in Nat /\ FPMAXLINE >= 3 /\ NReq \in Nat

\* "many" has more words than buf_args takes, "long" does not fit the buffer.
Kinds == {"good", "missing", "usage", "many", "long"}

VARIABLES
    fpprog,     \* "recv_fd" or "recv_ufd"
    creq,       \* the requests so far
    cat,        \* the client: "idle", "recv", or "dumped"
    got,        \* what csopen_fe returned for each request
    printed,    \* text passed to userfunc
    uid,        \* *uidptr
    c2s, s2c,   \* the stream pipe in both directions
    sat,        \* what the server is about to send
    errmsg      \* its error message

fpvars == <<fpprog, creq, cat, got, printed, uid, c2s, s2c, sat, errmsg>>

NoUid0 == "none"
Idle == [do |-> "read", id |-> 0]

Byte(b, id) == [b |-> b, n |-> 0, id |-> id, fd |-> FALSE, uid |-> NoUid0]
Text(m) == [i \in 1 .. m.len |-> Byte("t", m.id)]

fpInitOf(progs) ==
    /\ fpprog \in progs
    /\ creq = << >> /\ cat = "idle" /\ got = << >> /\ printed = << >> /\ uid = NoUid0
    /\ c2s = << >> /\ s2c = << >> /\ sat = Idle
    /\ errmsg = [id |-> 0, len |-> 0]

fpInit == fpInitOf({"recv_fd", "recv_ufd"})

(***************************************************************************)
(* The client.  The first call starts the server.                          *)
(***************************************************************************)
\* A request that does not fit the server's buffer reaches it in two reads.
csopen_fe(k) ==
    /\ cat = "idle" /\ Len(creq) < NReq
    /\ creq' = Append(creq, k) /\ cat' = "recv"
    /\ LET id == Len(creq) + 1 IN
       c2s' = c2s \o IF k = "long" THEN <<[id |-> id, kind |-> "no null"], [id |-> id, kind |-> "usage"]>>
                     ELSE <<[id |-> id, kind |-> k]>>
    /\ printed' = << >>
    /\ UNCHANGED <<fpprog, got, uid, s2c, sat, errmsg>>

\* external: what one recvmsg returns: as much as there is and fits, but
\* nothing behind the bytes that a descriptor came with.
Received ==
    LET ends == {i \in DOMAIN s2c : s2c[i].fd} \cup {Len(s2c)}
        end == CHOOSE i \in ends : \A j \in ends : i <= j
    IN  SubSeq(s2c, 1, IF end <= FPMAXLINE THEN end ELSE FPMAXLINE)

Nulls(s) == {i \in DOMAIN s : s[i].b = "0"}

\* The loop of recv_fd and recv_ufd for one recvmsg: text is passed on; the
\* null byte must be next to last.
recv_fd_fe ==
    /\ cat = "recv" /\ s2c # << >>
    /\ LET buf == Received
           nr == Len(buf)
           null == CHOOSE i \in Nulls(buf) : \A j \in Nulls(buf) : i <= j
       IN  /\ s2c' = SubSeq(s2c, nr + 1, Len(s2c))
           /\ IF Nulls(buf) = {}
              THEN printed' = printed \o buf /\ UNCHANGED <<cat, got, uid>>
              ELSE IF null # nr - 1
              THEN cat' = "dumped" /\ UNCHANGED <<got, printed, uid>>
              ELSE /\ printed' = printed \o SubSeq(buf, 1, nr - 2)
                   /\ got' = Append(got, [id |-> buf[nr].id, status |-> buf[nr].n])
                   /\ uid' = IF buf[nr].fd /\ fpprog = "recv_ufd" THEN buf[nr].uid ELSE uid
                   /\ cat' = "idle"
    /\ UNCHANGED <<fpprog, creq, c2s, sat, errmsg>>

(***************************************************************************)
(* The server.                                                             *)
(***************************************************************************)
\* A status is a byte: 0 for a descriptor, and never 0 for an error.
Status(fd) == IF fd >= 0 THEN 0 ELSE IF (-fd) % 256 = 0 THEN 1 ELSE (-fd) % 256
ErrCode(errcode) == IF errcode >= 0 THEN -1 ELSE errcode

\* A message that fills the buffer.
snprintf_Variant(id) == {[id |-> id, len |-> n] : n \in 1 .. FPMAXLINE - 1}

\* snprintf(errmsg, MAXLINE-1, ...): a shorter string, with its null.
snprintf(id) == {[id |-> id, len |-> n] : n \in 1 .. FPMAXLINE - 2}

\* cli_args leaves its usage message; buf_args refuses too many words before
\* it calls cli_args, and leaves the message that is there.
cli_args(id) == [id |-> id, len |-> 1]
buf_args(r) == {IF r.kind = "many" THEN errmsg ELSE cli_args(r.id)}

\* The messages a request may leave.
Messages(r) == IF r.kind \in {"missing", "no null"} THEN snprintf(r.id) ELSE buf_args(r)

handle_request_fe(r) ==
    IF r.kind = "good" THEN sat' = [do |-> "send_fd", id |-> r.id] /\ UNCHANGED errmsg
    ELSE errmsg' \in Messages(r) /\ sat' = [do |-> "writen", id |-> r.id]

\* main: what one read returns is a request.
ServerMain ==
    /\ sat = Idle /\ c2s # << >>
    /\ c2s' = Tail(c2s)
    /\ handle_request_fe(Head(c2s))
    /\ UNCHANGED <<fpprog, creq, cat, got, printed, uid, s2c>>

\* send_err: the message, if any, and then the status.
send_err ==
    /\ sat.do = "writen"
    /\ s2c' = s2c \o Text(errmsg)
    /\ sat' = [do |-> "send_fd -1", id |-> sat.id]
    /\ UNCHANGED <<fpprog, creq, cat, got, printed, uid, c2s, errmsg>>

\* The null byte, and the status with which a descriptor may come.
FinalBytes(id, fd) ==
    <<Byte("0", id), [Byte("status", id) EXCEPT !.n = Status(fd), !.fd = (fd >= 0)]>>

\* With recv_ufd the credentials of the server come with the descriptor.
send_fd(fd) ==
    /\ s2c' = s2c \o [FinalBytes(sat.id, fd) EXCEPT
                         ![2].uid = IF fd >= 0 /\ fpprog = "recv_ufd" THEN "server" ELSE NoUid0]
    /\ sat' = Idle
    /\ UNCHANGED <<fpprog, creq, cat, got, printed, uid, c2s, errmsg>>

SendFd == sat.do = "send_fd" /\ send_fd(3)
SendStatus == sat.do = "send_fd -1" /\ send_fd(ErrCode(-1))

fpNext ==
    \/ \E k \in Kinds : csopen_fe(k)
    \/ recv_fd_fe \/ ServerMain \/ send_err \/ SendFd \/ SendStatus

fpSpec == fpInit /\ [][fpNext]_fpvars

fpTypeOK ==
    /\ fpprog \in {"recv_fd", "recv_ufd"} /\ cat \in {"idle", "recv", "dumped"}
    /\ Len(creq) <= NReq /\ Len(got) <= Len(creq)
    /\ errmsg.len \in 0 .. FPMAXLINE - 1

\* Each call of csopen_fe gets the answer to its own request, a descriptor
\* exactly when the file could be opened, with the uid of the server if that
\* is asked for; the text is the message, not of another request, and the
\* client does not take an answer for a format error, however writes and
\* reads are cut.  (Unless a request was longer than the server's buffer,
\* which has two answers, or the message is the one buf_args did not set.)
AnswerIsForRequest ==
    (\A i \in DOMAIN creq : creq[i] # "long") =>
        /\ cat # "dumped"
        /\ \A i \in DOMAIN got : got[i].id = i /\ (got[i].status = 0 <=> creq[i] = "good")
        /\ \A i \in DOMAIN printed : creq[Len(creq)] # "many" => printed[i].b = "t" /\ printed[i].id = Len(creq)
        /\ fpprog = "recv_ufd" /\ (\E i \in DOMAIN got : got[i].status = 0) => uid = "server"
=============================================================================
