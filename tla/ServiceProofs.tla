--------------------------- MODULE ServiceProofs ----------------------------
(***************************************************************************)
(* Proofs about two services, for any number of clients and requests and   *)
(* for messages of any length: AnswerIsForRequest (FdPassing) and          *)
(* WholeAnswer (Uptime).                                                   *)
(***************************************************************************)
EXTENDS FdPassing, Uptime, TLAPS

-----------------------------------------------------------------------------
(***************************************************************************)
(* FdPassing: one request is under way at a time.                          *)
(***************************************************************************)
\* A byte of the stream pipe, and an error message.
FdByte == [b : {"t", "0", "status"}, n : Nat, id : Nat, fd : BOOLEAN, uid : {NoUid0, "server"}]
Message == [id : Nat, len : Nat]

\* The request that is being answered; whether its message is its own.
Request == Len(creq)
Own == creq[Len(creq)] # "many"
Good == creq[Len(creq)] = "good"

\* Text for the request, and a whole answer to it.
IsText(x) == x.b = "t" /\ ~x.fd /\ (Own => x.id = Request)
AllText(s) == s \in Seq(FdByte) /\ \A i \in 1 .. Len(s) : IsText(s[i])
Final(x) ==
    /\ x.b = "status" /\ x.id = Request /\ (x.n = 0 <=> Good) /\ (x.fd <=> Good)
    /\ Good /\ fpprog = "recv_ufd" => x.uid = "server"
WholeReply(s) ==
    /\ s \in Seq(FdByte) /\ Len(s) \in 2 .. FPMAXLINE
    /\ \A i \in 1 .. Len(s) - 2 : IsText(s[i])
    /\ s[Len(s) - 1].b = "0" /\ ~s[Len(s) - 1].fd /\ Final(s[Len(s)])

(***************************************************************************)
(* The inductive invariant: where the one request under way is.            *)
(***************************************************************************)
Asked == /\ c2s = <<[id |-> Request, kind |-> creq[Request]]>> /\ sat = Idle
         /\ s2c = << >> /\ printed = << >>
Refused == /\ c2s = << >> /\ sat = [do |-> "writen", id |-> Request] /\ ~Good
           /\ (Own => errmsg.id = Request) /\ s2c = << >> /\ printed = << >>
Said == /\ c2s = << >> /\ sat = [do |-> "send_fd -1", id |-> Request] /\ ~Good
        /\ AllText(s2c) /\ Len(s2c) <= FPMAXLINE - 2
Opened == /\ c2s = << >> /\ sat = [do |-> "send_fd", id |-> Request] /\ Good
          /\ s2c = << >>
Finished == c2s = << >> /\ sat = Idle /\ WholeReply(s2c)

\* The types.
FdTypes ==
    /\ fpprog \in {"recv_fd", "recv_ufd"} /\ creq \in Seq(Kinds)
    /\ got \in Seq([id : Nat, status : Nat]) /\ printed \in Seq(FdByte)
    /\ errmsg \in Message /\ errmsg.len <= FPMAXLINE - 2

\* The answers so far are the right ones.
Answers ==
    /\ \A i \in 1 .. Len(got) : got[i].id = i /\ (got[i].status = 0 <=> creq[i] = "good")
    /\ fpprog = "recv_ufd" /\ (\E i \in 1 .. Len(got) : got[i].status = 0) => uid = "server"

\* No request is under way, or one.
FdPlaces ==
    \/ /\ cat = "idle" /\ Len(got) = Request
       /\ c2s = << >> /\ sat = Idle /\ s2c = << >>
    \/ /\ cat = "recv" /\ Request > 0 /\ Len(got) = Request - 1
       /\ Asked \/ Refused \/ Said \/ Opened \/ Finished

\* The inductive invariant, for requests that fit the buffer.
NoLong == \A i \in DOMAIN creq : creq[i] # "long"
FdInv == creq \in Seq(Kinds) /\ (NoLong => FdTypes /\ Answers /\ AllText(printed) /\ FdPlaces)

\* A message as text.
LEMMA TextIs ==
    ASSUME NEW m \in Message
    PROVE  /\ Text(m) \in Seq(FdByte) /\ Len(Text(m)) = m.len
           /\ \A i \in 1 .. m.len : /\ Text(m)[i].b = "t" /\ ~Text(m)[i].fd /\ Text(m)[i].id = m.id
<1>1. m.len \in Nat /\ m.id \in Nat
  BY DEF Message
<1>2. Byte("t", m.id) \in FdByte /\ Byte("t", m.id).b = "t" /\ ~Byte("t", m.id).fd /\ Byte("t", m.id).id = m.id
  BY <1>1 DEF Byte, FdByte
<1>3. [i \in 1 .. m.len |-> Byte("t", m.id)] \in Seq(FdByte)
  BY <1>1, <1>2
<1>4. /\ Len([i \in 1 .. m.len |-> Byte("t", m.id)]) = m.len
      /\ \A i \in 1 .. m.len : [j \in 1 .. m.len |-> Byte("t", m.id)][i] = Byte("t", m.id)
  BY <1>1
<1> QED BY Zenon, <1>2, <1>3, <1>4 DEF Text

\* One recvmsg takes all there is when it fits and only the last byte may have
\* come with a descriptor.
LEMMA ReceivedIsAll ==
    ASSUME s2c \in Seq(FdByte), Len(s2c) \in 1 .. FPMAXLINE, \A i \in 1 .. Len(s2c) - 1 : ~s2c[i].fd
    PROVE  Received = s2c
<1> DEFINE ends == {i \in DOMAIN s2c : s2c[i].fd} \cup {Len(s2c)}
           end == CHOOSE i \in ends : \A j \in ends : i <= j
<1>1. ends = {Len(s2c)}
  <2>1. ASSUME NEW i \in DOMAIN s2c, s2c[i].fd PROVE i = Len(s2c)
    BY <2>1
  <2> QED BY Zenon, <2>1
<1>2. end = Len(s2c)
  <2>1. Len(s2c) <= Len(s2c)
    OBVIOUS
  <2> QED BY Zenon, <1>1, <2>1
<1>3. Received = SubSeq(s2c, 1, IF end <= FPMAXLINE THEN end ELSE FPMAXLINE)
  BY Zenon DEF Received
<1> HIDE DEF end
<1>4. (IF end <= FPMAXLINE THEN end ELSE FPMAXLINE) = Len(s2c)
  BY <1>2
<1>5. SubSeq(s2c, 1, Len(s2c)) = s2c
  OBVIOUS
<1> QED BY Zenon, <1>3, <1>4, <1>5

\* Behind the end there is nothing.
LEMMA NothingLeft ==
    ASSUME NEW S, NEW s \in Seq(S)
    PROVE  SubSeq(s, Len(s) + 1, Len(s)) = << >>
  OBVIOUS

\* The text of two messages.
LEMMA TextJoined ==
    ASSUME NEW s, NEW t, AllText(s), AllText(t)
    PROVE  AllText(s \o t)
<1>1. s \in Seq(FdByte) /\ t \in Seq(FdByte)
  BY Zenon DEF AllText
<1>2. ASSUME NEW S, NEW u \in Seq(S), NEW v \in Seq(S), NEW i \in 1 .. Len(u \o v)
      PROVE  \/ i \in 1 .. Len(u) /\ (u \o v)[i] = u[i]
             \/ i - Len(u) \in 1 .. Len(v) /\ (u \o v)[i] = v[i - Len(u)]
  OBVIOUS
<1>3. ASSUME NEW S, NEW u \in Seq(S), NEW v \in Seq(S) PROVE u \o v \in Seq(S)
  OBVIOUS
<1>4. s \o t \in Seq(FdByte)
  BY Zenon, <1>1, <1>3
<1>5. ASSUME NEW i \in 1 .. Len(s \o t) PROVE IsText((s \o t)[i])
  <2>1. \/ i \in 1 .. Len(s) /\ (s \o t)[i] = s[i]
        \/ i - Len(s) \in 1 .. Len(t) /\ (s \o t)[i] = t[i - Len(s)]
    BY Zenon, <1>1, <1>2
  <2> QED BY Zenon, <2>1 DEF AllText
<1> QED BY Zenon, <1>4, <1>5 DEF AllText

(***************************************************************************)
(* The steps.                                                              *)
(***************************************************************************)
\* No request was too long before either.
LEMMA NoLongBefore ==
    ASSUME creq \in Seq(Kinds), NEW k \in Kinds, creq' = Append(creq, k), NoLong'
    PROVE  /\ NoLong /\ k # "long" /\ creq' \in Seq(Kinds) /\ Len(creq') = Len(creq) + 1
           /\ creq'[Len(creq')] = k /\ \A i \in 1 .. Len(creq) : creq'[i] = creq[i]
<1>1. /\ creq' \in Seq(Kinds) /\ Len(creq') = Len(creq) + 1 /\ creq'[Len(creq) + 1] = k
      /\ \A i \in 1 .. Len(creq) : creq'[i] = creq[i]
  OBVIOUS
<1>2. DOMAIN creq = 1 .. Len(creq) /\ DOMAIN creq' = 1 .. Len(creq) + 1 /\ Len(creq) \in Nat
  BY <1>1
<1>3. DOMAIN creq \subseteq DOMAIN creq' /\ Len(creq) + 1 \in DOMAIN creq'
  BY <1>2
<1> QED BY Zenon, <1>1, <1>2, <1>3 DEF NoLong

\* The request does not change but in csopen_fe.
LEMMA SameRequest ==
    ASSUME UNCHANGED <<creq, fpprog>>
    PROVE  /\ Request' = Request /\ (Own' <=> Own) /\ (Good' <=> Good)
           /\ \A s : AllText(s)' <=> AllText(s)
           /\ \A s : WholeReply(s)' <=> WholeReply(s)
  BY ZenonT(40) DEF Request, Own, Good, AllText, IsText, WholeReply, Final

\* csopen_fe: a request, and nothing else is under way.
LEMMA CallKeeps ==
    ASSUME FdInv, NEW k \in Kinds, csopen_fe(k)
    PROVE  FdInv'
<1>1. creq \in Seq(Kinds) /\ creq' = Append(creq, k) /\ creq' \in Seq(Kinds) /\ Len(creq) \in Nat
  <2>1. creq \in Seq(Kinds) /\ creq' = Append(creq, k)
    BY Zenon DEF FdInv, csopen_fe
  <2> QED BY <2>1
<1>2. SUFFICES ASSUME NoLong' PROVE (FdTypes /\ Answers /\ AllText(printed) /\ FdPlaces)'
  BY Zenon, <1>1 DEF FdInv
<1>3. /\ NoLong /\ k # "long" /\ Len(creq') = Len(creq) + 1 /\ creq'[Len(creq')] = k
      /\ \A i \in 1 .. Len(creq) : creq'[i] = creq[i]
  BY Zenon, <1>1, <1>2, NoLongBefore
<1>4. FdTypes /\ Answers /\ FdPlaces
  BY Zenon, <1>3 DEF FdInv
<1>5. /\ cat = "idle" /\ cat' = "recv" /\ printed' = << >>
      /\ UNCHANGED <<fpprog, got, uid, s2c, sat, errmsg>>
  BY Zenon DEF csopen_fe
<1>6. Len(got) = Len(creq) /\ c2s = << >> /\ sat = Idle /\ s2c = << >>
  BY <1>4, <1>5 DEF FdPlaces, Request
<1>7. c2s' = <<[id |-> Len(creq) + 1, kind |-> k]>>
  <2>1. c2s' = c2s \o <<[id |-> Len(creq) + 1, kind |-> k]>>
    BY Zenon, <1>3 DEF csopen_fe
  <2>2. ASSUME NEW x PROVE << >> \o <<x>> = <<x>>
    OBVIOUS
  <2> QED BY Zenon, <1>6, <2>1, <2>2
<1>8. << >> \in Seq(FdByte) /\ Len(<< >>) = 0
  OBVIOUS
<1>9. FdTypes'
  BY Zenon, <1>1, <1>4, <1>5, <1>8 DEF FdTypes
<1>10. Answers'
  BY Zenon, <1>3, <1>4, <1>5, <1>6 DEF Answers
<1>11. AllText(printed)'
  <2>1. 1 .. Len(<< >>) = {}
    BY <1>8
  <2> QED BY Zenon, <1>5, <1>8, <2>1 DEF AllText
<1>12. Request' = Len(creq) + 1 /\ Request' > 0 /\ Len(got') = Request' - 1
  BY <1>1, <1>3, <1>5, <1>6 DEF Request
<1>13. Asked'
  BY Zenon, <1>3, <1>5, <1>6, <1>7, <1>12 DEF Asked, Request
<1>14. FdPlaces'
  BY Zenon, <1>5, <1>12, <1>13 DEF FdPlaces
<1> QED BY Zenon, <1>9, <1>10, <1>11, <1>14

\* What the server is about to do.
LEMMA Dos ==
    /\ Idle.do = "read"
    /\ \A i : /\ [do |-> "writen", id |-> i].do = "writen" /\ [do |-> "send_fd", id |-> i].do = "send_fd"
              /\ [do |-> "send_fd -1", id |-> i].do = "send_fd -1"
              /\ [do |-> "writen", id |-> i].id = i
              /\ [do |-> "send_fd", id |-> i].id = i /\ [do |-> "send_fd -1", id |-> i].id = i
<1>1. Idle.do = "read"
  BY DEF Idle
<1>2. ASSUME NEW i
      PROVE  /\ [do |-> "writen", id |-> i].do = "writen" /\ [do |-> "send_fd", id |-> i].do = "send_fd"
             /\ [do |-> "send_fd -1", id |-> i].do = "send_fd -1"
             /\ [do |-> "writen", id |-> i].id = i
              /\ [do |-> "send_fd", id |-> i].id = i /\ [do |-> "send_fd -1", id |-> i].id = i
  OBVIOUS
<1> QED BY Zenon, <1>1, <1>2

\* The last two bytes of an answer.
Ends(F, id, fd, u) ==
    /\ F \in Seq(FdByte) /\ Len(F) = 2 /\ F[1].b = "0" /\ ~F[1].fd
    /\ F[2].b = "status" /\ F[2].id = id /\ (F[2].n = 0 <=> fd >= 0)
    /\ (F[2].fd <=> fd >= 0) /\ F[2].uid = u

\* The two bytes that send_fd sends.
LEMMA FinalIs ==
    ASSUME NEW id \in Nat, NEW fd \in {3, -1}, NEW u \in {NoUid0, "server"}
    PROVE  Ends([FinalBytes(id, fd) EXCEPT ![2].uid = u], id, fd, u)
<1> DEFINE x == Byte("0", id)
           y == [Byte("status", id) EXCEPT !.n = Status(fd), !.fd = (fd >= 0)]
           z == [y EXCEPT !.uid = u]
<1>1. Status(fd) \in Nat /\ (Status(fd) = 0 <=> fd >= 0) /\ (fd >= 0) \in BOOLEAN
  BY DEF Status
<1>2. x \in FdByte /\ x.b = "0" /\ ~x.fd
  BY DEF Byte, FdByte, NoUid0
<1>3. /\ z \in FdByte /\ z.b = "status" /\ z.id = id /\ (z.n = 0 <=> fd >= 0) /\ (z.fd <=> fd >= 0) /\ z.uid = u
  BY Zenon, <1>1 DEF Byte, FdByte, NoUid0
<1>4. [FinalBytes(id, fd) EXCEPT ![2].uid = u] = <<x, z>>
  <2>1. FinalBytes(id, fd) = <<x, y>>
    BY Zenon DEF FinalBytes
  <2> HIDE DEF x, y
  <2>2. [<<x, y>> EXCEPT ![2].uid = u] = <<x, z>>
    OBVIOUS
  <2> QED BY Zenon, <2>1, <2>2
<1> HIDE DEF x, z
<1>5. <<x, z>> \in Seq(FdByte) /\ Len(<<x, z>>) = 2 /\ <<x, z>>[1] = x /\ <<x, z>>[2] = z
  BY <1>2, <1>3
<1> QED BY Zenon, <1>2, <1>3, <1>4, <1>5 DEF Ends

\* Text and these two bytes are a whole answer.
LEMMA WholeIs ==
    ASSUME NEW s, AllText(s), Len(s) <= FPMAXLINE - 2, NEW F \in Seq(FdByte), Len(F) = 2,
           F[1].b = "0", ~F[1].fd, Final(F[2])
    PROVE  WholeReply(s \o F)
<1>1. s \in Seq(FdByte) /\ \A i \in 1 .. Len(s) : IsText(s[i])
  BY Zenon DEF AllText
<1>2. ASSUME NEW S, NEW p \in Seq(S), NEW q \in Seq(S)
      PROVE  p \o q \in Seq(S) /\ Len(p \o q) = Len(p) + Len(q)
  OBVIOUS
<1>3. ASSUME NEW S, NEW p \in Seq(S), NEW q \in Seq(S), NEW i \in 1 .. Len(p)
      PROVE  (p \o q)[i] = p[i]
  OBVIOUS
<1>4. ASSUME NEW S, NEW p \in Seq(S), NEW q \in Seq(S), NEW i \in 1 .. Len(q)
      PROVE  (p \o q)[Len(p) + i] = q[i]
  OBVIOUS
<1>5. s \o F \in Seq(FdByte) /\ Len(s \o F) = Len(s) + Len(F)
  BY Zenon, <1>1, <1>2
<1>6. \A i \in 1 .. Len(s) : (s \o F)[i] = s[i]
  BY Zenon, <1>1, <1>3
<1>7. 1 \in 1 .. Len(F) /\ 2 \in 1 .. Len(F) /\ Len(s) \in Nat
  BY <1>1
<1>8. \A i \in 1 .. Len(F) : (s \o F)[Len(s) + i] = F[i]
  BY ONLY Zenon, F \in Seq(FdByte), <1>1, <1>4
<1> DEFINE m == Len(s \o F)
<1>9. /\ m \in 2 .. FPMAXLINE /\ m - 2 = Len(s) /\ m - 1 = Len(s) + 1 /\ m = Len(s) + 2
  BY <1>5, <1>7, FdAssumption
<1>10. (s \o F)[m - 1] = F[1] /\ (s \o F)[m] = F[2]
  <2>1. (s \o F)[Len(s) + 1] = F[1] /\ (s \o F)[Len(s) + 2] = F[2]
    BY Zenon, <1>7, <1>8
  <2> QED BY Zenon, <1>9, <2>1
<1>11. m \in 2 .. FPMAXLINE /\ \A i \in 1 .. m - 2 : IsText((s \o F)[i])
  BY Zenon, <1>1, <1>6, <1>9
<1> QED BY Zenon, <1>5, <1>10, <1>11 DEF WholeReply

\* A step of the server: what the client has is the same.
LEMMA ServerKeeps ==
    ASSUME FdInv, ServerMain \/ send_err \/ SendFd \/ SendStatus
    PROVE  FdInv'
<1>1. creq \in Seq(Kinds) /\ UNCHANGED <<fpprog, creq, cat, got, printed, uid>>
  BY Zenon DEF FdInv, ServerMain, send_err, SendFd, SendStatus, send_fd
<1>2. SUFFICES ASSUME NoLong PROVE (FdTypes /\ Answers /\ AllText(printed) /\ FdPlaces)'
  BY Zenon, <1>1 DEF FdInv, NoLong
<1>3. FdTypes /\ Answers /\ AllText(printed) /\ FdPlaces
  BY Zenon, <1>2 DEF FdInv
<1>4. /\ Request' = Request /\ (Own' <=> Own) /\ (Good' <=> Good) /\ creq'[Request'] = creq[Request]
      /\ \A s : AllText(s)' <=> AllText(s)
      /\ \A s : WholeReply(s)' <=> WholeReply(s)
  BY Zenon, <1>1, SameRequest
<1>5. Answers' /\ AllText(printed)'
  BY Zenon, <1>1, <1>3, <1>4 DEF Answers, AllText, IsText, Own, Request
<1>6. ASSUME errmsg' \in Message, errmsg'.len <= FPMAXLINE - 2 PROVE FdTypes'
  BY Zenon, <1>1, <1>3, <1>6 DEF FdTypes
<1>7. errmsg \in Message /\ errmsg.len <= FPMAXLINE - 2 /\ Request \in Nat
  BY <1>1, <1>3 DEF FdTypes, Request
<1>9. ASSUME NEW t, AllText(t), Len(t) <= FPMAXLINE - 2, s2c = t, cat = "recv", Request > 0, Len(got) = Request - 1,
             NEW fd \in {3, -1}, fd >= 0 <=> Good, sat.id = Request, c2s = << >>, send_fd(fd)
      PROVE  (FdTypes /\ Answers /\ AllText(printed) /\ FdPlaces)'
  <2> DEFINE u == IF fd >= 0 /\ fpprog = "recv_ufd" THEN "server" ELSE NoUid0
             F == [FinalBytes(Request, fd) EXCEPT ![2].uid = u]
  <2>1. s2c' = t \o F /\ sat' = Idle /\ UNCHANGED <<c2s, errmsg>>
    BY Zenon, <1>9 DEF send_fd
  <2>2. u \in {NoUid0, "server"} /\ (fd >= 0 /\ fpprog = "recv_ufd" => u = "server")
    BY Zenon
  <2> HIDE DEF u
  <2>0. Ends(F, Request, fd, u)
    BY Zenon, <1>7, <1>9, <2>2, FinalIs
  <2> HIDE DEF F
  <2>3. /\ F \in Seq(FdByte) /\ Len(F) = 2 /\ F[1].b = "0" /\ ~F[1].fd
        /\ F[2].b = "status" /\ F[2].id = Request /\ (F[2].n = 0 <=> fd >= 0) /\ (F[2].fd <=> fd >= 0) /\ F[2].uid = u
    BY Zenon, <2>0 DEF Ends
  <2>4. Final(F[2])
    BY Zenon, <1>9, <2>2, <2>3 DEF Final
  <2>5. WholeReply(t \o F)
    BY Zenon, <1>9, <2>3, <2>4, WholeIs
  <2>6. WholeReply(s2c)'
    BY Zenon, <1>1, <2>1, <2>5 DEF WholeReply, IsText, Own, Good, Request, Final
  <2>7. FdPlaces'
    BY Zenon, <1>1, <1>4, <1>9, <2>1, <2>6 DEF FdPlaces, Finished
  <2> QED BY Zenon, <1>5, <1>6, <1>7, <2>1, <2>7
<1>10. CASE ServerMain
  <2>1. /\ sat = Idle /\ c2s # << >> /\ c2s' = Tail(c2s) /\ handle_request_fe(Head(c2s)) /\ UNCHANGED s2c
    BY Zenon, <1>10 DEF ServerMain
  <2>2. cat = "recv" /\ Request > 0 /\ Len(got) = Request - 1 /\ Asked
    BY Zenon, <1>3, <2>1, Dos DEF FdPlaces, Refused, Said, Opened, Finished
  <2> DEFINE r == [id |-> Request, kind |-> creq[Request]]
  <2>3. Head(c2s) = r /\ c2s' = << >>
    BY <2>1, <2>2 DEF Asked
  <2>4. r.id = Request /\ r.kind = creq[Request]
    OBVIOUS
  <2> HIDE DEF r
  <2>5. CASE r.kind = "good"
    <3>1. sat' = [do |-> "send_fd", id |-> Request] /\ UNCHANGED errmsg
      BY Zenon, <2>1, <2>3, <2>4, <2>5 DEF handle_request_fe
    <3>2. Good
      BY Zenon, <2>4, <2>5 DEF Good, Request
    <3>3. Opened'
      BY Zenon, <1>4, <2>1, <2>2, <2>3, <3>1, <3>2 DEF Opened, Asked
    <3>4. FdPlaces'
      BY Zenon, <1>1, <1>4, <2>2, <3>3 DEF FdPlaces
    <3> QED BY Zenon, <1>5, <1>6, <1>7, <3>1, <3>4
  <2>6. CASE r.kind # "good"
    <3>1. sat' = [do |-> "writen", id |-> Request] /\ errmsg' \in Messages(r)
      BY Zenon, <2>1, <2>3, <2>4, <2>6 DEF handle_request_fe
    <3>2. errmsg' \in Message /\ errmsg'.len <= FPMAXLINE - 2 /\ (r.kind # "many" => errmsg'.id = Request)
      <4>1. CASE r.kind \in {"missing", "no null"}
        <5>1. PICK n \in 1 .. FPMAXLINE - 2 : errmsg' = [id |-> r.id, len |-> n]
          BY Zenon, <3>1, <4>1 DEF Messages, snprintf
        <5> QED BY <1>7, <2>4, <5>1, FdAssumption DEF Message
      <4>2. CASE r.kind = "many"
        <5>1. errmsg' = errmsg
          BY <3>1, <4>2 DEF Messages, buf_args
        <5> QED BY Zenon, <1>7, <4>2, <5>1
      <4>3. CASE r.kind \notin {"missing", "no null", "many"}
        <5>1. errmsg' = [id |-> r.id, len |-> 1]
          BY Zenon, <3>1, <4>3 DEF Messages, buf_args, cli_args
        <5> QED BY <1>7, <2>4, <5>1, FdAssumption DEF Message
      <4> QED BY Zenon, <4>1, <4>2, <4>3
    <3>3. ~Good /\ (Own => r.kind # "many")
      BY Zenon, <2>4, <2>6 DEF Good, Own, Request
    <3>4. Refused'
      BY Zenon, <1>1, <1>4, <2>1, <2>2, <2>3, <3>1, <3>2, <3>3 DEF Refused, Asked
    <3>5. FdPlaces'
      BY Zenon, <1>1, <1>4, <2>2, <3>4 DEF FdPlaces
    <3> QED BY Zenon, <1>5, <1>6, <3>2, <3>5
  <2> QED BY Zenon, <2>5, <2>6
<1>11. CASE send_err
  <2>1. /\ sat.do = "writen" /\ s2c' = s2c \o Text(errmsg) /\ UNCHANGED <<c2s, errmsg>> 
        /\ sat' = [do |-> "send_fd -1", id |-> sat.id]
    BY Zenon, <1>11 DEF send_err
  <2>2. cat = "recv" /\ Request > 0 /\ Len(got) = Request - 1 /\ Refused
    BY Zenon, <1>3, <2>1, Dos DEF FdPlaces, Asked, Said, Opened, Finished
  <2>3. sat' = [do |-> "send_fd -1", id |-> Request]
    BY Zenon, <1>7, <2>1, <2>2, Dos DEF Refused
  <2> DEFINE t == Text(errmsg)
  <2>4. /\ t \in Seq(FdByte) /\ Len(t) = errmsg.len
        /\ \A i \in 1 .. errmsg.len : t[i].b = "t" /\ ~t[i].fd /\ t[i].id = errmsg.id
    BY Zenon, <1>7, TextIs
  <2> HIDE DEF t
  <2>5. s2c' = t
    <3>1. << >> \o t = t
      BY <2>4
    <3> QED BY Zenon, <2>1, <2>2, <3>1 DEF Refused, t
  <2>6. AllText(t) /\ Len(t) <= FPMAXLINE - 2
    BY Zenon, <1>7, <2>2, <2>4 DEF AllText, IsText, Refused
  <2>7. AllText(s2c)' /\ Len(s2c') <= FPMAXLINE - 2
    BY Zenon, <1>1, <2>5, <2>6 DEF AllText, IsText, Own, Request
  <2>8. Said'
    BY Zenon, <1>4, <2>1, <2>2, <2>3, <2>7 DEF Said, Refused
  <2>9. FdPlaces'
    BY Zenon, <1>1, <1>4, <2>2, <2>8 DEF FdPlaces
  <2> QED BY Zenon, <1>5, <1>6, <1>7, <2>1, <2>9
<1>12. CASE SendFd
  <2>1. sat.do = "send_fd" /\ send_fd(3)
    BY Zenon, <1>12 DEF SendFd
  <2>2. cat = "recv" /\ Request > 0 /\ Len(got) = Request - 1 /\ Opened
    BY Zenon, <1>3, <2>1, Dos DEF FdPlaces, Asked, Said, Refused, Finished
  <2>3. sat.id = Request /\ c2s = << >> /\ s2c = << >> /\ Good
    BY Zenon, <2>2, Dos DEF Opened
  <2>4. AllText(<< >>) /\ Len(<< >>) <= FPMAXLINE - 2
    BY FdAssumption DEF AllText
  <2>5. 3 \in {3, -1} /\ (3 >= 0 <=> Good)
    BY <2>3
  <2> QED BY Zenon, <1>9, <2>1, <2>2, <2>3, <2>4, <2>5
<1>13. CASE SendStatus
  <2>1. sat.do = "send_fd -1" /\ send_fd(ErrCode(-1))
    BY Zenon, <1>13 DEF SendStatus
  <2>2. ErrCode(-1) = -1 /\ ~(-1 >= 0)
    BY DEF ErrCode
  <2>3. cat = "recv" /\ Request > 0 /\ Len(got) = Request - 1 /\ Said
    BY Zenon, <1>3, <2>1, Dos DEF FdPlaces, Asked, Opened, Refused, Finished
  <2>4. sat.id = Request /\ c2s = << >> /\ AllText(s2c) /\ Len(s2c) <= FPMAXLINE - 2 /\ ~Good
    BY Zenon, <2>3, Dos DEF Said
  <2>5. send_fd(-1) /\ -1 \in {3, -1} /\ (-1 >= 0 <=> Good)
    BY Zenon, <2>1, <2>2, <2>4
  <2> QED BY Zenon, <1>9, <2>3, <2>4, <2>5
<1> QED BY Zenon, <1>10, <1>11, <1>12, <1>13

\* One recvmsg of the client.
LEMMA ClientKeeps ==
    ASSUME FdInv, recv_fd_fe
    PROVE  FdInv'
<1>1. creq \in Seq(Kinds) /\ UNCHANGED <<fpprog, creq, c2s, sat, errmsg>> /\ cat = "recv" /\ s2c # << >>
  BY Zenon DEF FdInv, recv_fd_fe
<1>2. SUFFICES ASSUME NoLong PROVE (FdTypes /\ Answers /\ AllText(printed) /\ FdPlaces)'
  BY Zenon, <1>1 DEF FdInv, NoLong
<1>3. FdTypes /\ Answers /\ AllText(printed) /\ FdPlaces
  BY Zenon, <1>2 DEF FdInv
<1>4. /\ Request' = Request /\ (Own' <=> Own) /\ (Good' <=> Good)
      /\ \A s : AllText(s)' <=> AllText(s)
      /\ \A s : WholeReply(s)' <=> WholeReply(s)
  BY Zenon, <1>1, SameRequest
<1>5. Request > 0 /\ Len(got) = Request - 1 /\ (Said \/ Finished)
  BY Zenon, <1>1, <1>3 DEF FdPlaces, Asked, Refused, Opened
<1>6. Len(creq) \in Nat /\ Request = Len(creq) /\ Len(got) \in Nat
  BY <1>1, <1>3 DEF FdTypes, Request
<1> DEFINE First0(buf) == CHOOSE i \in Nulls(buf) : \A j \in Nulls(buf) : i <= j
           Takes(buf) ==
               /\ s2c' = SubSeq(s2c, Len(buf) + 1, Len(s2c))
               /\ IF Nulls(buf) = {}
                  THEN printed' = printed \o buf /\ UNCHANGED <<cat, got, uid>>
                  ELSE IF First0(buf) # Len(buf) - 1
                  THEN cat' = "dumped" /\ UNCHANGED <<got, printed, uid>>
                  ELSE /\ printed' = printed \o SubSeq(buf, 1, Len(buf) - 2)
                       /\ got' = Append(got, [id |-> buf[Len(buf)].id, status |-> buf[Len(buf)].n])
                       /\ uid' = IF buf[Len(buf)].fd /\ fpprog = "recv_ufd" THEN buf[Len(buf)].uid ELSE uid
                       /\ cat' = "idle"
           nr == Len(s2c)
<1>7. ASSUME Received = s2c, s2c \in Seq(FdByte)
      PROVE  Takes(s2c) /\ s2c' = << >>
  <2>1. Takes(Received)
    BY Zenon DEF recv_fd_fe
  <2>2. SubSeq(s2c, nr + 1, nr) = << >>
    BY Zenon, <1>7, NothingLeft
  <2>3. ASSUME Takes(s2c) PROVE s2c' = << >>
    BY Zenon, <2>2, <2>3
  <2> HIDE DEF Takes
  <2> QED BY Zenon, <1>7, <2>1, <2>3
<1>8. CASE Said
  <2>0. AllText(s2c) /\ s2c \in Seq(FdByte) /\ Len(s2c) <= FPMAXLINE - 2
    BY Zenon, <1>8 DEF Said, AllText
  <2>1. AllText(s2c) /\ s2c \in Seq(FdByte) /\ Len(s2c) <= FPMAXLINE - 2 /\ Len(s2c) \in Nat
    BY <2>0
  <2>2. Len(s2c) \in 1 .. FPMAXLINE /\ \A i \in 1 .. Len(s2c) - 1 : i \in 1 .. Len(s2c)
    BY <1>1, <2>1, FdAssumption
  <2>3. Received = s2c
    BY Zenon, <2>1, <2>2, ReceivedIsAll DEF AllText, IsText
  <2>4. Nulls(s2c) = {}
    <3>1. DOMAIN s2c = 1 .. Len(s2c)
      BY <2>1
    <3> QED BY Zenon, <2>1, <3>1 DEF Nulls, AllText, IsText
  <2>5. s2c' = << >> /\ printed' = printed \o s2c /\ UNCHANGED <<cat, got, uid>>
    BY Zenon, <1>7, <2>1, <2>3, <2>4
  <2>6. AllText(printed \o s2c)
    BY Zenon, <1>3, <2>1, TextJoined
  <2>7. AllText(printed)'
    BY Zenon, <1>1, <2>5, <2>6 DEF AllText, IsText, Own, Request
  <2>8. FdTypes'
    BY Zenon, <1>1, <1>3, <2>5, <2>7 DEF FdTypes, AllText
  <2>9. Answers'
    BY Zenon, <1>1, <1>3, <2>5 DEF Answers
  <2>10. AllText(s2c)' /\ Len(s2c') <= FPMAXLINE - 2
    BY <2>5, FdAssumption DEF AllText
  <2>11. Said'
    BY Zenon, <1>1, <1>4, <1>8, <2>10 DEF Said
  <2>12. FdPlaces'
    BY Zenon, <1>1, <1>4, <1>5, <2>5, <2>11 DEF FdPlaces
  <2> QED BY Zenon, <2>7, <2>8, <2>9, <2>12
<1>9. CASE Finished
  <2>1. /\ s2c \in Seq(FdByte) /\ nr \in 2 .. FPMAXLINE /\ (\A i \in 1 .. nr - 2 : IsText(s2c[i]))
        /\ s2c[nr - 1].b = "0" /\ ~s2c[nr - 1].fd /\ Final(s2c[nr])
    BY Zenon, <1>9 DEF Finished, WholeReply
  <2>2. nr \in Nat /\ nr >= 2 /\ nr \in 1 .. FPMAXLINE /\ nr - 1 \in 1 .. nr /\ nr - 2 \in Nat
        /\ DOMAIN s2c = 1 .. nr /\ nr \in 1 .. nr
    BY <2>1, FdAssumption
  <2>0. ASSUME NEW m \in Nat, m >= 2
        PROVE  /\ \A i \in 1 .. m : i \in 1 .. m - 2 \/ i = m - 1 \/ i = m
               /\ \A i \in 1 .. m - 1 : i \in 1 .. m - 2 \/ i = m - 1
               /\ m - 1 # m /\ m - 1 \notin 1 .. m - 2
    BY <2>0
  <2>3. \A i \in 1 .. nr : i \in 1 .. nr - 2 \/ i = nr - 1 \/ i = nr
    BY Zenon, <2>2, <2>0
  <2>4. \A i \in 1 .. nr - 1 : ~s2c[i].fd
    <3>1. \A i \in 1 .. nr - 1 : i \in 1 .. nr - 2 \/ i = nr - 1
      BY Zenon, <2>2, <2>0
    <3> QED BY Zenon, <2>1, <3>1 DEF IsText
  <2>5. Received = s2c
    BY Zenon, <2>1, <2>2, <2>4, ReceivedIsAll
  <2>6. Nulls(s2c) = {nr - 1}
    <3>1. ASSUME NEW i \in DOMAIN s2c PROVE s2c[i].b = "0" <=> i = nr - 1
      <4>1. nr - 1 # nr /\ nr - 1 \notin 1 .. nr - 2
        BY Zenon, <2>2, <2>0
      <4> QED BY Zenon, <2>1, <2>2, <2>3, <4>1 DEF IsText, Final
    <3> QED BY Zenon, <2>2, <3>1 DEF Nulls
  <2>7. First0(s2c) = nr - 1
    <3>1. nr - 1 <= nr - 1
      BY <2>2
    <3> QED BY Zenon, <2>6, <3>1
  <2> HIDE DEF First0
  <2>8. /\ s2c' = << >> /\ printed' = printed \o SubSeq(s2c, 1, nr - 2)
        /\ got' = Append(got, [id |-> s2c[nr].id, status |-> s2c[nr].n])
        /\ uid' = IF s2c[nr].fd /\ fpprog = "recv_ufd" THEN s2c[nr].uid ELSE uid
        /\ cat' = "idle"
    <3>1. Nulls(s2c) # {}
      BY Zenon, <2>6
    <3> QED BY Zenon, <1>7, <2>1, <2>5, <2>7, <3>1
  <2> HIDE DEF nr
  <2>9. AllText(printed)'
    <3> DEFINE t == SubSeq(s2c, 1, nr - 2)
    <3>1. t \in Seq(FdByte) /\ Len(t) = nr - 2 /\ \A i \in 1 .. nr - 2 : t[i] = s2c[i]
      BY <2>1, <2>2 DEF nr
    <3>2. printed' = printed \o t
      BY Zenon, <2>8
    <3> HIDE DEF t
    <3>3. AllText(t)
      BY Zenon, <2>1, <3>1 DEF AllText
    <3>4. AllText(printed \o t)
      BY Zenon, <1>3, <3>3, TextJoined
    <3> QED BY Zenon, <1>1, <3>2, <3>4 DEF AllText, IsText, Own, Request
  <2> DEFINE x == s2c[nr]
             g == [id |-> x.id, status |-> x.n]
  <2>10. x \in FdByte
    BY <2>1, <2>2
  <2>11. g \in [id : Nat, status : Nat] /\ g.id = Request /\ (g.status = 0 <=> Good)
    <3> HIDE DEF x
    <3>1. x.id \in Nat /\ x.n \in Nat
      BY Zenon, <2>10 DEF FdByte
    <3>2. x.id = Request /\ (x.n = 0 <=> Good)
      BY Zenon, <2>1 DEF Final, x
    <3> QED BY <3>1, <3>2
  <2>12. got' = Append(got, g)
    BY Zenon, <2>8
  <2> HIDE DEF g
  <2>13. /\ got' \in Seq([id : Nat, status : Nat]) /\ Len(got') = Request /\ got'[Request] = g
         /\ \A i \in 1 .. Request : i = Request \/ (i \in 1 .. Len(got) /\ got'[i] = got[i])
    <3>1. got \in Seq([id : Nat, status : Nat]) /\ Request = Len(got) + 1
      BY <1>3, <1>5, <1>6 DEF FdTypes
    <3> QED BY <2>11, <2>12, <3>1
  <2>14. FdTypes'
    BY Zenon, <1>1, <1>3, <2>9, <2>13 DEF FdTypes, AllText
  <2>15. fpprog = "recv_ufd" => uid' = IF Good THEN "server" ELSE uid
    BY Zenon, <2>1, <2>8 DEF Final
  <2>16. Answers'
    <3>1. ASSUME NEW i \in 1 .. Len(got') PROVE got'[i].id = i /\ (got'[i].status = 0 <=> creq'[i] = "good")
      BY ZenonT(40), <1>1, <1>3, <2>11, <2>13 DEF Answers, Good, Request
    <3>2. ASSUME fpprog' = "recv_ufd", NEW i \in 1 .. Len(got'), got'[i].status = 0 PROVE uid' = "server"
      BY Zenon, <1>1, <1>3, <2>11, <2>13, <2>15, <3>2 DEF Answers
    <3> QED BY Zenon, <3>1, <3>2 DEF Answers
  <2>17. FdPlaces'
    BY Zenon, <1>1, <1>4, <1>9, <2>8, <2>13 DEF FdPlaces, Finished
  <2> QED BY Zenon, <2>9, <2>14, <2>16, <2>17
<1> QED BY Zenon, <1>5, <1>8, <1>9

\* Each call of csopen_fe gets the answer to its own request and no call takes
\* an answer for a format error, for every size of the buffers and any number
\* of requests, however the messages are cut.
THEOREM EachGetsItsAnswer == fpSpec => []AnswerIsForRequest
<1>1. fpInit => FdInv
  <2> SUFFICES ASSUME fpInit PROVE FdInv
    OBVIOUS
  <2>1. /\ fpprog \in {"recv_fd", "recv_ufd"} /\ creq = << >> /\ cat = "idle" /\ got = << >> /\ printed = << >>
        /\ c2s = << >> /\ s2c = << >> /\ sat = Idle /\ errmsg = [id |-> 0, len |-> 0]
    BY Zenon DEF fpInit, fpInitOf
  <2>2. errmsg \in Message /\ errmsg.len <= FPMAXLINE - 2
    BY <2>1, FdAssumption DEF Message
  <2>3. FdTypes
    BY <2>1, <2>2 DEF FdTypes
  <2>4. Answers /\ AllText(printed)
    BY <2>1 DEF Answers, AllText
  <2>5. FdPlaces
    BY Zenon, <2>1 DEF FdPlaces, Request
  <2> QED BY Zenon, <2>3, <2>4, <2>5 DEF FdInv, FdTypes
<1>2. FdInv /\ [fpNext]_fpvars => FdInv'
  <2> SUFFICES ASSUME FdInv, [fpNext]_fpvars PROVE FdInv'
    OBVIOUS
  <2>1. CASE UNCHANGED fpvars
    <3>1. /\ UNCHANGED <<fpprog, creq, cat, got, printed, uid>>
          /\ UNCHANGED <<c2s, s2c, sat, errmsg>>
      BY Zenon, <2>1 DEF fpvars
    <3>2. Request' = Request /\ (Own' <=> Own) /\ (Good' <=> Good)
      BY Zenon, <3>1 DEF Request, Own, Good
    <3>3. FdTypes' = FdTypes /\ Answers' = Answers /\ NoLong' = NoLong
      BY Zenon, <3>1 DEF FdTypes, Answers, NoLong
    <3>4. AllText(printed) => AllText(printed)'
      BY Zenon, <3>1, <3>2 DEF AllText, IsText
    <3>5. WholeReply(s2c) => WholeReply(s2c)'
      BY Zenon, <3>1, <3>2 DEF WholeReply, IsText, Final
    <3>6. AllText(s2c) => AllText(s2c)'
      BY Zenon, <3>1, <3>2 DEF AllText, IsText
    <3>7. FdPlaces => FdPlaces'
      BY Zenon, <3>1, <3>2, <3>5, <3>6 DEF FdPlaces, Asked, Refused, Said, Opened, Finished
    <3> QED BY Zenon, <3>1, <3>3, <3>4, <3>7 DEF FdInv
  <2> QED BY Zenon, <2>1, CallKeeps, ServerKeeps, ClientKeeps DEF fpNext
<1>3. FdInv => AnswerIsForRequest
  <2> SUFFICES ASSUME FdInv, NoLong
               PROVE  /\ cat # "dumped"
                      /\ \A i \in DOMAIN got : got[i].id = i /\ (got[i].status = 0 <=> creq[i] = "good")
                      /\ \A i \in DOMAIN printed :
                            creq[Len(creq)] # "many" => printed[i].b = "t" /\ printed[i].id = Len(creq)
                      /\ fpprog = "recv_ufd" /\ (\E i \in DOMAIN got : got[i].status = 0) => uid = "server"
    BY Zenon DEF AnswerIsForRequest, NoLong
  <2>1. FdTypes /\ Answers /\ AllText(printed) /\ FdPlaces
    BY Zenon DEF FdInv
  <2>2. DOMAIN got = 1 .. Len(got) /\ DOMAIN printed = 1 .. Len(printed)
    BY <2>1 DEF FdTypes
  <2>3. cat # "dumped"
    BY Zenon, <2>1 DEF FdPlaces
  <2> QED BY Zenon, <2>1, <2>2, <2>3 DEF Answers, AllText, IsText, Own, Request
<1> QED BY <1>1, <1>2, <1>3, PTL DEF fpSpec

-----------------------------------------------------------------------------
(***************************************************************************)
(* Uptime: the delays of connect_retry, and where each answer is.          *)
(***************************************************************************)
\* The record of a process, and the delays of connect_retry.
Process ==
    [at : {"none", "initserver", "gone", "accept", "popen", "fgets", "close", "fork", "parent",
           "waitpid", "dup2", "uptime"},
     clfd : Client \cup {NoClient}, std : Client \cup {NoClient}, line : Nat, kid : Nat]
Powers == {1, 2, 4, 8, 16, 32, 64, 128}

\* The delay is a power of two and one more than the time slept; only the
\* last try with an address ends with the longest.
Retries(r) ==
    /\ r.numsec \in Powers /\ r.numsec <= MAXSLEEP /\ r.slept = r.numsec - 1
    /\ r.at = "failed" /\ upprog # "dgram" => r.numsec = MAXSLEEP
    /\ r.at \in IF upprog = "dgram" THEN {"start", "alarm", "armed", "recvfrom", "done", "failed"}
                ELSE {"start", "recv", "done", "failed"}

\* The record of a client.
Attempt == [at : {"start", "recv", "alarm", "armed", "recvfrom", "done", "failed"},
            addr : Nat, numsec : Nat, slept : Nat, early : BOOLEAN]

\* What connect_retry keeps.
RetryInv == clt \in [Client -> Attempt] /\ \A c \in Client : Retries(clt[c])

\* A failed try.
LEMMA TryAgainIs ==
    ASSUME NEW c \in Client, clt[c] \in Attempt, Retries(clt[c]), upprog # "dgram", clt[c].at = "start"
    PROVE  TryAgain(c) \in Attempt /\ Retries(TryAgain(c))
<1> DEFINE r == clt[c]
           s == IF r.numsec <= MAXSLEEP \div 2 THEN r.numsec ELSE 0
           next == [r EXCEPT !.numsec = 2 * r.numsec, !.slept = r.slept + s]
           on == [r EXCEPT !.addr = r.addr + 1, !.numsec = 1, !.slept = 0]
           end == [r EXCEPT !.at = "failed"]
<1>1. r \in Attempt /\ r.numsec \in Powers /\ r.numsec <= MAXSLEEP /\ r.slept = r.numsec - 1
  BY Zenon DEF Retries
<1> HIDE DEF r
<1>2. ASSUME NEW n \in Powers, n <= MAXSLEEP
      PROVE  /\ 2 * n <= MAXSLEEP => 2 * n \in Powers /\ n <= MAXSLEEP \div 2
             /\ ~(2 * n <= MAXSLEEP) => n = MAXSLEEP
             /\ n \in Nat
  BY <1>2, UptimeAssumption DEF Powers
<1>3. 1 \in Powers /\ 1 <= MAXSLEEP
  BY UptimeAssumption DEF Powers
<1>4. TryAgain(c) = IF next.numsec <= MAXSLEEP THEN next ELSE NextAddr(c)
  BY Zenon DEF TryAgain, r
<1>5. NextAddr(c) = IF r.addr < NAddr THEN on ELSE end
  BY Zenon DEF NextAddr, r
<1>6. r.at = "start" /\ upprog # "dgram"
  BY Zenon DEF r
<1>7. s \in Nat
  BY Zenon, <1>1, <1>2
<1>8. /\ next \in Attempt /\ next.numsec = 2 * r.numsec /\ next.slept = r.slept + s /\ next.at = "start"
      /\ on \in Attempt /\ on.numsec = 1 /\ on.slept = 0 /\ on.at = "start"
      /\ end \in Attempt /\ end.numsec = r.numsec /\ end.slept = r.slept /\ end.at = "failed"
  <2> HIDE DEF s
  <2>0. r.numsec \in Nat /\ r.slept \in Nat /\ r.addr \in Nat
    BY Zenon, <1>1 DEF Attempt
  <2>1. 2 * r.numsec \in Nat /\ r.slept + s \in Nat /\ r.addr + 1 \in Nat
    BY <2>0, <1>7
  <2>2. next \in Attempt /\ next.numsec = 2 * r.numsec /\ next.slept = r.slept + s /\ next.at = "start"
    BY Zenon, <1>1, <1>6, <2>1 DEF Attempt
  <2>3. on \in Attempt /\ on.numsec = 1 /\ on.slept = 0 /\ on.at = "start"
    BY Zenon, <1>1, <1>6, <2>1 DEF Attempt
  <2>4. end \in Attempt /\ end.numsec = r.numsec /\ end.slept = r.slept /\ end.at = "failed"
    BY Zenon, <1>1, <1>6 DEF Attempt
  <2> QED BY Zenon, <2>2, <2>3, <2>4
<1> HIDE DEF next, on, end
<1>9. ASSUME next.numsec <= MAXSLEEP PROVE Retries(next)
  <2>1. s = r.numsec /\ 2 * r.numsec \in Powers
    BY Zenon, <1>1, <1>2, <1>8, <1>9
  <2>2. next.slept = next.numsec - 1
    BY <1>1, <1>2, <1>8, <2>1
  <2> QED BY Zenon, <1>6, <1>8, <1>9, <2>1, <2>2 DEF Retries
<1>10. Retries(on)
  BY <1>3, <1>6, <1>8 DEF Retries
<1>11. ASSUME ~(next.numsec <= MAXSLEEP) PROVE Retries(end)
  <2>1. r.numsec = MAXSLEEP
    BY Zenon, <1>1, <1>2, <1>8, <1>11
  <2> QED BY Zenon, <1>1, <1>6, <1>8, <2>1 DEF Retries
<1> QED BY Zenon, <1>4, <1>5, <1>8, <1>9, <1>10, <1>11

\* How many lines the server sends.
Last == IF upprog = "dgram" THEN 1 ELSE NLines

\* A process has a client from accept on, and sends its lines in order.
RecordOk(r) ==
    /\ r.at \in {"popen", "fork", "dup2"} => r.line = 0
    /\ r.at = "fgets" => r.line <= Last
    /\ r.at = "uptime" => r.line <= NLines /\ r.std \in Client
    /\ r.at \in {"popen", "fgets", "close", "fork", "dup2"} => r.clfd \in Client

\* The types.
UpTypes ==
    /\ upprog \in UpPrograms /\ procfail \in BOOLEAN
    /\ proc \in [ServerProc -> Process]
    /\ backlog0 \in Seq(Client)
    /\ text \in [Client -> Seq(Nat)] /\ heard \in [Client -> Seq(Nat)]
    /\ \A p \in ServerProc : RecordOk(proc[p])

\* Other processes are left alone.
Others(p) == \A q \in ServerProc : q # p => proc'[q] = proc[q]

\* A step of process p that leaves it with record r.
LEMMA OneProcess ==
    ASSUME UpTypes, NEW p \in ServerProc, NEW r \in Process, proc' = [proc EXCEPT ![p] = r],
           RecordOk(r), upprog' = upprog
    PROVE  /\ proc' \in [ServerProc -> Process] /\ proc'[p] = r /\ Others(p)
           /\ (\A q \in ServerProc : RecordOk(proc[q]))'
<1>1. proc' \in [ServerProc -> Process] /\ proc'[p] = r /\ Others(p)
  BY Zenon DEF UpTypes, Others
<1> QED BY <1>1 DEF UpTypes, Others, RecordOk, Last

\* Every step keeps the delays.
LEMMA RetrySteps == RetryInv /\ upprog \in UpPrograms /\ [upNext]_upvars => RetryInv'
<1> SUFFICES ASSUME RetryInv, upprog \in UpPrograms, [upNext]_upvars PROVE RetryInv'
  BY ZenonT(40)
<1>1. upprog' = upprog
  BY Zenon DEF upNext, ServerStep, ClientStep, LoseDatagram, upvars, initserver, Accept, ServePopen, ServeLine,
         ServeClose, ServeFork, ServeParent, ServeWait, ServeChild, uptime, connect_retry, print_uptime,
         SendDatagram, StartAlarm, sigalrm, CallRecvfrom, ReadDatagram
<1>2. ASSUME NEW c \in Client, NEW r \in Attempt, clt' = [clt EXCEPT ![c] = r], Retries(r)
      PROVE  RetryInv'
  BY Zenon, <1>1, <1>2 DEF RetryInv, Retries
<1>3. ASSUME clt' = clt PROVE RetryInv'
  BY Zenon, <1>1, <1>3 DEF RetryInv, Retries
<1>4. ASSUME NEW c \in Client, NEW a \in {"recv", "alarm", "armed", "recvfrom", "done", "failed"}, clt' = [clt EXCEPT ![c].at = a],
             a = "failed" => upprog = "dgram",
             a \in {"alarm", "armed", "recvfrom"} => upprog = "dgram",
             a = "recv" => upprog # "dgram"
      PROVE  RetryInv'
  <2> DEFINE r == [clt[c] EXCEPT !.at = a]
  <2>1. clt' = [clt EXCEPT ![c] = r]
    BY Zenon, <1>4 DEF RetryInv
  <2>2. r \in Attempt /\ Retries(r)
    BY <1>4 DEF RetryInv, Retries, Attempt
  <2> QED BY Zenon, <1>2, <2>1, <2>2
<1>5. CASE ServerStep \/ UNCHANGED upvars \/ \E c \in Client : LoseDatagram(c)
  <2>1. clt' = clt
    BY Zenon, <1>5 DEF ServerStep, LoseDatagram, upvars, initserver, Accept, ServePopen, ServeLine,
         ServeClose, ServeFork, ServeParent, ServeWait, ServeChild, uptime
  <2> QED BY <1>3, <2>1
<1>6. ASSUME NEW c \in Client, ClientStep(c) PROVE RetryInv'
  <2>0. clt[c] \in Attempt /\ Retries(clt[c])
    BY Zenon DEF RetryInv
  <2>1. CASE connect_retry(c)
    <3>1. CASE clt' = [clt EXCEPT ![c].at = "recv"]
      BY Zenon, <1>4, <2>1, <3>1 DEF connect_retry
    <3>2. CASE clt' = [clt EXCEPT ![c] = TryAgain(c)]
      <4>1. TryAgain(c) \in Attempt /\ Retries(TryAgain(c))
        BY Zenon, TryAgainIs, <2>0, <2>1 DEF connect_retry
      <4> QED BY Zenon, <1>2, <3>2, <4>1
    <3> QED BY Zenon, <2>1, <3>1, <3>2 DEF connect_retry
  <2>2. CASE print_uptime(c)
    <3>1. CASE clt' = [clt EXCEPT ![c].at = "done"]
      BY Zenon, <1>4, <3>1
    <3> QED BY Zenon, <1>3, <2>2, <3>1 DEF print_uptime
  <2>3. CASE SendDatagram(c)
    BY Zenon, <1>4, <2>3 DEF SendDatagram
  <2>4. clt[c].at \in {"alarm", "armed", "recvfrom"} => upprog = "dgram"
    BY Zenon, <2>0 DEF Retries
  <2>5. CASE StartAlarm(c)
    BY Zenon, <1>4, <2>4, <2>5 DEF StartAlarm
  <2>6. CASE sigalrm(c)
    <3>1. CASE clt[c].at = "armed" /\ clt' = [clt EXCEPT ![c].early = TRUE]
      <4> DEFINE r == [clt[c] EXCEPT !.early = TRUE]
      <4>1. clt' = [clt EXCEPT ![c] = r]
        BY Zenon, <3>1 DEF RetryInv
      <4>2. r \in Attempt /\ Retries(r)
        BY Zenon, <2>0 DEF Retries, Attempt
      <4> QED BY Zenon, <1>2, <4>1, <4>2
    <3>2. CASE clt[c].at = "recvfrom" /\ clt' = [clt EXCEPT ![c].at = "failed"]
      BY Zenon, <1>4, <2>4, <3>2
    <3> QED BY Zenon, <2>6, <3>1, <3>2 DEF sigalrm
  <2>7. CASE CallRecvfrom(c)
    BY Zenon, <1>4, <2>4, <2>7 DEF CallRecvfrom
  <2>8. CASE ReadDatagram(c)
    BY Zenon, <1>4, <2>8 DEF ReadDatagram
  <2> QED BY Zenon, <1>6, <2>1, <2>2, <2>3, <2>5, <2>6, <2>7, <2>8 DEF ClientStep
<1> QED BY Zenon, <1>5, <1>6 DEF upNext

(***************************************************************************)
(* What the steps of the server do.                                        *)
(***************************************************************************)
LEMMA SendsIs ==
    ASSUME text \in [Client -> Seq(Nat)], NEW c \in Client, NEW t \in Nat, Sends(c, t)
    PROVE  /\ text' \in [Client -> Seq(Nat)] /\ text'[c] = Append(text[c], t)
           /\ \A d \in Client : d # c => text'[d] = text[d]
BY DEF Sends

\* What each step of a server process changes.  A process goes on.
LEMMA GoToIs ==
    ASSUME UpTypes, NEW p \in ServerProc, NEW a \in {"accept", "gone", "fgets", "close"}, GoTo(p, a),
           upprog' = upprog, a = "fgets" => proc[p].line <= Last, a \in {"fgets", "close"} => proc[p].clfd \in Client
    PROVE  /\ proc' \in [ServerProc -> Process] /\ (\A q \in ServerProc : RecordOk(proc[q]))' /\ Others(p)
           /\ proc'[p].at = a /\ proc'[p].line = proc[p].line
           /\ proc'[p].clfd = proc[p].clfd /\ proc'[p].kid = proc[p].kid
<1> DEFINE r == [proc[p] EXCEPT !.at = a]
<1>1. r \in Process /\ r.at = a /\ r.line = proc[p].line /\ r.clfd = proc[p].clfd /\ r.kid = proc[p].kid
  BY Zenon DEF UpTypes, Process
<1>2. proc' = [proc EXCEPT ![p] = r]
  BY Zenon DEF UpTypes, GoTo
<1> HIDE DEF r
<1>3. RecordOk(r)
  BY Zenon, <1>1 DEF RecordOk
<1> QED BY Zenon, OneProcess, <1>1, <1>2, <1>3

\* initserver succeeds or the server is gone.
LEMMA initserverIs ==
    ASSUME UpTypes, initserver
    PROVE  /\ UpTypes' /\ Others(1)
           /\ proc'[1] = proc[1] \/ proc'[1].at \in {"accept", "gone"}
<1>0. 1 \in ServerProc
  BY UptimeAssumption DEF ServerProc
<1>1. CASE GoTo(1, "accept")
  BY Zenon, <1>0, <1>1, GoToIs DEF UpTypes, initserver
<1>2. CASE GoTo(1, "gone")
  BY Zenon, <1>0, <1>2, GoToIs DEF UpTypes, initserver
<1>3. CASE UNCHANGED proc
  BY Zenon, <1>0, <1>3 DEF UpTypes, initserver, Others, RecordOk, Last
<1> QED BY Zenon, <1>1, <1>2, <1>3 DEF initserver

\* accept takes the first of the queue.
LEMMA AcceptIs ==
    ASSUME UpTypes, NEW p \in ServerProc, Accept(p)
    PROVE  /\ UpTypes' /\ Others(p)
           /\ proc'[p].at = IF upprog = "fork" THEN "fork" ELSE "popen"
           /\ proc'[p].clfd = Head(backlog0) /\ Head(backlog0) \in Client /\ proc'[p].line = 0
<1> DEFINE r == [proc[p] EXCEPT !.clfd = Head(backlog0), !.line = 0,
                                !.at = IF upprog = "fork" THEN "fork" ELSE "popen"]
<1>0. Head(backlog0) \in Client /\ Tail(backlog0) \in Seq(Client)
  BY DEF UpTypes, Accept
<1>1. /\ r \in Process /\ r.at = IF upprog = "fork" THEN "fork" ELSE "popen"
      /\ r.line = 0 /\ r.clfd = Head(backlog0)
  BY Zenon, <1>0 DEF UpTypes, Process
<1>2. proc' = [proc EXCEPT ![p] = r]
  BY Zenon DEF UpTypes, Accept
<1> HIDE DEF r
<1>3. RecordOk(r)
  BY Zenon, <1>0, <1>1 DEF RecordOk
<1>4. upprog' = upprog
  BY Zenon DEF Accept
<1>5. /\ proc' \in [ServerProc -> Process] /\ proc'[p] = r /\ Others(p)
      /\ (\A q \in ServerProc : RecordOk(proc[q]))'
  BY Zenon, OneProcess, <1>1, <1>2, <1>3, <1>4
<1> QED BY Zenon, <1>0, <1>1, <1>5 DEF UpTypes, Accept

\* popen succeeds, or the client is told of the error.
LEMMA ServePopenIs ==
    ASSUME UpTypes, NEW p \in ServerProc, ServePopen(p)
    PROVE  /\ UpTypes' /\ Others(p) /\ proc[p].clfd \in Client
           /\ proc'[p].clfd = proc[p].clfd /\ proc'[p].line = proc[p].line
           /\ \/ proc'[p].at = "fgets" /\ text' = text
              \/ proc'[p].at = "close" /\ Sends(proc[p].clfd, ErrorLine)
<1>0. proc[p].clfd \in Client /\ proc[p].line = 0 /\ 0 <= Last /\ upprog' = upprog
  BY UptimeAssumption DEF UpTypes, RecordOk, ServePopen, Last
<1>1. CASE GoTo(p, "fgets") /\ UNCHANGED text
  BY Zenon, <1>0, <1>1, GoToIs DEF UpTypes, ServePopen
<1>2. CASE Sends(proc[p].clfd, ErrorLine) /\ GoTo(p, "close")
  <2>1. text' \in [Client -> Seq(Nat)]
    BY <1>0, <1>2, SendsIs DEF ErrorLine, UpTypes
  <2> QED BY Zenon, <1>0, <1>2, <2>1, GoToIs DEF UpTypes, ServePopen
<1> QED BY Zenon, <1>1, <1>2 DEF ServePopen

\* A line is counted.
LEMMA NextLineIs ==
    ASSUME UpTypes, NEW p \in ServerProc, proc' = [proc EXCEPT ![p].line = @ + 1], upprog' = upprog,
           proc[p].at \in {"fgets", "uptime"},
           proc[p].line < IF proc[p].at = "fgets" THEN Last ELSE NLines
    PROVE  /\ proc' \in [ServerProc -> Process] /\ (\A q \in ServerProc : RecordOk(proc[q]))' /\ Others(p)
           /\ proc'[p].at = proc[p].at /\ proc'[p].line = proc[p].line + 1
           /\ proc'[p].clfd = proc[p].clfd /\ proc'[p].std = proc[p].std
<1> DEFINE r == [proc[p] EXCEPT !.line = proc[p].line + 1]
<1>0. proc[p] \in Process /\ proc[p].line \in Nat /\ proc[p].line + 1 \in Nat /\ RecordOk(proc[p])
  BY DEF UpTypes, Process
<1>1. /\ r \in Process /\ r.at = proc[p].at /\ r.line = proc[p].line + 1 /\ r.clfd = proc[p].clfd
      /\ r.std = proc[p].std
  BY Zenon, <1>0 DEF Process
<1>2. proc' = [proc EXCEPT ![p] = r]
  BY Zenon DEF UpTypes
<1> HIDE DEF r
<1>3. Last \in Nat /\ NLines \in Nat
  BY Zenon, UptimeAssumption DEF Last
<1>4. RecordOk(r)
  BY <1>0, <1>1, <1>3 DEF RecordOk
<1> QED BY Zenon, OneProcess, <1>1, <1>2, <1>4

\* A line is sent, or there are no more.
LEMMA ServeLineIs ==
    ASSUME UpTypes, NEW p \in ServerProc, ServeLine(p)
    PROVE  /\ UpTypes' /\ Others(p) /\ proc[p].clfd \in Client /\ proc'[p].clfd = proc[p].clfd
           /\ proc[p].line \in Nat
           /\ \/ /\ proc'[p].at = "fgets" /\ proc'[p].line = proc[p].line + 1
                 /\ proc[p].line < Last /\ Sends(proc[p].clfd, proc[p].line + 1)
              \/ proc'[p].at = "close" /\ proc[p].line = Last /\ text' = text
<1>0. /\ proc[p].clfd \in Client /\ proc[p].line <= Last /\ upprog' = upprog /\ proc[p].line \in Nat
      /\ proc[p].line + 1 \in Nat /\ Last \in Nat
  BY UptimeAssumption DEF UpTypes, RecordOk, ServeLine, Last, Process
<1>1. CASE /\ proc[p].line < Last /\ Sends(proc[p].clfd, proc[p].line + 1)
           /\ proc' = [proc EXCEPT ![p].line = @ + 1]
  <2>1. text' \in [Client -> Seq(Nat)]
    BY Zenon, <1>0, <1>1, SendsIs DEF UpTypes
  <2>2. proc[p].at = "fgets"
    BY Zenon DEF ServeLine
  <2> QED BY Zenon, <1>0, <1>1, <2>1, <2>2, NextLineIs DEF UpTypes, ServeLine
<1>2. CASE ~(proc[p].line < Last) /\ GoTo(p, "close") /\ UNCHANGED text
  BY <1>0, <1>2, GoToIs DEF UpTypes, ServeLine
<1> QED BY Zenon, <1>1, <1>2 DEF ServeLine, Last

\* The client is closed.
LEMMA ServedIs ==
    ASSUME UpTypes, NEW p \in ServerProc, NEW a \in {"accept", "waitpid"}, Served(p, a), upprog' = upprog
    PROVE  /\ proc' \in [ServerProc -> Process] /\ (\A q \in ServerProc : RecordOk(proc[q]))' /\ Others(p)
           /\ proc'[p].at = a /\ proc'[p].kid = proc[p].kid
<1> DEFINE r == [proc[p] EXCEPT !.at = a, !.clfd = NoClient]
<1>1. r \in Process /\ r.at = a /\ r.kid = proc[p].kid
  BY Zenon DEF UpTypes, Process
<1>2. proc' = [proc EXCEPT ![p] = r]
  BY Zenon DEF UpTypes, Served
<1> HIDE DEF r
<1>3. RecordOk(r)
  BY Zenon, <1>1 DEF RecordOk
<1> QED BY Zenon, OneProcess, <1>1, <1>2, <1>3

\* The child makes the socket its standard output and error.
LEMMA ServeChildIs ==
    ASSUME UpTypes, NEW p \in ServerProc, ServeChild(p)
    PROVE  /\ UpTypes' /\ Others(p) /\ (procfail => procfail')
           /\ ~procfail' => /\ proc'[p].at = "uptime" /\ proc'[p].std = proc[p].clfd
                            /\ proc'[p].line = proc[p].line
<1>0. proc[p].clfd \in Client /\ proc[p].line = 0 /\ 0 <= NLines /\ upprog' = upprog /\ proc[p] \in Process
  BY UptimeAssumption DEF UpTypes, RecordOk, ServeChild
<1>1. PICK ok \in BOOLEAN : 
         /\ proc' = [proc EXCEPT ![p].std = proc[p].clfd, ![p].clfd = NoClient,
                                 ![p].at = IF ok THEN "uptime" ELSE "accept"]
         /\ procfail' = (procfail \/ ~ok)
  BY Zenon DEF ServeChild
<1> DEFINE r == [proc[p] EXCEPT !.std = proc[p].clfd, !.clfd = NoClient, !.at = IF ok THEN "uptime" ELSE "accept"]
<1>2. /\ r \in Process /\ r.at = IF ok THEN "uptime" ELSE "accept"
      /\ r.std = proc[p].clfd /\ r.line = proc[p].line
  BY Zenon, <1>0 DEF Process
<1>3. proc' = [proc EXCEPT ![p] = r]
  BY Zenon, <1>1 DEF UpTypes
<1> HIDE DEF r
<1>4. RecordOk(r)
  BY Zenon, <1>0, <1>2 DEF RecordOk
<1>5. /\ proc' \in [ServerProc -> Process] /\ proc'[p] = r /\ Others(p)
      /\ (\A q \in ServerProc : RecordOk(proc[q]))'
  BY Zenon, OneProcess, <1>0, <1>2, <1>3, <1>4
<1>6. ~procfail' => ok
  BY Zenon, <1>1
<1>7. procfail' \in BOOLEAN /\ (procfail => procfail')
  BY Zenon, <1>1 DEF UpTypes
<1> QED BY Zenon, <1>2, <1>5, <1>6, <1>7 DEF UpTypes, ServeChild

\* A process ends.
LEMMA GoneIs ==
    ASSUME UpTypes, NEW p \in ServerProc, upprog' = upprog,
           proc' = [proc EXCEPT ![p] = [NoServer EXCEPT !.at = "gone"]]
    PROVE  /\ proc' \in [ServerProc -> Process] /\ (\A q \in ServerProc : RecordOk(proc[q]))' /\ Others(p)
           /\ proc'[p].at = "gone"
<1> DEFINE r == [NoServer EXCEPT !.at = "gone"]
<1>1. r \in Process /\ r.at = "gone"
  BY Zenon DEF NoServer, Process
<1> HIDE DEF r
<1>2. RecordOk(r)
  BY Zenon, <1>1 DEF RecordOk
<1>3. proc' = [proc EXCEPT ![p] = r]
  BY Zenon DEF r
<1> QED BY Zenon, OneProcess, <1>1, <1>2, <1>3

\* uptime writes its lines and ends.
LEMMA uptimeIs ==
    ASSUME UpTypes, NEW p \in ServerProc, uptime(p)
    PROVE  /\ UpTypes' /\ Others(p) /\ proc[p].std \in Client /\ proc[p].line \in Nat
           /\ \/ /\ proc'[p].at = "uptime" /\ proc'[p].line = proc[p].line + 1 /\ proc'[p].std = proc[p].std
                 /\ proc[p].line < NLines /\ Sends(proc[p].std, proc[p].line + 1)
              \/ proc'[p].at = "gone" /\ proc[p].line = NLines /\ text' = text
<1>0. /\ proc[p].std \in Client /\ proc[p].line <= NLines /\ upprog' = upprog /\ proc[p].line \in Nat
      /\ proc[p].line + 1 \in Nat /\ NLines \in Nat /\ proc[p].at = "uptime"
  BY UptimeAssumption DEF UpTypes, RecordOk, uptime, Process
<1>1. CASE /\ proc[p].line < NLines /\ Sends(proc[p].std, proc[p].line + 1)
           /\ proc' = [proc EXCEPT ![p].line = @ + 1]
  <2>1. text' \in [Client -> Seq(Nat)]
    BY Zenon, <1>0, <1>1, SendsIs DEF UpTypes
  <2> QED BY Zenon, <1>0, <1>1, <2>1, NextLineIs DEF UpTypes, uptime
<1>2. CASE ~(proc[p].line < NLines) /\ proc' = [proc EXCEPT ![p] = [NoServer EXCEPT !.at = "gone"]] /\ text' = text
  <2>1. /\ proc' \in [ServerProc -> Process] /\ (\A q \in ServerProc : RecordOk(proc[q]))' /\ Others(p)
        /\ proc'[p].at = "gone"
    BY Zenon, <1>0, <1>2, GoneIs
  <2>2. proc[p].line = NLines
    BY <1>0, <1>2
  <2> QED BY Zenon, <1>0, <1>2, <2>1, <2>2 DEF UpTypes, uptime
<1> QED BY Zenon, <1>1, <1>2 DEF uptime

\* fork makes one new process, for the same client.
LEMMA ServeForkIs ==
    ASSUME UpTypes, NEW p \in ServerProc, ServeFork(p)
    PROVE  /\ UpTypes' /\ (procfail => procfail')
           /\ ~procfail' =>
                \E k \in ServerProc \ {p} :
                    /\ proc[k].at = "none"
                    /\ \A q \in ServerProc : q \notin {p, k} => proc'[q] = proc[q]
                    /\ proc'[p].at = "parent" /\ proc'[p].kid = k
                    /\ proc'[k].at = "dup2" /\ proc'[k].clfd = proc[p].clfd /\ proc'[k].line = proc[p].line
<1>0. proc[p] \in Process /\ RecordOk(proc[p]) /\ proc[p].at = "fork" /\ upprog' = upprog
  BY Zenon DEF UpTypes, ServeFork
<1> DEFINE Forks(k) ==
             /\ proc[k].at = "none"
             /\ \A q \in ServerProc : q \notin {p, k} => proc'[q] = proc[q]
             /\ proc'[p].at = "parent" /\ proc'[p].kid = k
             /\ proc'[k].at = "dup2" /\ proc'[k].clfd = proc[p].clfd /\ proc'[k].line = proc[p].line
<1>1. ASSUME NEW k \in ServerProc, proc[k].at = "none", procfail' = procfail,
             proc' = [proc EXCEPT ![p].at = "parent", ![p].kid = k, ![k] = [proc[p] EXCEPT !.at = "dup2"]]
      PROVE  UpTypes' /\ k # p /\ Forks(k)
  <2> DEFINE r == [proc[p] EXCEPT !.at = "parent", !.kid = k]
             d == [proc[p] EXCEPT !.at = "dup2"]
  <2>0. k # p /\ k \in Nat
    BY <1>0, <1>1 DEF ServerProc
  <2>1. r \in Process /\ r.at = "parent" /\ r.kid = k
    BY Zenon, <1>0, <2>0 DEF Process
  <2>2. d \in Process /\ d.at = "dup2" /\ d.clfd = proc[p].clfd /\ d.line = proc[p].line
    BY Zenon, <1>0 DEF Process
  <2>3. proc' = [proc EXCEPT ![p] = r, ![k] = d]
    BY Zenon, <1>1, <2>0 DEF UpTypes
  <2> HIDE DEF r, d
  <2>4. RecordOk(r) /\ RecordOk(d)
    BY Zenon, <1>0, <2>1, <2>2 DEF RecordOk
  <2>5. /\ proc' \in [ServerProc -> Process] /\ proc'[p] = r /\ proc'[k] = d
        /\ \A q \in ServerProc : q \notin {p, k} => proc'[q] = proc[q]
    BY Zenon, <2>0, <2>1, <2>2, <2>3 DEF UpTypes
  <2>6. (\A q \in ServerProc : RecordOk(proc[q]))'
    BY Zenon, <1>0, <2>4, <2>5 DEF UpTypes, RecordOk, Last
  <2>7. UpTypes'
    BY Zenon, <1>1, <2>5, <2>6 DEF UpTypes, ServeFork
  <2> QED BY Zenon, <1>1, <2>0, <2>1, <2>2, <2>5, <2>7
<1>2. ASSUME proc' = [proc EXCEPT ![p] = [NoServer EXCEPT !.at = "gone"]], procfail' = TRUE
      PROVE  UpTypes'
  <2>1. proc' \in [ServerProc -> Process] /\ (\A q \in ServerProc : RecordOk(proc[q]))'
    BY Zenon, <1>0, <1>2, GoneIs
  <2> QED BY Zenon, <1>2, <2>1 DEF UpTypes, ServeFork
<1> HIDE DEF Forks
<1>3. CASE procfail' = TRUE /\ proc' = [proc EXCEPT ![p] = [NoServer EXCEPT !.at = "gone"]]
  BY Zenon, <1>2, <1>3
<1>4. ASSUME ~(procfail' = TRUE /\ proc' = [proc EXCEPT ![p] = [NoServer EXCEPT !.at = "gone"]])
      PROVE  UpTypes' /\ (procfail => procfail') /\ \E k \in ServerProc \ {p} : Forks(k)
  <2>1. PICK k \in ServerProc :
            /\ proc[k].at = "none" /\ procfail' = procfail
            /\ proc' = [proc EXCEPT ![p].at = "parent", ![p].kid = k, ![k] = [proc[p] EXCEPT !.at = "dup2"]]
    BY Zenon, <1>4 DEF ServeFork
  <2>2. UpTypes' /\ k # p /\ Forks(k)
    BY Zenon, <1>1, <2>1
  <2>3. k \in ServerProc \ {p}
    BY Zenon, <2>2
  <2> QED BY Zenon, <2>1, <2>2, <2>3
<1> QED BY Zenon, <1>3, <1>4 DEF Forks

\* The server closes the socket, or waits, and accepts again.
LEMMA ServeCloseIs ==
    ASSUME UpTypes, NEW p \in ServerProc, ServeClose(p)
    PROVE  UpTypes' /\ Others(p) /\ proc'[p].at = "accept"
BY Zenon, ServedIs DEF UpTypes, ServeClose

LEMMA ServeParentIs ==
    ASSUME UpTypes, NEW p \in ServerProc, ServeParent(p)
    PROVE  UpTypes' /\ Others(p) /\ proc'[p].at = "waitpid" /\ proc'[p].kid = proc[p].kid
BY Zenon, ServedIs DEF UpTypes, ServeParent

LEMMA ServeWaitIs ==
    ASSUME UpTypes, NEW p \in ServerProc, ServeWait(p)
    PROVE  UpTypes' /\ Others(p) /\ proc'[p].at = "accept"
BY Zenon, GoToIs DEF UpTypes, ServeWait

\* A step of a client leaves the servers alone.
LEMMA ClientTypes ==
    ASSUME UpTypes, NEW c \in Client, ClientStep(c) \/ LoseDatagram(c)
    PROVE  UpTypes' /\ proc' = proc /\ upprog' = upprog /\ procfail' = procfail
<1>1. proc' = proc /\ upprog' = upprog /\ procfail' = procfail
  BY Zenon DEF ClientStep, LoseDatagram, connect_retry, print_uptime, SendDatagram, StartAlarm, sigalrm, CallRecvfrom,
         ReadDatagram
<1>2. backlog0' = backlog0 \/ backlog0' = Append(backlog0, c)
  BY Zenon DEF ClientStep, LoseDatagram, connect_retry, print_uptime, SendDatagram, StartAlarm, sigalrm, CallRecvfrom,
         ReadDatagram
<1>3. \/ text' = text /\ heard' = heard
      \/ /\ text[c] # << >> /\ text' = [text EXCEPT ![c] = Tail(text[c])]
         /\ \/ heard' = heard
            \/ heard' = [heard EXCEPT ![c] = Append(heard[c], Head(text[c]))]
            \/ heard' = [heard EXCEPT ![c] = <<Head(text[c])>>]
  BY Zenon DEF ClientStep, LoseDatagram, connect_retry, print_uptime, SendDatagram, StartAlarm, sigalrm, CallRecvfrom,
         ReadDatagram
<1>4. backlog0' \in Seq(Client)
  <2>1. \A S : \A s \in Seq(S), x \in S : Append(s, x) \in Seq(S)
    BY SMT
  <2> QED BY Zenon, <1>2, <2>1 DEF UpTypes
<1>5. text' \in [Client -> Seq(Nat)] /\ heard' \in [Client -> Seq(Nat)]
  <2>1. \A s \in Seq(Nat) : s # << >> => Head(s) \in Nat /\ Tail(s) \in Seq(Nat) /\ <<Head(s)>> \in Seq(Nat)
    BY SMT
  <2>2. \A s \in Seq(Nat), x \in Nat : Append(s, x) \in Seq(Nat)
    BY SMT
  <2>3. text[c] \in Seq(Nat) /\ heard[c] \in Seq(Nat)
    BY Zenon DEF UpTypes
  <2>4. \A f \in [Client -> Seq(Nat)], s \in Seq(Nat) : [f EXCEPT ![c] = s] \in [Client -> Seq(Nat)]
    BY SMT
  <2>5. CASE text' = text /\ heard' = heard
    BY Zenon, <2>5 DEF UpTypes
  <2>6. CASE text[c] # << >> /\ text' = [text EXCEPT ![c] = Tail(text[c])]
    <3>1. text' \in [Client -> Seq(Nat)]
      BY Zenon, <2>1, <2>3, <2>4, <2>6 DEF UpTypes
    <3>2. Append(heard[c], Head(text[c])) \in Seq(Nat) /\ <<Head(text[c])>> \in Seq(Nat)
      BY Zenon, <2>1, <2>2, <2>3, <2>6
    <3>3. CASE heard' = heard
      BY Zenon, <3>1, <3>3 DEF UpTypes
    <3>4. CASE heard' = [heard EXCEPT ![c] = Append(heard[c], Head(text[c]))]
      BY Zenon, <2>4, <3>1, <3>2, <3>4 DEF UpTypes
    <3>5. CASE heard' = [heard EXCEPT ![c] = <<Head(text[c])>>]
      BY Zenon, <2>4, <3>1, <3>2, <3>5 DEF UpTypes
    <3> QED BY Zenon, <1>3, <3>1, <3>3, <3>4, <3>5 DEF UpTypes
  <2> QED BY Zenon, <1>3, <2>5, <2>6
<1>6. (\A p \in ServerProc : RecordOk(proc[p]))'
  BY Zenon, <1>1 DEF UpTypes, RecordOk, Last
<1> QED BY Zenon, <1>1, <1>4, <1>5, <1>6 DEF UpTypes

(***************************************************************************)
(* The invariants.                                                         *)
(***************************************************************************)
\* A datagram is the first line or the error.
DgramInv ==
    /\ \A p \in ServerProc : proc[p].at \notin {"fork", "parent", "waitpid", "dup2", "uptime"}
    /\ \A c \in Client : /\ text[c] \in Seq({0, 1})
                         /\ clt[c].at = "done" => heard[c] \in {<<1>>, <<ErrorLine>>}

\* Only the first process accepts; another is the child it waits for, or gone.
Structure ==
    /\ proc[1].at \notin {"none", "dup2", "uptime"}
    /\ \A p \in ServerProc : p # 1 =>
          /\ proc[p].at \in {"none", "gone", "dup2", "uptime"}
          /\ proc[p].at \in {"dup2", "uptime"} => proc[1].at \in {"parent", "waitpid"} /\ proc[1].kid = p
    /\ backlog0 # << >> => proc[1].at \notin {"initserver", "gone"}

\* The client whose answer process p is sending.
Serving(p, c) ==
    \/ proc[p].at \in {"popen", "fgets", "fork", "dup2"} /\ proc[p].clfd = c
    \/ proc[p].at = "uptime" /\ proc[p].std = c

\* A client that connected and was not accepted; what it was sent; the first
\* lines of the answer; a whole answer.
Queued(c) == \E i \in DOMAIN backlog0 : backlog0[i] = c
Sent(c) == heard[c] \o text[c]
Lines(n) == [i \in 1 .. n |-> i]
Whole(c) == Sent(c) \in {UptimeLines, <<ErrorLine>>}

\* Where a client is, and what it has been sent.
Stage(c) ==
    /\ clt[c].at \in {"start", "failed"} => Sent(c) = << >> /\ ~Queued(c) /\ \A p \in ServerProc : ~Serving(p, c)
    /\ Queued(c) => clt[c].at = "recv" /\ Sent(c) = << >> /\ \A p \in ServerProc : ~Serving(p, c)
    /\ \A p \in ServerProc : Serving(p, c) => clt[c].at = "recv" /\ Sent(c) = Lines(proc[p].line)
    /\ clt[c].at \in {"recv", "done"} /\ ~Queued(c) /\ (\A p \in ServerProc : ~Serving(p, c)) => Whole(c)
    /\ clt[c].at = "done" => text[c] = << >>

\* A client is in the queue once.
Once == \A i, j \in DOMAIN backlog0 : backlog0[i] = backlog0[j] => i = j

\* For the servers with a connection, and the inductive invariant of all.
StreamInv == Structure /\ Once /\ \A c \in Client : Stage(c)

UpInv ==
    /\ UpTypes /\ RetryInv
    /\ upprog = "dgram" => DgramInv
    /\ upprog # "dgram" /\ ~procfail => StreamInv

\* With datagrams: every step keeps this.
LEMMA DgramSteps ==
    ASSUME UpTypes, RetryInv, DgramInv, upprog = "dgram", [upNext]_upvars
    PROVE  DgramInv'
<1> DEFINE Texts == \A c \in Client : text[c] \in Seq({0, 1})
           Heards == \A c \in Client : clt[c].at = "done" => heard[c] \in {<<1>>, <<ErrorLine>>}
           Places == \A p \in ServerProc : proc[p].at \notin {"fork", "parent", "waitpid", "dup2", "uptime"}
<1>0. Texts /\ Heards /\ Places /\ text \in [Client -> Seq(Nat)] /\ heard \in [Client -> Seq(Nat)]
  BY Zenon DEF DgramInv, UpTypes
<1>1. SUFFICES Texts' /\ Heards' /\ Places'
  BY Zenon DEF DgramInv
<1>2. \A s \in Seq({0, 1}), x \in {0, 1} : Append(s, x) \in Seq({0, 1})
  BY SMT
<1>3. \A s \in Seq({0, 1}) : s # << >> => Head(s) \in {0, 1} /\ Tail(s) \in Seq({0, 1})
  BY SMT
<1>4. ASSUME NEW p \in ServerProc, Others(p), proc'[p].at \in {"accept", "gone", "popen", "fgets", "close"}
      PROVE  Places'
  BY Zenon, <1>0, <1>4 DEF Others
<1>5. ASSUME NEW c \in Client, NEW x \in {0, 1}, Sends(c, x) PROVE Texts'
  <2>1. text'[c] = Append(text[c], x) /\ \A d \in Client : d # c => text'[d] = text[d]
    BY ZenonT(40), <1>0, <1>5, SendsIs
  <2> QED BY Zenon, <1>0, <1>2, <2>1
<1>6. ASSUME text' = text PROVE Texts'
  BY Zenon, <1>0, <1>6
<1>7. ASSUME clt' = clt, heard' = heard PROVE Heards'
  BY Zenon, <1>0, <1>7
<1> HIDE DEF Texts, Heards, Places
<1>8. CASE UNCHANGED upvars
  BY Zenon, <1>0, <1>8 DEF upvars, Texts, Heards, Places
<1>9. CASE ServerStep
  <2>1. Heards'
    <3>1. clt' = clt /\ heard' = heard
      BY Zenon, <1>9 DEF ServerStep, initserver, Accept, ServePopen, ServeLine, ServeClose, ServeFork, ServeParent,
                  ServeWait, ServeChild, uptime
    <3> QED BY ZenonT(40), <1>7, <3>1
  <2>2. CASE initserver
    <3>1. Others(1) /\ (proc'[1] = proc[1] \/ proc'[1].at \in {"accept", "gone"}) /\ text' = text
      BY Zenon, <2>2, initserverIs DEF initserver
    <3>2. 1 \in ServerProc
      BY UptimeAssumption DEF ServerProc
    <3>3. Places'
      BY Zenon, <1>0, <3>1, <3>2 DEF Others, Places
    <3> QED BY Zenon, <1>6, <2>1, <3>1, <3>3
  <2>3. ASSUME NEW p \in ServerProc, Accept(p) PROVE Texts' /\ Places'
    <3>1. Others(p) /\ proc'[p].at = "popen" /\ text' = text
      BY Zenon, <2>3, AcceptIs DEF Accept
    <3> QED BY ZenonT(40), <1>4, <1>6, <3>1
  <2>4. ASSUME NEW p \in ServerProc, ServePopen(p) PROVE Texts' /\ Places'
    <3>1. /\ Others(p) /\ proc[p].clfd \in Client
          /\ \/ proc'[p].at = "fgets" /\ text' = text
             \/ proc'[p].at = "close" /\ Sends(proc[p].clfd, ErrorLine)
      BY Zenon, <2>4, ServePopenIs
    <3>2. ErrorLine \in {0, 1}
      BY Zenon DEF ErrorLine
    <3> QED BY Zenon, <1>4, <1>5, <1>6, <3>1, <3>2
  <2>5. ASSUME NEW p \in ServerProc, ServeLine(p) PROVE Texts' /\ Places'
    <3>1. /\ Others(p) /\ proc[p].clfd \in Client /\ proc[p].line \in Nat
          /\ \/ proc'[p].at = "fgets" /\ proc[p].line < Last /\ Sends(proc[p].clfd, proc[p].line + 1)
             \/ proc'[p].at = "close" /\ text' = text
      BY Zenon, <2>5, ServeLineIs
    <3>2. proc[p].line < Last => proc[p].line + 1 \in {0, 1}
      BY <3>1 DEF Last
    <3> QED BY Zenon, <1>4, <1>5, <1>6, <3>1, <3>2
  <2>6. ASSUME NEW p \in ServerProc, ServeClose(p) PROVE Texts' /\ Places'
    <3>1. Others(p) /\ proc'[p].at = "accept" /\ text' = text
      BY Zenon, <2>6, ServeCloseIs DEF ServeClose
    <3> QED BY Zenon, <1>4, <1>6, <3>1
  <2>7. ASSUME NEW p \in ServerProc PROVE ~(ServeFork(p) \/ ServeParent(p) \/ ServeWait(p) \/ ServeChild(p) \/ uptime(p))
    BY Zenon, <1>0 DEF Places, ServeFork, ServeParent, ServeWait, ServeChild, uptime
  <2> QED BY Zenon, <1>9, <2>1, <2>2, <2>3, <2>4, <2>5, <2>6, <2>7 DEF ServerStep
<1>10. ASSUME NEW c \in Client, ClientStep(c) \/ LoseDatagram(c) PROVE Texts' /\ Heards' /\ Places'
  <2>1. Places'
    <3>1. proc' = proc
      BY Zenon, <1>10, ClientTypes
    <3> QED BY Zenon, <1>0, <3>1 DEF Places
  <2>2. text[c] \in Seq({0, 1}) /\ clt[c] \in Attempt /\ clt \in [Client -> Attempt]
    BY Zenon, <1>0 DEF Texts, RetryInv
  <2>3. ASSUME text[c] # << >>, text' = [text EXCEPT ![c] = Tail(@)] PROVE Texts'
    <3>1. text'[c] = Tail(text[c]) /\ \A d \in Client : d # c => text'[d] = text[d]
      BY Zenon, <1>0, <2>3
    <3> QED BY Zenon, <1>0, <1>3, <2>2, <2>3, <3>1 DEF Texts
  <2>4. ASSUME heard' = heard, \/ \E a \in {"alarm", "armed", "recvfrom", "failed"} : clt' = [clt EXCEPT ![c].at = a]
                               \/ clt' = [clt EXCEPT ![c].early = TRUE]
        PROVE  Heards'
    <3>1. \A d \in Client : clt'[d].at = "done" => clt[d].at = "done"
      BY <2>2, <2>4 DEF Attempt
    <3> QED BY Zenon, <1>0, <2>4, <3>1 DEF Heards
  <2>5. CASE LoseDatagram(c)
    BY Zenon, <1>7, <2>1, <2>3, <2>5 DEF LoseDatagram
  <2>6. CASE SendDatagram(c)
    BY Zenon, <1>6, <2>1, <2>4, <2>6 DEF SendDatagram
  <2>7. CASE StartAlarm(c)
    BY Zenon, <1>6, <2>1, <2>4, <2>7 DEF StartAlarm
  <2>8. CASE sigalrm(c)
    BY Zenon, <1>6, <2>1, <2>4, <2>8 DEF sigalrm
  <2>9. CASE CallRecvfrom(c)
    BY Zenon, <1>6, <2>1, <2>4, <2>9 DEF CallRecvfrom
  <2>10. CASE ReadDatagram(c)
    <3>1. text[c] # << >> /\ text' = [text EXCEPT ![c] = Tail(@)]
      BY Zenon, <2>10 DEF ReadDatagram
    <3>2. Head(text[c]) \in {0, 1}
      BY Zenon, <1>3, <2>2, <3>1
    <3>3. heard'[c] = <<Head(text[c])>> /\ \A d \in Client : d # c => heard'[d] = heard[d] /\ clt'[d] = clt[d]
      BY Zenon, <1>0, <2>2, <2>10 DEF ReadDatagram
    <3>4. heard'[c] \in {<<1>>, <<ErrorLine>>}
      BY Zenon, <3>2, <3>3 DEF ErrorLine
    <3>5. Heards'
      BY Zenon, <1>0, <3>3, <3>4 DEF Heards
    <3> QED BY Zenon, <2>1, <2>3, <3>1, <3>5
  <2>11. ~connect_retry(c) /\ ~print_uptime(c)
    BY Zenon DEF connect_retry, print_uptime
  <2> QED BY Zenon, <1>10, <2>5, <2>6, <2>7, <2>8, <2>9, <2>10, <2>11 DEF ClientStep
<1> QED BY Zenon, <1>8, <1>9, <1>10 DEF upNext

\* Which process does what, when nothing failed.
LEMMA StructureSteps ==
    ASSUME UpTypes, Structure, upprog # "dgram", ~procfail, ~procfail', [upNext]_upvars
    PROVE  Structure'
<1>0. 1 \in ServerProc
  BY UptimeAssumption DEF ServerProc
<1>1. ASSUME NEW p \in ServerProc, proc[p].at \notin {"none", "gone", "dup2", "uptime"} PROVE p = 1
  BY Zenon, <1>1 DEF Structure
<1>2. ASSUME Others(1), backlog0' # << >> => backlog0 # << >>,
             proc[1].at \notin {"parent", "waitpid"} \/ proc[proc[1].kid].at \notin {"dup2", "uptime"},
             proc'[1].at \in {"accept", "popen", "fork", "fgets", "close"}
      PROVE  Structure'
  BY <1>0, <1>2 DEF Structure, Others
<1>3. ASSUME UNCHANGED <<proc, backlog0>> PROVE Structure'
  BY Zenon, <1>3 DEF Structure
<1>4. CASE UNCHANGED upvars
  BY Zenon, <1>3, <1>4 DEF upvars
<1>5. CASE ServerStep
  <2>1. CASE initserver
    <3>1. Others(1) /\ backlog0' = backlog0 /\ proc[1].at = "initserver"
      BY Zenon, <2>1, initserverIs DEF initserver
    <3>2. proc'[1] = proc[1] \/ proc'[1].at \in {"accept", "gone"}
      BY Zenon, <2>1, initserverIs
    <3> QED BY Zenon, <1>0, <3>1, <3>2 DEF Structure, Others
  <2>2. ASSUME NEW p \in ServerProc, Accept(p) PROVE Structure'
    <3>1. p = 1 /\ backlog0 # << >> /\ proc[1].at = "accept"
      BY Zenon, <1>1, <2>2 DEF Accept
    <3>2. Others(1) /\ proc'[1].at \in {"popen", "fork"}
      BY Zenon, <2>2, <3>1, AcceptIs
    <3> QED BY Zenon, <1>2, <3>1, <3>2
  <2>3. ASSUME NEW p \in ServerProc, ServePopen(p) PROVE Structure'
    <3>1. p = 1 /\ backlog0' = backlog0 /\ proc[1].at = "popen"
      BY Zenon, <1>1, <2>3 DEF ServePopen
    <3>2. Others(1) /\ proc'[1].at \in {"fgets", "close"}
      BY Zenon, <2>3, <3>1, ServePopenIs
    <3> QED BY Zenon, <1>2, <3>1, <3>2
  <2>4. ASSUME NEW p \in ServerProc, ServeLine(p) PROVE Structure'
    <3>1. p = 1 /\ backlog0' = backlog0 /\ proc[1].at = "fgets"
      BY Zenon, <1>1, <2>4 DEF ServeLine
    <3>2. Others(1) /\ proc'[1].at \in {"fgets", "close"}
      BY Zenon, <2>4, <3>1, ServeLineIs
    <3> QED BY Zenon, <1>2, <3>1, <3>2
  <2>5. ASSUME NEW p \in ServerProc, ServeClose(p) PROVE Structure'
    <3>1. p = 1 /\ backlog0' = backlog0 /\ proc[1].at = "close"
      BY Zenon, <1>1, <2>5 DEF ServeClose
    <3>2. Others(1) /\ proc'[1].at = "accept"
      BY Zenon, <2>5, <3>1, ServeCloseIs
    <3> QED BY Zenon, <1>2, <3>1, <3>2
  <2>6. ASSUME NEW p \in ServerProc, ServeFork(p) PROVE Structure'
    <3>1. p = 1 /\ backlog0' = backlog0 /\ proc[1].at = "fork"
      BY Zenon, <1>1, <2>6 DEF ServeFork
    <3>2. PICK k \in ServerProc \ {1} :
              /\ \A q \in ServerProc : q \notin {1, k} => proc'[q] = proc[q]
              /\ proc'[1].at = "parent" /\ proc'[1].kid = k /\ proc'[k].at = "dup2"
      <4>1. ServeFork(1)
        BY Zenon, <2>6, <3>1
      <4> QED BY ZenonT(40), <1>0, <4>1, ServeForkIs
    <3> QED BY Zenon, <1>0, <3>1, <3>2 DEF Structure
  <2>7. ASSUME NEW p \in ServerProc, ServeParent(p) PROVE Structure'
    <3>1. p = 1 /\ backlog0' = backlog0 /\ proc[1].at = "parent"
      BY Zenon, <1>1, <2>7 DEF ServeParent
    <3>2. Others(1) /\ proc'[1].at = "waitpid" /\ proc'[1].kid = proc[1].kid
      BY Zenon, <2>7, <3>1, ServeParentIs
    <3> QED BY Zenon, <1>0, <3>1, <3>2 DEF Structure, Others
  <2>8. ASSUME NEW p \in ServerProc, ServeWait(p) PROVE Structure'
    <3>1. p = 1 /\ backlog0' = backlog0 /\ proc[1].at = "waitpid" /\ proc[proc[1].kid].at = "gone"
      BY Zenon, <1>1, <2>8 DEF ServeWait
    <3>2. Others(1) /\ proc'[1].at = "accept"
      BY Zenon, <2>8, <3>1, ServeWaitIs
    <3> QED BY Zenon, <1>2, <3>1, <3>2
  <2>9. ASSUME NEW p \in ServerProc, Others(p), proc[p].at \in {"dup2", "uptime"}, backlog0' = backlog0,
               proc'[p].at \in {"uptime", "gone"}
        PROVE  Structure'
    <3>1. p # 1
      BY Zenon, <2>9 DEF Structure
    <3>2. proc'[1] = proc[1]
      BY Zenon, <1>0, <2>9, <3>1 DEF Others
    <3> QED BY <1>0, <2>9, <3>1, <3>2 DEF Structure, Others
  <2>10. ASSUME NEW p \in ServerProc, ServeChild(p) PROVE Structure'
    <3>1. Others(p) /\ proc'[p].at = "uptime"
      BY Zenon, <2>10, ServeChildIs
    <3> QED BY Zenon, <2>9, <2>10, <3>1 DEF ServeChild
  <2>11. ASSUME NEW p \in ServerProc, uptime(p) PROVE Structure'
    <3>1. Others(p) /\ proc'[p].at \in {"uptime", "gone"}
      BY Zenon, <2>11, uptimeIs
    <3> QED BY Zenon, <2>9, <2>11, <3>1 DEF uptime
  <2> QED BY Zenon, <1>5, <2>1, <2>2, <2>3, <2>4, <2>5, <2>6, <2>7, <2>8, <2>10, <2>11 DEF ServerStep
<1>6. ASSUME NEW c \in Client, ClientStep(c) \/ LoseDatagram(c) PROVE Structure'
  <2>1. proc' = proc
    BY Zenon, <1>6, ClientTypes
  <2>2. \/ backlog0' = backlog0
        \/ Listening
    BY Zenon, <1>6 DEF ClientStep, LoseDatagram, connect_retry, print_uptime, SendDatagram, StartAlarm, sigalrm, CallRecvfrom,
         ReadDatagram
  <2>3. CASE backlog0' = backlog0
    BY Zenon, <1>3, <2>1, <2>3
  <2>4. CASE Listening
    <3>1. PICK p \in ServerProc : proc[p].at \notin {"none", "initserver", "gone", "uptime"}
      BY Zenon, <2>4 DEF Listening
    <3>2. proc[1].at \notin {"initserver", "gone"}
      BY Zenon, <3>1 DEF Structure
    <3> QED BY Zenon, <2>1, <3>2 DEF Structure
  <2> QED BY Zenon, <2>2, <2>3, <2>4
<1> QED BY Zenon, <1>4, <1>5, <1>6 DEF upNext

(***************************************************************************)
(* What a client was sent.                                                 *)
(***************************************************************************)
LEMMA LinesGrow ==
    /\ Lines(0) = << >> /\ Lines(NLines) = UptimeLines
    /\ \A n \in Nat : Append(Lines(n), n + 1) = Lines(n + 1)
<1>1. Lines(0) = << >>
  BY DEF Lines
<1>2. ASSUME NEW n \in Nat PROVE Append(Lines(n), n + 1) = Lines(n + 1)
  BY DEF Lines
<1> QED BY Zenon, <1>1, <1>2 DEF Lines, UptimeLines

\* What was sent, when a line is sent and when one is read.
LEMMA SentGrows ==
    ASSUME NEW s \in Seq(Nat), NEW t \in Seq(Nat)
    PROVE  /\ \A x \in Nat : s \o Append(t, x) = Append(s \o t, x)
           /\ t # << >> => Append(s, Head(t)) \o Tail(t) = s \o t
           /\ s = << >> /\ t = << >> <=> s \o t = << >>
           /\ t = << >> => s \o t = s
<1>1. ASSUME NEW x \in Nat PROVE s \o Append(t, x) = Append(s \o t, x)
  BY SMT
<1>2. ASSUME t # << >> PROVE Append(s, Head(t)) \o Tail(t) = s \o t
  BY SMTT(40), <1>2
<1>3. s = << >> /\ t = << >> <=> s \o t = << >>
  BY SMT
<1>4. ASSUME t = << >> PROVE s \o t = s
  BY <1>4, SMT
<1> QED BY Zenon, <1>1, <1>2, <1>3, <1>4

\* A client that is where it was, and has been sent what it had been.
LEMMA StageKept ==
    ASSUME NEW c \in Client, Stage(c), Sent(c)' = Sent(c), clt'[c].at = clt[c].at,
           clt[c].at = "done" => text'[c] = text[c],
           Queued(c)' <=> Queued(c),
           \A p \in ServerProc : Serving(p, c)' => \E q \in ServerProc : Serving(q, c) /\ proc'[p].line = proc[q].line,
           \A q \in ServerProc : Serving(q, c) => \E p \in ServerProc : Serving(p, c)'
    PROVE  Stage(c)'
<1>1. Whole(c) => Whole(c)'
  BY Zenon DEF Whole, UptimeLines
<1>2. \A n : Lines(n)' = Lines(n)
  BY Zenon DEF Lines
<1>3. (clt[c].at \in {"start", "failed"} => Sent(c) = << >> /\ ~Queued(c) /\ \A p \in ServerProc : ~Serving(p, c))'
  BY Zenon DEF Stage
<1>4. (Queued(c) => clt[c].at = "recv" /\ Sent(c) = << >> /\ \A p \in ServerProc : ~Serving(p, c))'
  BY Zenon DEF Stage
<1>5. (\A p \in ServerProc : Serving(p, c) => clt[c].at = "recv" /\ Sent(c) = Lines(proc[p].line))'
  BY Zenon, <1>2 DEF Stage
<1>6. (clt[c].at \in {"recv", "done"} /\ ~Queued(c) /\ (\A p \in ServerProc : ~Serving(p, c)) => Whole(c))'
  BY Zenon, <1>1 DEF Stage
<1>7. (clt[c].at = "done" => text[c] = << >>)'
  BY Zenon DEF Stage
<1> QED BY Zenon, <1>3, <1>4, <1>5, <1>6, <1>7 DEF Stage

\* Taking the first of the backlog.
LEMMA TailIs ==
    ASSUME backlog0 \in Seq(Client), backlog0 # << >>, Once, backlog0' = Tail(backlog0)
    PROVE  /\ Once' /\ \A d \in Client : d = Head(backlog0) => Queued(d) /\ ~Queued(d)'
           /\ \A d \in Client : d # Head(backlog0) => (Queued(d)' <=> Queued(d))
<1> DEFINE n == Len(backlog0)
<1>1. /\ n \in Nat \ {0} /\ DOMAIN backlog0 = 1 .. n /\ DOMAIN (backlog0') = 1 .. n - 1
      /\ Head(backlog0) = backlog0[1] /\ \A i \in 1 .. n - 1 : (backlog0')[i] = backlog0[i + 1]
  BY SMT
<1> HIDE DEF n
<1>2. Once'
  BY <1>1 DEF Once
<1>3. Queued(backlog0[1])
  BY <1>1 DEF Queued
<1>4. ~\E i \in 1 .. n - 1 : (backlog0')[i] = backlog0[1]
  BY <1>1 DEF Once
<1>5. ASSUME NEW d \in Client, d # backlog0[1]
      PROVE  (\E i \in 1 .. n - 1 : (backlog0')[i] = d) <=> (\E i \in 1 .. n : backlog0[i] = d)
  <2>1. ASSUME NEW i \in 1 .. n - 1, (backlog0')[i] = d PROVE \E j \in 1 .. n : backlog0[j] = d
    <3>1. i + 1 \in 1 .. n /\ backlog0[i + 1] = d
      BY <1>1, <2>1
    <3> QED BY Zenon, <3>1
  <2>2. ASSUME NEW i \in 1 .. n, backlog0[i] = d PROVE \E j \in 1 .. n - 1 : (backlog0')[j] = d
    <3>1. i # 1
      BY Zenon, <1>5, <2>2
    <3>2. i - 1 \in 1 .. n - 1 /\ (backlog0')[i - 1] = d
      <4>1. i - 1 \in 1 .. n - 1 /\ i - 1 + 1 = i
        BY <1>1, <3>1
      <4> QED BY Zenon, <1>1, <2>2, <4>1
    <3> QED BY Zenon, <3>2
  <2> QED BY Zenon, <2>1, <2>2
<1> QED BY Zenon, <1>1, <1>2, <1>3, <1>4, <1>5 DEF Queued

\* Joining the backlog.
LEMMA JoinIs ==
    ASSUME backlog0 \in Seq(Client), NEW c \in Client, Once, ~Queued(c), backlog0' = Append(backlog0, c)
    PROVE  Once' /\ Queued(c)' /\ \A d \in Client : d # c => (Queued(d)' <=> Queued(d))
<1> DEFINE n == Len(backlog0)
<1>1. /\ n \in Nat /\ DOMAIN backlog0 = 1 .. n /\ DOMAIN (backlog0') = 1 .. n + 1
      /\ (backlog0')[n + 1] = c /\ \A i \in 1 .. n : (backlog0')[i] = backlog0[i]
  BY SMT
<1> HIDE DEF n
<1>2. \A i \in 1 .. n : backlog0[i] # c
  BY Zenon, <1>1 DEF Queued
<1>3. Once'
  BY <1>1, <1>2 DEF Once
<1>4. n + 1 \in 1 .. n + 1 /\ \A i \in 1 .. n + 1 : i # n + 1 => i \in 1 .. n
  BY <1>1
<1>5. 1 .. n \subseteq 1 .. n + 1
  BY <1>1
<1> QED BY Zenon, <1>1, <1>3, <1>4, <1>5 DEF Queued

\* A step of the server keeps the stages of the clients.
LEMMA ServerStages ==
    ASSUME UpTypes, StreamInv, upprog # "dgram", ~procfail, ~procfail', ServerStep
    PROVE  Once' /\ \A c \in Client : Stage(c)'
<1>0. Structure /\ Once /\ \A c \in Client : Stage(c)
  BY Zenon DEF StreamInv
<1>1. ASSUME NEW p \in ServerProc, NEW q \in ServerProc, NEW c, NEW d, Serving(p, c), Serving(q, d) PROVE p = q /\ c = d
  BY SMTT(40), <1>0, <1>1 DEF Structure, Serving
<1>2. heard' = heard /\ clt' = clt /\ heard \in [Client -> Seq(Nat)] /\ text \in [Client -> Seq(Nat)]
  BY Zenon DEF ServerStep, initserver, Accept, ServePopen, ServeLine, ServeClose, ServeFork, ServeParent,
              ServeWait, ServeChild, uptime, UpTypes
\* One process goes on, for the same client.
<1>3. ASSUME NEW p \in ServerProc, Others(p), backlog0' = backlog0, text' = text,
             \A c \in Client : Serving(p, c)' <=> Serving(p, c),
             \A c \in Client : Serving(p, c) => proc'[p].line = proc[p].line
      PROVE  Once' /\ \A c \in Client : Stage(c)'
  <2>1. Once'
    BY Zenon, <1>0, <1>3 DEF Once
  <2>2. ASSUME NEW c \in Client PROVE Stage(c)'
    <3>1. \A q \in ServerProc : (Serving(q, c)' <=> Serving(q, c)) /\ (Serving(q, c) => proc'[q].line = proc[q].line)
      BY ZenonT(40), <1>3 DEF Others, Serving
    <3>2. Sent(c)' = Sent(c) /\ (Queued(c)' <=> Queued(c)) /\ clt'[c].at = clt[c].at /\ text'[c] = text[c] /\ Stage(c)
      BY Zenon, <1>0, <1>2, <1>3 DEF Sent, Queued
    <3> QED BY Zenon, <3>1, <3>2, StageKept
  <2> QED BY Zenon, <2>1, <2>2
\* It sends another line to its client.
<1>4. ASSUME NEW p \in ServerProc, NEW c \in Client, Serving(p, c), Others(p), backlog0' = backlog0,
             proc[p].line \in Nat, Sends(c, proc[p].line + 1), proc'[p].line = proc[p].line + 1,
             \A d \in Client : Serving(p, d)' <=> Serving(p, d)
      PROVE  Once' /\ \A d \in Client : Stage(d)'
  <2>1. Once'
    BY Zenon, <1>0, <1>4 DEF Once
  <2>2. proc[p].line + 1 \in Nat
    BY <1>4
  <2>3. text'[c] = Append(text[c], proc[p].line + 1) /\ \A d \in Client : d # c => text'[d] = text[d]
    BY Zenon, <1>2, <1>4, <2>2, SendsIs
  <2>4. \A d \in Client : Queued(d)' <=> Queued(d)
    BY Zenon, <1>4 DEF Queued
  <2>5. \A d \in Client, q \in ServerProc : Serving(q, d)' <=> Serving(q, d)
    BY ZenonT(40), <1>4 DEF Others, Serving
  <2>6. Sent(c)' = Lines(proc[p].line + 1)
    <3>1. Sent(c) = Lines(proc[p].line)
      BY Zenon, <1>0, <1>4 DEF Stage
    <3>2. heard[c] \o Append(text[c], proc[p].line + 1) = Append(heard[c] \o text[c], proc[p].line + 1)
      BY ZenonT(40), <1>2, <2>2, SentGrows
    <3> QED BY Zenon, <1>2, <1>4, <2>3, <3>1, <3>2, LinesGrow DEF Sent
  <2>7. Stage(c)'
    <3>1. clt'[c].at = "recv" /\ ~Queued(c)
      BY Zenon, <1>0, <1>2, <1>4 DEF Stage
    <3>2. \A q \in ServerProc : Serving(q, c)' => q = p
      BY Zenon, <1>1, <1>4, <2>5
    <3>3. \A n : Lines(n)' = Lines(n)
      BY Zenon DEF Lines
    <3>4. Serving(p, c)'
      BY Zenon, <1>4
    <3>5. "recv" \notin {"start", "failed"} /\ "recv" # "done"
      BY Zenon
    <3> QED BY Zenon, <1>4, <2>4, <2>6, <3>1, <3>2, <3>3, <3>4, <3>5 DEF Stage
  <2>8. ASSUME NEW d \in Client, d # c PROVE Stage(d)'
    <3>1. \A q \in ServerProc : ~Serving(q, d)
      BY Zenon, <1>1, <1>4, <2>8
    <3>2. Sent(d)' = Sent(d) /\ clt'[d].at = clt[d].at /\ text'[d] = text[d] /\ Stage(d)
      BY Zenon, <1>0, <1>2, <2>3, <2>8 DEF Sent
    <3> QED BY Zenon, <2>4, <2>5, <3>1, <3>2, StageKept
  <2> QED BY Zenon, <2>1, <2>7, <2>8
\* It has sent everything.
<1>5. ASSUME NEW p \in ServerProc, NEW c \in Client, Serving(p, c), Others(p), backlog0' = backlog0,
             \A d \in Client : ~Serving(p, d)', Whole(c)', \A d \in Client : d # c => text'[d] = text[d]
      PROVE  Once' /\ \A d \in Client : Stage(d)'
  <2>1. Once'
    BY Zenon, <1>0, <1>5 DEF Once
  <2>2. \A d \in Client : Queued(d)' <=> Queued(d)
    BY Zenon, <1>5 DEF Queued
  <2>3. \A d \in Client, q \in ServerProc : ~Serving(q, d)'
    <3>1. \A d \in Client, q \in ServerProc : q # p => (Serving(q, d)' <=> Serving(q, d))
      BY Zenon, <1>5 DEF Others, Serving
    <3> QED BY Zenon, <1>1, <1>5, <3>1
  <2>4. Stage(c)'
    <3>1. clt'[c].at = "recv" /\ ~Queued(c)
      BY Zenon, <1>0, <1>2, <1>5 DEF Stage
    <3>2. "recv" \notin {"start", "failed"} /\ "recv" # "done"
      BY Zenon
    <3> QED BY Zenon, <1>5, <2>2, <2>3, <3>1, <3>2 DEF Stage
  <2>5. ASSUME NEW d \in Client, d # c PROVE Stage(d)'
    <3>1. \A q \in ServerProc : ~Serving(q, d)
      BY Zenon, <1>1, <1>5, <2>5
    <3>2. Sent(d)' = Sent(d) /\ clt'[d].at = clt[d].at /\ text'[d] = text[d] /\ Stage(d)
      BY Zenon, <1>0, <1>2, <1>5, <2>5 DEF Sent
    <3> QED BY Zenon, <2>2, <2>3, <3>1, <3>2, StageKept
  <2> QED BY Zenon, <2>1, <2>4, <2>5
<1>6. 1 \in ServerProc
  BY UptimeAssumption DEF ServerProc
<1>7. CASE initserver
  <2>1. Others(1) /\ backlog0' = backlog0 /\ text' = text
    BY Zenon, <1>7, initserverIs DEF initserver
  <2>2. proc[1].at = "initserver" /\ (proc'[1] = proc[1] \/ proc'[1].at \in {"accept", "gone"})
    BY Zenon, <1>7, initserverIs DEF initserver
  <2>3. \A c \in Client : ~Serving(1, c) /\ ~Serving(1, c)'
    BY Zenon, <2>2 DEF Serving
  <2> QED BY Zenon, <1>3, <1>6, <2>1, <2>3
<1>8. ASSUME NEW p \in ServerProc, Accept(p) PROVE Once' /\ \A c \in Client : Stage(c)'
  <2>1. /\ Others(p) /\ proc'[p].at \in {"fork", "popen"} /\ proc'[p].clfd = Head(backlog0)
        /\ Head(backlog0) \in Client /\ proc'[p].line = 0
    BY Zenon, <1>8, AcceptIs
  <2>2. backlog0 # << >> /\ text' = text /\ proc[p].at = "accept" /\ backlog0' = Tail(backlog0)
    BY Zenon, <1>8 DEF Accept
  <2>3. PICK c \in Client : c = Head(backlog0)
    BY Zenon, <2>1
  <2>4. Once' /\ Queued(c) /\ ~Queued(c)' /\ \A d \in Client : d # c => (Queued(d)' <=> Queued(d))
    <3>1. backlog0 \in Seq(Client)
      BY Zenon DEF UpTypes
    <3> QED BY Zenon, <1>0, <2>2, <2>3, <3>1, TailIs
  <2>5. \A q \in ServerProc, d \in Client : ~Serving(q, d)
    BY Zenon, <1>0, <2>2 DEF Structure, Serving
  <2>6. \A q \in ServerProc, d \in Client : Serving(q, d)' <=> (q = p /\ d = c)
    <3>1. \A d \in Client : Serving(p, d)' <=> d = c
      BY Zenon, <2>1, <2>3 DEF Serving
    <3>2. \A q \in ServerProc, d \in Client : q # p => (Serving(q, d)' <=> Serving(q, d))
      BY Zenon, <2>1 DEF Others, Serving
    <3> QED BY Zenon, <2>5, <3>1, <3>2
  <2>7. Stage(c)'
    <3>1. clt'[c].at = "recv" /\ Sent(c)' = Lines(0)'
      BY Zenon, <1>0, <1>2, <2>2, <2>4, LinesGrow DEF Stage, Sent, Lines
    <3>2. "recv" \notin {"start", "failed"} /\ "recv" # "done"
      BY Zenon
    <3>3. \A q \in ServerProc : Serving(q, c)' => proc'[q].line = 0
      BY Zenon, <2>1, <2>6
    <3> QED BY Zenon, <2>4, <2>6, <3>1, <3>2, <3>3 DEF Stage
  <2>8. ASSUME NEW d \in Client, d # c PROVE Stage(d)'
    <3>1. Sent(d)' = Sent(d) /\ clt'[d].at = clt[d].at /\ text'[d] = text[d] /\ Stage(d)
      BY Zenon, <1>0, <1>2, <2>2 DEF Sent
    <3> QED BY Zenon, <2>4, <2>5, <2>6, <2>8, <3>1, StageKept
  <2> QED BY Zenon, <2>4, <2>7, <2>8
<1>9. ASSUME NEW p \in ServerProc, ServePopen(p) PROVE Once' /\ \A c \in Client : Stage(c)'
  <2>1. /\ Others(p) /\ proc[p].clfd \in Client /\ proc'[p].clfd = proc[p].clfd /\ proc'[p].line = proc[p].line
        /\ \/ proc'[p].at = "fgets" /\ text' = text
           \/ proc'[p].at = "close" /\ Sends(proc[p].clfd, ErrorLine)
    BY Zenon, <1>9, ServePopenIs
  <2>2. backlog0' = backlog0 /\ proc[p].at = "popen"
    BY Zenon, <1>9 DEF ServePopen
  <2>3. CASE proc'[p].at = "fgets" /\ text' = text
    <3>1. \A c \in Client : Serving(p, c)' <=> Serving(p, c)
      BY Zenon, <2>1, <2>2, <2>3 DEF Serving
    <3> QED BY Zenon, <1>3, <2>1, <2>2, <2>3, <3>1
  <2>4. CASE proc'[p].at = "close" /\ Sends(proc[p].clfd, ErrorLine)
    <3>1. PICK c \in Client : c = proc[p].clfd
      BY Zenon, <2>1
    <3>2. Serving(p, c) /\ \A d \in Client : ~Serving(p, d)'
      BY <2>2, <2>4, <3>1 DEF Serving
    <3>3. text'[c] = Append(text[c], 0) /\ \A d \in Client : d # c => text'[d] = text[d]
      BY Zenon, <1>2, <2>4, <3>1, SendsIs DEF ErrorLine
    <3>4. Sent(c) = << >>
      <4>1. proc[p].line = 0
        BY Zenon, <2>2 DEF UpTypes, RecordOk
      <4> QED BY Zenon, <1>0, <3>2, <4>1, LinesGrow DEF Stage
    <3>5. Whole(c)'
      <4>1. heard[c] = << >> /\ text[c] = << >> /\ heard'[c] = heard[c]
        <5>1. heard[c] \in Seq(Nat) /\ text[c] \in Seq(Nat)
          BY Zenon, <1>2
        <5>2. heard[c] \o text[c] = << >>
          BY Zenon, <3>4 DEF Sent
        <5>3. heard[c] = << >> /\ text[c] = << >>
          BY Zenon, <5>1, <5>2, SentGrows
        <5> QED BY Zenon, <1>2, <5>3
      <4>2. << >> \o Append(<< >>, 0) = <<0>>
        BY SMT
      <4> QED BY Zenon, <3>3, <4>1, <4>2 DEF Whole, Sent, ErrorLine
    <3> QED BY Zenon, <1>5, <2>1, <2>2, <3>2, <3>3, <3>5
  <2> QED BY Zenon, <2>1, <2>3, <2>4
<1>10. ASSUME NEW p \in ServerProc, NEW c \in Client, Serving(p, c), proc[p].line = NLines, text' = text PROVE Whole(c)'
  BY Zenon, <1>0, <1>2, <1>10, LinesGrow DEF Stage, Whole, Sent, UptimeLines
<1>11. ASSUME NEW p \in ServerProc, ServeLine(p) PROVE Once' /\ \A c \in Client : Stage(c)'
  <2>1. /\ Others(p) /\ proc[p].clfd \in Client /\ proc'[p].clfd = proc[p].clfd /\ proc[p].line \in Nat
        /\ \/ /\ proc'[p].at = "fgets" /\ proc'[p].line = proc[p].line + 1
              /\ Sends(proc[p].clfd, proc[p].line + 1)
           \/ proc'[p].at = "close" /\ proc[p].line = NLines /\ text' = text
    BY Zenon, <1>11, ServeLineIs DEF Last
  <2>2. backlog0' = backlog0 /\ proc[p].at = "fgets"
    BY Zenon, <1>11 DEF ServeLine
  <2>3. PICK c \in Client : c = proc[p].clfd
    BY Zenon, <2>1
  <2>4. Serving(p, c)
    BY Zenon, <2>2, <2>3 DEF Serving
  <2>5. CASE /\ proc'[p].at = "fgets" /\ proc'[p].line = proc[p].line + 1
             /\ Sends(proc[p].clfd, proc[p].line + 1)
    <3>1. \A d \in Client : Serving(p, d)' <=> Serving(p, d)
      BY Zenon, <2>1, <2>2, <2>5 DEF Serving
    <3> QED BY Zenon, <1>4, <2>1, <2>2, <2>3, <2>4, <2>5, <3>1
  <2>6. CASE proc'[p].at = "close" /\ proc[p].line = NLines /\ text' = text
    <3>1. \A d \in Client : ~Serving(p, d)'
      BY Zenon, <2>6 DEF Serving
    <3>2. \A d \in Client : d # c => text'[d] = text[d]
      BY Zenon, <2>6
    <3> QED BY Zenon, <1>5, <1>10, <2>1, <2>2, <2>4, <2>6, <3>1, <3>2
  <2> QED BY Zenon, <2>1, <2>5, <2>6
<1>12. ASSUME NEW p \in ServerProc, Others(p), backlog0' = backlog0, text' = text,
              proc[p].at \in {"close", "parent", "waitpid"}, proc'[p].at \in {"accept", "waitpid"}
       PROVE  Once' /\ \A c \in Client : Stage(c)'
  <2>1. \A c \in Client : ~Serving(p, c) /\ ~Serving(p, c)'
    BY Zenon, <1>12 DEF Serving
  <2> QED BY Zenon, <1>3, <1>12, <2>1
<1>13. ASSUME NEW p \in ServerProc, ServeClose(p) PROVE Once' /\ \A c \in Client : Stage(c)'
  BY Zenon, <1>12, <1>13, ServeCloseIs DEF ServeClose
<1>14. ASSUME NEW p \in ServerProc, ServeParent(p) PROVE Once' /\ \A c \in Client : Stage(c)'
  BY Zenon, <1>12, <1>14, ServeParentIs DEF ServeParent
<1>15. ASSUME NEW p \in ServerProc, ServeWait(p) PROVE Once' /\ \A c \in Client : Stage(c)'
  BY Zenon, <1>12, <1>15, ServeWaitIs DEF ServeWait
<1>16. ASSUME NEW p \in ServerProc, ServeFork(p) PROVE Once' /\ \A c \in Client : Stage(c)'
  <2>1. PICK k \in ServerProc \ {p} :
            /\ proc[k].at = "none"
            /\ \A q \in ServerProc : q \notin {p, k} => proc'[q] = proc[q]
            /\ proc'[p].at = "parent" /\ proc'[p].kid = k
            /\ proc'[k].at = "dup2" /\ proc'[k].clfd = proc[p].clfd /\ proc'[k].line = proc[p].line
    BY Zenon, <1>16, ServeForkIs
  <2>2. backlog0' = backlog0 /\ text' = text /\ proc[p].at = "fork"
    BY Zenon, <1>16 DEF ServeFork
  <2>3. Once'
    BY Zenon, <1>0, <2>2 DEF Once
  <2>4. ASSUME NEW c \in Client PROVE Stage(c)'
    <3>1. (Serving(k, c)' <=> Serving(p, c)) /\ ~Serving(p, c)' /\ ~Serving(k, c)
      BY Zenon, <2>1, <2>2 DEF Serving
    <3>2. \A q \in ServerProc : q \notin {p, k} =>
              (Serving(q, c)' <=> Serving(q, c)) /\ (Serving(q, c) => proc'[q].line = proc[q].line)
      BY Zenon, <2>1 DEF Serving
    <3>3. Sent(c)' = Sent(c) /\ (Queued(c)' <=> Queued(c)) /\ clt'[c].at = clt[c].at /\ text'[c] = text[c] /\ Stage(c)
      BY Zenon, <1>0, <1>2, <2>2 DEF Sent, Queued
    <3>4. ASSUME NEW q \in ServerProc, Serving(q, c)'
          PROVE  \E r \in ServerProc : Serving(r, c) /\ proc'[q].line = proc[r].line
      BY Zenon, <2>1, <3>1, <3>2, <3>4
    <3>5. ASSUME NEW q \in ServerProc, Serving(q, c) PROVE \E r \in ServerProc : Serving(r, c)'
      BY Zenon, <3>1, <3>2, <3>5
    <3> QED BY Zenon, <3>3, <3>4, <3>5, StageKept
  <2> QED BY Zenon, <2>3, <2>4
<1>17. ASSUME NEW p \in ServerProc, ServeChild(p) PROVE Once' /\ \A c \in Client : Stage(c)'
  <2>1. Others(p) /\ proc'[p].at = "uptime" /\ proc'[p].std = proc[p].clfd /\ proc'[p].line = proc[p].line
    BY Zenon, <1>17, ServeChildIs
  <2>2. backlog0' = backlog0 /\ text' = text /\ proc[p].at = "dup2"
    BY Zenon, <1>17 DEF ServeChild
  <2>3. \A c \in Client : Serving(p, c)' <=> Serving(p, c)
    BY Zenon, <2>1, <2>2 DEF Serving
  <2> QED BY Zenon, <1>3, <2>1, <2>2, <2>3
<1>18. ASSUME NEW p \in ServerProc, uptime(p) PROVE Once' /\ \A c \in Client : Stage(c)'
  <2>1. /\ Others(p) /\ proc[p].std \in Client /\ proc[p].line \in Nat
        /\ \/ /\ proc'[p].at = "uptime" /\ proc'[p].line = proc[p].line + 1 /\ proc'[p].std = proc[p].std
              /\ Sends(proc[p].std, proc[p].line + 1)
           \/ proc'[p].at = "gone" /\ proc[p].line = NLines /\ text' = text
    BY Zenon, <1>18, uptimeIs
  <2>2. backlog0' = backlog0 /\ proc[p].at = "uptime"
    BY Zenon, <1>18 DEF uptime
  <2>3. PICK c \in Client : c = proc[p].std
    BY Zenon, <2>1
  <2>4. Serving(p, c)
    BY Zenon, <2>2, <2>3 DEF Serving
  <2>5. CASE /\ proc'[p].at = "uptime" /\ proc'[p].line = proc[p].line + 1 /\ proc'[p].std = proc[p].std
             /\ Sends(proc[p].std, proc[p].line + 1)
    <3>1. \A d \in Client : Serving(p, d)' <=> Serving(p, d)
      BY Zenon, <2>1, <2>2, <2>5 DEF Serving
    <3> QED BY Zenon, <1>4, <2>1, <2>2, <2>3, <2>4, <2>5, <3>1
  <2>6. CASE proc'[p].at = "gone" /\ proc[p].line = NLines /\ text' = text
    <3>1. \A d \in Client : ~Serving(p, d)'
      BY Zenon, <2>6 DEF Serving
    <3>2. \A d \in Client : d # c => text'[d] = text[d]
      BY Zenon, <2>6
    <3> QED BY Zenon, <1>5, <1>10, <2>1, <2>2, <2>4, <2>6, <3>1, <3>2
  <2> QED BY Zenon, <2>1, <2>5, <2>6
<1> QED
  BY Zenon, <1>7, <1>8, <1>9, <1>11, <1>13, <1>14, <1>15, <1>16, <1>17, <1>18 DEF ServerStep

\* What a client does.
LEMMA ClientStages ==
    ASSUME UpTypes, RetryInv, StreamInv, upprog # "dgram", ~procfail, NEW c \in Client, ClientStep(c) \/ LoseDatagram(c)
    PROVE  Once' /\ \A d \in Client : Stage(d)'
<1>0. Structure /\ Once /\ \A d \in Client : Stage(d)
  BY Zenon DEF StreamInv
<1>1. proc' = proc /\ heard \in [Client -> Seq(Nat)] /\ text \in [Client -> Seq(Nat)] /\ clt \in [Client -> Attempt]
  BY Zenon, ClientTypes DEF UpTypes, RetryInv
<1>2. clt[c].at \in {"start", "recv", "done", "failed"}
  BY Zenon DEF RetryInv, Retries
<1>3. connect_retry(c) \/ print_uptime(c)
  BY Zenon, <1>2 DEF ClientStep, LoseDatagram, SendDatagram, StartAlarm, sigalrm, CallRecvfrom, ReadDatagram
<1>4. \A p \in ServerProc, d \in Client : Serving(p, d)' <=> Serving(p, d)
  BY Zenon, <1>1 DEF Serving
<1>5. ASSUME NEW d \in Client, Sent(d)' = Sent(d), clt'[d].at = clt[d].at, clt[d].at = "done" => text'[d] = text[d],
             Queued(d)' <=> Queued(d)
      PROVE  Stage(d)'
  <2>1. Stage(d)
    BY Zenon, <1>0
  <2> QED BY Zenon, <1>1, <1>4, <1>5, <2>1, StageKept
<1>6. CASE connect_retry(c)
  <2>0. text' = text /\ heard' = heard /\ clt[c].at = "start"
    BY Zenon, <1>6 DEF connect_retry
  <2>1. Sent(c) = << >> /\ ~Queued(c) /\ \A p \in ServerProc : ~Serving(p, c)
    BY Zenon, <1>0, <2>0 DEF Stage
  <2>2. \A d \in Client : Sent(d)' = Sent(d)
    BY Zenon, <2>0 DEF Sent
  <2>3. CASE clt' = [clt EXCEPT ![c].at = "recv"] /\ backlog0' = Append(backlog0, c)
    <3>1. clt'[c].at = "recv" /\ \A d \in Client : d # c => clt'[d] = clt[d]
      BY Zenon, <1>1, <2>3 DEF Attempt
    <3>2. Once' /\ Queued(c)' /\ \A d \in Client : d # c => (Queued(d)' <=> Queued(d))
      BY Zenon, <1>0, <2>1, <2>3, JoinIs DEF UpTypes
    <3>3. "recv" \notin {"start", "failed"} /\ "recv" # "done"
      BY Zenon
    <3>4. Stage(c)'
      BY Zenon, <1>4, <2>1, <2>2, <3>1, <3>2, <3>3 DEF Stage
    <3> QED BY Zenon, <1>5, <2>0, <2>2, <3>1, <3>2, <3>4
  <2>4. CASE clt' = [clt EXCEPT ![c] = TryAgain(c)] /\ backlog0' = backlog0
    <3>1. Once' /\ \A d \in Client : Queued(d)' <=> Queued(d)
      BY Zenon, <1>0, <2>4 DEF Once, Queued
    <3>2. clt'[c] = TryAgain(c) /\ \A d \in Client : d # c => clt'[d] = clt[d]
      BY Zenon, <1>1, <2>4
    <3>3. TryAgain(c).at \in {"start", "failed"}
      BY Zenon, <1>1, <2>0 DEF TryAgain, NextAddr, Attempt
    <3>4. Stage(c)'
      <4>1. clt'[c].at \notin {"recv", "done"} /\ clt'[c].at # "done"
        BY Zenon, <3>2, <3>3
      <4> QED BY Zenon, <1>4, <2>1, <2>2, <3>1, <4>1 DEF Stage
    <3> QED BY Zenon, <1>5, <2>0, <2>2, <3>1, <3>2, <3>4
  <2> QED BY Zenon, <1>6, <2>3, <2>4 DEF connect_retry
<1>7. CASE print_uptime(c)
  <2>0. backlog0' = backlog0 /\ clt[c].at = "recv"
    BY Zenon, <1>7 DEF print_uptime
  <2>1. Once' /\ \A d \in Client : Queued(d)' <=> Queued(d)
    BY Zenon, <1>0, <2>0 DEF Once, Queued
  <2>2. CASE /\ text[c] # << >> /\ clt' = clt
             /\ heard' = [heard EXCEPT ![c] = Append(@, Head(text[c]))] /\ text' = [text EXCEPT ![c] = Tail(@)]
    <3>1. /\ heard'[c] = Append(heard[c], Head(text[c])) /\ text'[c] = Tail(text[c])
          /\ \A d \in Client : d # c => heard'[d] = heard[d] /\ text'[d] = text[d]
      BY Zenon, <1>1, <2>2
    <3>2. Append(heard[c], Head(text[c])) \o Tail(text[c]) = heard[c] \o text[c]
      BY Zenon, <1>1, <2>2, SentGrows
    <3>3. \A d \in Client : Sent(d)' = Sent(d)
      BY Zenon, <3>1, <3>2 DEF Sent
    <3>4. "recv" # "done"
      BY Zenon
    <3> QED BY Zenon, <1>5, <2>0, <2>1, <2>2, <3>1, <3>3, <3>4
  <2>3. CASE text[c] = << >> /\ ~HeldOpen(c) /\ clt' = [clt EXCEPT ![c].at = "done"] /\ UNCHANGED <<heard, text>>
    <3>1. clt'[c].at = "done" /\ \A d \in Client : d # c => clt'[d] = clt[d]
      BY Zenon, <1>1, <2>3 DEF Attempt
    <3>2. \A d \in Client : Sent(d)' = Sent(d)
      BY Zenon, <2>3 DEF Sent
    <3>3. \A p \in ServerProc : ~Serving(p, c)
      BY Zenon, <2>3 DEF HeldOpen, Serving
    <3>4. ~Queued(c)
      <4>1. SUFFICES ASSUME Queued(c) PROVE FALSE
        BY Zenon
      <4>2. 1 \in ServerProc
        BY UptimeAssumption DEF ServerProc
      <4>3. backlog0 # << >>
        BY <4>1 DEF Queued
      <4>4. Listening
        BY Zenon, <1>0, <4>2, <4>3 DEF Structure, Listening
      <4> QED BY Zenon, <2>3, <4>1, <4>4 DEF HeldOpen, Queued
    <3>5. Whole(c)'
      BY Zenon, <1>0, <2>0, <3>2, <3>3, <3>4 DEF Stage, Whole, UptimeLines
    <3>6. "done" \notin {"start", "failed"}
      BY Zenon
    <3>7. Stage(c)'
      BY Zenon, <1>4, <2>1, <2>3, <3>1, <3>3, <3>4, <3>5, <3>6 DEF Stage
    <3> QED BY Zenon, <1>5, <2>1, <2>3, <3>1, <3>2, <3>7
  <2> QED BY Zenon, <1>7, <2>2, <2>3 DEF print_uptime
<1> QED BY Zenon, <1>3, <1>6, <1>7

\* Every step keeps the types.
LEMMA UpTypesSteps ==
    ASSUME UpTypes, [upNext]_upvars
    PROVE  UpTypes' /\ upprog' = upprog /\ (procfail => procfail')
<1>1. CASE UNCHANGED upvars
  BY Zenon, <1>1 DEF UpTypes, upvars, RecordOk, Last
<1>2. CASE ServerStep
  <2>1. upprog' = upprog
    BY Zenon, <1>2 DEF ServerStep, initserver, Accept, ServePopen, ServeLine, ServeClose, ServeFork, ServeParent,
                ServeWait, ServeChild, uptime
  <2>2. CASE initserver
    BY Zenon, <2>1, <2>2, initserverIs DEF initserver
  <2>3. ASSUME NEW p \in ServerProc, Accept(p) PROVE UpTypes' /\ (procfail => procfail')
    BY Zenon, <2>3, AcceptIs DEF Accept
  <2>4. ASSUME NEW p \in ServerProc, ServePopen(p) PROVE UpTypes' /\ (procfail => procfail')
    BY Zenon, <2>4, ServePopenIs DEF ServePopen
  <2>5. ASSUME NEW p \in ServerProc, ServeLine(p) PROVE UpTypes' /\ (procfail => procfail')
    BY Zenon, <2>5, ServeLineIs DEF ServeLine
  <2>6. ASSUME NEW p \in ServerProc, ServeClose(p) PROVE UpTypes' /\ (procfail => procfail')
    BY Zenon, <2>6, ServeCloseIs DEF ServeClose
  <2>7. ASSUME NEW p \in ServerProc, ServeFork(p) PROVE UpTypes' /\ (procfail => procfail')
    BY Zenon, <2>7, ServeForkIs
  <2>8. ASSUME NEW p \in ServerProc, ServeParent(p) PROVE UpTypes' /\ (procfail => procfail')
    BY Zenon, <2>8, ServeParentIs DEF ServeParent
  <2>9. ASSUME NEW p \in ServerProc, ServeWait(p) PROVE UpTypes' /\ (procfail => procfail')
    BY Zenon, <2>9, ServeWaitIs DEF ServeWait
  <2>10. ASSUME NEW p \in ServerProc, ServeChild(p) PROVE UpTypes' /\ (procfail => procfail')
    BY Zenon, <2>10, ServeChildIs
  <2>11. ASSUME NEW p \in ServerProc, uptime(p) PROVE UpTypes' /\ (procfail => procfail')
    BY Zenon, <2>11, uptimeIs DEF uptime
  <2> QED BY ZenonT(40), <1>2, <2>1, <2>2, <2>3, <2>4, <2>5, <2>6, <2>7, <2>8, <2>9, <2>10, <2>11 DEF ServerStep
<1>3. ASSUME NEW c \in Client, ClientStep(c) \/ LoseDatagram(c)
      PROVE  UpTypes' /\ upprog' = upprog /\ (procfail => procfail')
  BY Zenon, <1>3, ClientTypes
<1> QED BY Zenon, <1>1, <1>2, <1>3 DEF upNext

\* With a connection: every step keeps the structure and the stages.
LEMMA StreamSteps ==
    ASSUME UpTypes, RetryInv, StreamInv, upprog # "dgram", ~procfail, ~procfail', [upNext]_upvars
    PROVE  StreamInv'
<1>1. Structure'
  BY Zenon, StructureSteps DEF StreamInv
<1>2. CASE UNCHANGED upvars
  <2>1. UNCHANGED <<proc, clt, backlog0, text, heard>>
    BY Zenon, <1>2 DEF upvars
  <2>2. Once'
    BY Zenon, <2>1 DEF StreamInv, Once
  <2>3. \A c \in Client : Stage(c)'
    BY ZenonT(40), <2>1 DEF StreamInv, Stage, Sent, Queued, Serving, Whole, Lines, UptimeLines
  <2> QED BY Zenon, <1>1, <2>2, <2>3 DEF StreamInv
<1>3. CASE ServerStep
  BY Zenon, <1>1, <1>3, ServerStages DEF StreamInv
<1>4. ASSUME NEW c \in Client, ClientStep(c) \/ LoseDatagram(c) PROVE StreamInv'
  BY Zenon, <1>1, <1>4, ClientStages DEF StreamInv
<1> QED BY Zenon, <1>2, <1>3, <1>4 DEF upNext

\* The initial states.
LEMMA UpBegins == upInit => UpInv
<1> SUFFICES ASSUME upInit PROVE UpInv
  BY Zenon
<1> USE DEF upInit, upInitOf
<1>0. 1 \in ServerProc
  BY UptimeAssumption DEF ServerProc
<1>1. /\ proc \in [ServerProc -> Process] /\ proc[1].at = "initserver"
      /\ \A p \in ServerProc : proc[p].at \in {"none", "initserver"} /\ (p # 1 => proc[p].at = "none")
  BY Zenon, <1>0 DEF NoServer, Process
<1>2. UpTypes
  <2>1. \A p \in ServerProc : RecordOk(proc[p])
    BY Zenon, <1>1 DEF RecordOk
  <2>2. text \in [Client -> Seq(Nat)] /\ heard \in [Client -> Seq(Nat)] /\ backlog0 \in Seq(Client)
    BY SMT
  <2> QED BY Zenon, <1>1, <2>1, <2>2 DEF UpTypes
<1>3. RetryInv
  <2>1. NewClient \in Attempt /\ Retries(NewClient)
    BY UptimeAssumption DEF NewClient, Attempt, Retries, Powers, UpPrograms
  <2>2. clt \in [Client -> Attempt] /\ \A c \in Client : clt[c] = NewClient
    BY Zenon, <2>1
  <2> QED BY Zenon, <2>1, <2>2 DEF RetryInv
<1>4. /\ \A c \in Client : clt[c].at = "start" /\ text[c] = << >> /\ heard[c] = << >>
      /\ backlog0 = << >>
  BY Zenon DEF NewClient
<1>5. DgramInv
  <2>1. << >> \in Seq({0, 1})
    BY SMT
  <2>2. \A p \in ServerProc : proc[p].at \notin {"fork", "parent", "waitpid", "dup2", "uptime"}
    BY Zenon, <1>1
  <2>3. "start" # "done"
    BY Zenon
  <2> QED BY Zenon, <1>4, <2>1, <2>2, <2>3 DEF DgramInv
<1>6. Structure
  BY Zenon, <1>0, <1>1, <1>4 DEF Structure
<1>7. Once /\ \A c \in Client : ~Queued(c)
  BY <1>4 DEF Once, Queued
<1>8. ASSUME NEW c \in Client PROVE Stage(c)
  <2>1. Sent(c) = << >>
    <3>1. << >> \o << >> = << >>
      BY SMT
    <3> QED BY Zenon, <1>4, <3>1 DEF Sent
  <2>2. \A p \in ServerProc : ~Serving(p, c)
    BY Zenon, <1>1 DEF Serving
  <2>3. clt[c].at \notin {"recv", "done"}
    BY Zenon, <1>4
  <2> QED BY Zenon, <1>4, <1>7, <2>1, <2>2, <2>3 DEF Stage
<1> QED BY Zenon, <1>2, <1>3, <1>5, <1>6, <1>7, <1>8 DEF UpInv, StreamInv

\* The uptime service (ruptimed.c, ruptimed-fd.c, ruptimed-dg.c and their
\* clients): for any number of clients, processes, lines and addresses, a
\* client that ends has the whole answer or the error, unless a fork or exec
\* failed, and one that gives up has waited MAXSLEEP-1 seconds in all.
THEOREM ClientsGetWholeAnswers == upSpec => []WholeAnswer
<1>1. upInit => UpInv
  BY Zenon, UpBegins
<1>2. UpInv /\ [upNext]_upvars => UpInv'
  <2> SUFFICES ASSUME UpInv, [upNext]_upvars PROVE UpInv'
    BY Zenon
  <2>1. UpTypes' /\ upprog' = upprog /\ (procfail => procfail')
    BY Zenon, UpTypesSteps DEF UpInv
  <2>2. RetryInv'
    BY Zenon, RetrySteps DEF UpInv, UpTypes
  <2>3. upprog = "dgram" => DgramInv'
    BY Zenon, DgramSteps DEF UpInv
  <2>4. upprog # "dgram" /\ ~procfail' => StreamInv'
    BY Zenon, <2>1, StreamSteps DEF UpInv
  <2> QED BY Zenon, <2>1, <2>2, <2>3, <2>4 DEF UpInv
<1>3. UpInv => WholeAnswer
  <2> SUFFICES ASSUME UpInv, NEW c \in Client
               PROVE  /\ clt[c].at = "done" /\ upprog # "dgram" =>
                            heard[c] \in {UptimeLines, <<ErrorLine>>} \/ procfail
                      /\ clt[c].at = "done" /\ upprog = "dgram" => heard[c] \in {<<1>>, <<ErrorLine>>}
                      /\ clt[c].at = "failed" /\ upprog # "dgram" =>
                            clt[c].slept = MAXSLEEP - 1 /\ clt[c].numsec = MAXSLEEP
    BY Zenon DEF WholeAnswer
  <2>1. ASSUME clt[c].at = "done", upprog # "dgram", ~procfail PROVE heard[c] \in {UptimeLines, <<ErrorLine>>}
    <3>1. Stage(c)
      BY Zenon, <2>1 DEF UpInv, StreamInv
    <3>2. "done" # "recv"
      BY Zenon
    <3>3. Whole(c) /\ text[c] = << >>
      BY Zenon, <2>1, <3>1, <3>2 DEF Stage
    <3>4. heard[c] \in Seq(Nat) /\ text[c] \in Seq(Nat)
      BY Zenon DEF UpInv, UpTypes
    <3>5. Sent(c) = heard[c]
      BY Zenon, <3>3, <3>4, SentGrows DEF Sent
    <3> QED BY Zenon, <3>3, <3>5 DEF Whole
  <2>2. ASSUME clt[c].at = "done", upprog = "dgram" PROVE heard[c] \in {<<1>>, <<ErrorLine>>}
    BY Zenon, <2>2 DEF UpInv, DgramInv
  <2>3. ASSUME clt[c].at = "failed", upprog # "dgram" PROVE clt[c].slept = MAXSLEEP - 1 /\ clt[c].numsec = MAXSLEEP
    BY Zenon, <2>3 DEF UpInv, RetryInv, Retries
  <2> QED BY Zenon, <2>1, <2>2, <2>3
<1> QED BY <1>1, <1>2, <1>3, PTL DEF upSpec
=============================================================================
