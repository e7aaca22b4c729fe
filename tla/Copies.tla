------------------------------- MODULE Copies -------------------------------
(***************************************************************************)
(* Programs that copy a file with system calls that may do less than they  *)
(* are asked to: readn and writen under the client of the print spooler    *)
(* (printer/print.c), and advio/rot13a.c, rot13c2.c.in (several requests   *)
(* of asynchronous input and output under way), nonblockw.c and mcopy2.c.  *)
(* The output is a function from the offsets written so far to bytes.      *)
(***************************************************************************)
EXTENDS Integers, Sequences, FiniteSets

CONSTANTS
    InputData,       \* the longest input, a sequence of character codes
    BSZ,        \* size of a buffer, of a request and of a mapping
    NBUF,       \* buffers of rot13c2
    NServer     \* bound: addresses of the print server

ASSUME CopiesAssumption ==
    /\ InputData \in Seq(0 .. 255) /\ BSZ \in Nat \ {0}
    /\ NBUF \in Nat \ {0} /\ NServer \in Nat

VARIABLES
    cprog,      \* the program that runs
    source,     \* the bytes of its input
    cpat,       \* where it is
    roff,       \* how much of the input it has read, or asked for
    blk,        \* what it is writing or reading now
    left,       \* how much of that is left
    out,        \* the bytes at each offset of the output
    bufs,       \* rot13c2: the buffers, and the requests that use them
    scan,       \* rot13c2: the buffer it looks at next
    answer,     \* print: the answer that the server sends
    arrived     \* print: how much of it has not been read

cpvars == <<cprog, source, cpat, roff, blk, left, out, bufs, scan, answer, arrived>>

PutAt(o, pos, s) ==
    [k \in DOMAIN o \cup (pos + 1 .. pos + Len(s)) |->
        IF k \in pos + 1 .. pos + Len(s) THEN s[k - pos] ELSE o[k]]

isalpha(c) == c \in 65 .. 90 \cup 97 .. 122

translate(c) ==
    IF ~isalpha(c) THEN c
    ELSE IF c >= 110 THEN c - 13
    ELSE IF c >= 97 THEN c + 13
    ELSE IF c >= 78 THEN c - 13
    ELSE c + 13

Translated(s) == [k \in DOMAIN s |-> translate(s[k])]

\* struct printreq: two units that are no characters.
Header == <<256, 257>>

\* The block of the input at an offset, and the next one.
BlockAt(o) == SubSeq(source, o + 1, IF o + BSZ < Len(source) THEN o + BSZ ELSE Len(source))
Block == BlockAt(roff)

UnusedBuf == [op |-> "UNUSED", last |-> FALSE, offset |-> 0, data |-> << >>, status |-> "none"]

\* Where the programs begin: nonblockw gets what its only read returns.
Begin(p) == CASE p = "print" -> "main" [] p = "nonblockw" -> "write" [] OTHER -> "read"

cpInitOf(progs) ==
    /\ cprog \in progs
    /\ source \in {SubSeq(InputData, 1, n) : n \in 0 .. Len(InputData)}
    /\ cpat = Begin(cprog)
    /\ roff = 0 /\ out = << >> /\ arrived = 0 /\ answer = "none"
    /\ blk = IF cprog = "nonblockw" THEN source ELSE << >>
    /\ left = Len(blk)
    /\ bufs = [b \in 0 .. NBUF - 1 |-> UnusedBuf] /\ scan = 0

cpInit == cpInitOf({"print", "rot13a", "rot13c2", "nonblockw", "mcopy2"})

noPrint == UNCHANGED <<answer, arrived>>
noAio == UNCHANGED <<bufs, scan>>

(***************************************************************************)
(* writen, and the write of nonblockw: a write takes some of the bytes, or *)
(* fails.  writen returns the number it wrote, or -1 when that is none.    *)
(***************************************************************************)
WriteSome(k) ==
    /\ out' = PutAt(out, Cardinality(DOMAIN out),
                    SubSeq(blk, Len(blk) - left + 1, Len(blk) - left + k))
    /\ left' = left - k

\* What submit_file makes of the number that writen returns.
Sent(nw) ==
    IF nw = Len(blk) THEN cpat' = "read" ELSE cpat' = "error"

writen ==
    /\ cprog = "print" /\ cpat = "writen"
    /\ \/ left = 0 /\ Sent(Len(blk)) /\ UNCHANGED <<out, left>>
       \/ \E k \in 1 .. left : WriteSome(k) /\ UNCHANGED cpat
       \/ left > 0 /\ Sent(IF left = Len(blk) THEN -1 ELSE Len(blk) - left)
          /\ UNCHANGED <<out, left>>
    /\ UNCHANGED <<cprog, source, roff, blk>> /\ noAio /\ noPrint

nonblockw ==
    /\ cprog = "nonblockw" /\ cpat = "write"
    /\ \/ \E k \in 1 .. left : WriteSome(k) /\ UNCHANGED cpat
       \/ left = 0 /\ cpat' = "exit 0" /\ UNCHANGED <<out, left>>
    /\ UNCHANGED <<cprog, source, roff, blk>> /\ noAio /\ noPrint

(***************************************************************************)
(* print.c: main tries the addresses of the server one after the other;    *)
(* submit_file sends the header and the file and reads the answer.  A read *)
(* of the file that fails makes writen fail too, which the loop takes for  *)
(* a block written: nothing changes.                                       *)
(***************************************************************************)
PrintMain ==
    /\ cprog = "print" /\ cpat = "main"
    /\ \/ cpat' = "error" /\ UNCHANGED left
       \/ cpat' = "connect" /\ left' = NServer
    /\ UNCHANGED <<cprog, source, roff, blk, out>> /\ noAio /\ noPrint

PrintConnect ==
    /\ cprog = "print" /\ cpat = "connect"
    /\ \/ left > 0 /\ cpat' = "writen" /\ blk' = Header /\ left' = Len(Header)
       \/ left > 0 /\ left' = left - 1 /\ UNCHANGED <<cpat, blk>>
       \/ left = 0 /\ cpat' = "error" /\ UNCHANGED <<left, blk>>
    /\ UNCHANGED <<cprog, source, roff, out>> /\ noAio /\ noPrint

submit_file ==
    /\ cprog = "print" /\ cpat = "read"
    /\ IF roff < Len(source)
       THEN blk' = Block /\ left' = Len(Block) /\ roff' = roff + Len(Block) /\ cpat' = "writen"
       ELSE blk' = << >> /\ left' = 2 /\ cpat' = "readn" /\ UNCHANGED roff
    /\ UNCHANGED <<cprog, source, out>> /\ noAio /\ noPrint

\* client_thread of printd answers when it likes, in two bytes, and closes.
ServerAnswers ==
    /\ cprog = "print" /\ cpat \in {"writen", "read", "readn"} /\ answer = "none"
    /\ \E a \in {"job ID", "rejected"}, n \in 0 .. 2 : answer' = a /\ arrived' = n
    /\ UNCHANGED <<cprog, source, cpat, roff, blk, left, out>> /\ noAio

\* A refusal and a number are told apart only when the answer is whole.
ReadAnswer(n) ==
    IF n # 2 THEN cpat' = "error"
    ELSE cpat' = IF answer = "job ID" THEN "exit 0" ELSE "exit 1"

readn ==
    /\ cprog = "print" /\ cpat = "readn"
    /\ \/ left = 0 /\ ReadAnswer(2) /\ UNCHANGED <<left, arrived>>
       \/ \E k \in 1 .. left : /\ k <= arrived /\ left' = left - k
                               /\ arrived' = arrived - k /\ UNCHANGED cpat
       \/ left > 0 /\ answer # "none" /\ arrived = 0
          /\ ReadAnswer(2 - left) /\ UNCHANGED <<left, arrived>>
       \/ left > 0 /\ ReadAnswer(IF left = 2 THEN -1 ELSE 2 - left)
          /\ UNCHANGED <<left, arrived>>
    /\ UNCHANGED <<cprog, source, roff, blk, out, answer>> /\ noAio

(***************************************************************************)
(* rot13a.c and mcopy2.c, a block at a time.  A read that fails ends the   *)
(* loop of rot13a like the end of the file: it exits with status 0 then    *)
(* too ("cut short").                                                      *)
(***************************************************************************)
rot13a ==
    /\ cprog = "rot13a" /\ cpat = "read"
    /\ \/ /\ roff < Len(source) /\ roff' = roff + Len(Block)
          /\ \E k \in 0 .. Len(Block) :
                /\ out' = PutAt(out, roff, SubSeq(Translated(Block), 1, k))
                /\ cpat' = IF k = Len(Block) THEN "read" ELSE "error"
       \/ roff = Len(source) /\ cpat' = "exit 0" /\ UNCHANGED <<roff, out>>
       \/ cpat' = "cut short" /\ UNCHANGED <<roff, out>>
    /\ UNCHANGED <<cprog, source, blk, left>> /\ noAio /\ noPrint

mcopy2 ==
    /\ cprog = "mcopy2" /\ cpat = "read"
    /\ \/ /\ roff < Len(source) /\ roff' = roff + Len(Block)
          /\ out' = PutAt(out, roff, Block) /\ UNCHANGED cpat
       \/ roff < Len(source) /\ cpat' = "error" /\ UNCHANGED <<roff, out>>
       \/ roff >= Len(source) /\ cpat' = "exit 0" /\ UNCHANGED <<roff, out>>
    /\ UNCHANGED <<cprog, source, blk, left>> /\ noAio /\ noPrint

(***************************************************************************)
(* rot13c2: the loop over the buffers.  The kernel finishes the requests   *)
(* in any order, between any two steps of the loop.                        *)
(***************************************************************************)
numop == Cardinality({b \in DOMAIN bufs : bufs[b].op # "UNUSED"})

AioReadStart(b) ==
    /\ bufs[b].op = "UNUSED" /\ UNCHANGED <<cpat, out>>
    /\ IF roff < Len(source)
       THEN /\ roff' = roff + BSZ
            /\ bufs' = [bufs EXCEPT ![b] =
                   [bufs[b] EXCEPT !.op = "READ_PENDING", !.offset = roff, !.status = "EINPROGRESS",
                                   !.last = bufs[b].last \/ roff + BSZ >= Len(source)]]
       ELSE UNCHANGED <<roff, bufs>>

AioWriteStart(b) ==
    /\ bufs[b].op = "READ_PENDING" /\ UNCHANGED <<roff, out>>
    /\ CASE bufs[b].status = "EINPROGRESS" -> UNCHANGED <<cpat, bufs>>
         [] bufs[b].status = "error" -> cpat' = "error" /\ UNCHANGED bufs
         [] OTHER ->
              IF Len(bufs[b].data) # BSZ /\ ~bufs[b].last
              THEN cpat' = "error" /\ UNCHANGED bufs
              ELSE /\ UNCHANGED cpat
                   /\ bufs' = [bufs EXCEPT ![b] =
                          [bufs[b] EXCEPT !.op = "WRITE_PENDING", !.status = "EINPROGRESS",
                                          !.data = Translated(bufs[b].data)]]

AioWriteEnd(b) ==
    /\ bufs[b].op = "WRITE_PENDING" /\ UNCHANGED <<roff, out>>
    /\ CASE bufs[b].status = "EINPROGRESS" -> UNCHANGED <<cpat, bufs>>
         [] bufs[b].status \in {"error", "short"} -> cpat' = "error" /\ UNCHANGED bufs
         [] OTHER -> bufs' = [bufs EXCEPT ![b].op = "UNUSED"] /\ UNCHANGED cpat

ScanBuffers ==
    /\ cprog = "rot13c2" /\ cpat = "read" /\ scan < NBUF /\ scan' = scan + 1
    /\ AioReadStart(scan) \/ AioWriteStart(scan) \/ AioWriteEnd(scan)
    /\ UNCHANGED <<cprog, source, blk, left>> /\ noPrint

\* After the last buffer: the end, or aio_suspend until a request is finished.
aio_suspend ==
    /\ cprog = "rot13c2" /\ cpat = "read" /\ scan = NBUF /\ scan' = 0
    /\ IF numop = 0 THEN cpat' = IF roff >= Len(source) THEN "exit 0" ELSE cpat
       ELSE /\ \E b \in DOMAIN bufs : bufs[b].op # "UNUSED" /\ bufs[b].status # "EINPROGRESS"
            /\ UNCHANGED cpat
    /\ UNCHANGED <<cprog, source, roff, blk, left, out, bufs>> /\ noPrint

\* The kernel finishes a request: in full, in part, or with an error.
AioDone(b) ==
    /\ cprog = "rot13c2" /\ cpat = "read" /\ bufs[b].status = "EINPROGRESS"
    /\ LET r == bufs[b]
           Is(s) == [bufs EXCEPT ![b].status = s]
       IN  \/ bufs' = Is("error") /\ UNCHANGED out
           \/ /\ r.op = "READ_PENDING" /\ UNCHANGED out
              /\ bufs' = [bufs EXCEPT ![b] = [@ EXCEPT !.status = "done", !.data = BlockAt(r.offset)]]
           \/ /\ r.op = "WRITE_PENDING"
              /\ \E k \in 0 .. Len(r.data) :
                    /\ out' = PutAt(out, r.offset, SubSeq(r.data, 1, k))
                    /\ bufs' = Is(IF k = Len(r.data) THEN "done" ELSE "short")
    /\ UNCHANGED <<cprog, source, cpat, roff, blk, left, scan>> /\ noPrint

Rot13c2Step == ScanBuffers \/ aio_suspend

cpNext ==
    \/ writen \/ nonblockw \/ PrintMain \/ PrintConnect \/ submit_file
    \/ ServerAnswers \/ readn \/ rot13a \/ mcopy2 \/ ScanBuffers \/ aio_suspend
    \/ \E b \in DOMAIN bufs : AioDone(b)

cpSpec == cpInit /\ [][cpNext]_cpvars

(***************************************************************************)
(* Properties                                                              *)
(***************************************************************************)
cpTypeOK ==
    /\ cpat \in {"main", "connect", "writen", "read", "readn", "write",
                "error", "cut short", "exit 0", "exit 1"}
    /\ left \in 0 .. Len(InputData) + NServer + 2 /\ scan \in 0 .. NBUF /\ arrived \in 0 .. 2
    /\ \A b \in DOMAIN bufs : bufs[b].op \in {"UNUSED", "READ_PENDING", "WRITE_PENDING"}

\* What the output should be.
Expected ==
    CASE cprog = "print" -> Header \o source
      [] cprog \in {"rot13a", "rot13c2"} -> Translated(source)
      [] OTHER -> source

\* At every moment each byte of the output is the right one for its offset,
\* whatever calls did in part and in whatever order the kernel finished them;
\* when a program exits with status 0 the output is complete, and then print
\* has been given a job ID.  (Unless a read of rot13a failed: "cut short".)
CopyIsExact ==
    /\ \A k \in DOMAIN out : k <= Len(Expected) /\ out[k] = Expected[k]
    /\ cpat = "exit 0" => DOMAIN out = DOMAIN Expected /\ (cprog = "print" => answer = "job ID")

\* rot13c2 ends: it neither sleeps in aio_suspend with nothing under way nor
\* leaves its loop before the last block is written.
Rot13Ends == (cprog = "rot13c2") ~> (cpat \in {"error", "exit 0"})
=============================================================================
