----------------------------- MODULE MemStream -----------------------------
(***************************************************************************)
(* The memory streams of exercises/fmemopen.c: fmemopen, type_to_flags,    *)
(* find_end, and the read, write, seek and close functions that stdio      *)
(* calls.  A buffer is a function from its offsets to bytes; 0 is the null *)
(* byte.  The ghost variable file is what a file would hold in its place.  *)
(***************************************************************************)
EXTENDS Integers, Sequences

CONSTANTS
    Sizes,      \* sizes that fmemopen is called with
    Types,      \* and types, as sequences of characters
    Bytes,      \* what a buffer may hold
    MaxWrite    \* bound: bytes in a call of mstream_write, and seeks

ASSUME MemAssumption ==
    /\ Sizes \subseteq Nat /\ 0 \in Bytes /\ MaxWrite \in Nat
    /\ \A t \in Types : t \in Seq({"r", "w", "a", "+", "b", "other"})

VARIABLES
    ms,         \* the stream, or what is left when there is none
    isopen,     \* whether there is a stream
    buf,        \* its buffer
    file        \* ghost: the bytes of the file that the stream stands for

msvars == <<ms, isopen, buf, file>>

MIN(a, b) == IF a < b THEN a ELSE b

NoStream == [rsize |-> 0, vsize |-> 0, curpos |-> 0, flags |-> {}]

msInit == ms = NoStream /\ isopen = FALSE /\ buf = << >> /\ file = << >>

\* One character of the type: the flags it adds, or {"error"}.
AddFlag(flags, c) ==
    CASE flags = {"error"} -> flags
      [] c = "r" /\ flags = {} -> {"READ"}
      [] c = "w" /\ flags = {} -> {"WRITE", "TRUNCATE"}
      [] c = "a" /\ flags = {} -> {"APPEND"}
      [] c = "+" /\ flags # {} -> flags \cup {"READ", "WRITE"}
      [] c = "b" /\ flags # {} -> flags
      [] OTHER -> {"error"}

type_to_flags(type) ==
    LET after[n \in 0 .. Len(type)] == IF n = 0 THEN {} ELSE AddFlag(after[n - 1], type[n])
    IN  after[Len(type)]

ReadWrite(flags) == {"READ", "WRITE"} \subseteq flags
WriteOnly(flags) == flags \cap {"WRITE", "APPEND"} # {} /\ "READ" \notin flags

\* off is the offset of the first null byte, or the size.
find_end(b, size, off) ==
    /\ off < size => b[off] = 0
    /\ \A k \in 0 .. off - 1 : b[k] # 0

\* vsize of a new stream whose position is pos.
NewSize(flags, size, pos) ==
    IF "APPEND" \in flags THEN pos ELSE IF "TRUNCATE" \in flags THEN 0 ELSE size

\* The buffer b is the caller's, or the stream's own: one that malloc
\* returned and that holds anything.
fmemopen(size, type, own) ==
    LET flags == type_to_flags(type) IN
    /\ ~isopen
    /\ size # 0 /\ flags \notin {{}, {"error"}} /\ (own => ReadWrite(flags))
    /\ isopen' = TRUE
    /\ \E b \in [0 .. size - 1 -> Bytes], pos \in 0 .. size :
         /\ IF ~own /\ "APPEND" \in flags THEN find_end(b, size, pos) ELSE pos = 0
         /\ buf' = b
         /\ ms' = [rsize |-> size, vsize |-> NewSize(flags, size, pos), curpos |-> pos, flags |-> flags]
         /\ file' = [k \in 0 .. NewSize(flags, size, pos) - 1 |-> b[k]]

mstream_read(n) ==
    /\ isopen /\ "READ" \in ms.flags /\ ms.curpos < ms.vsize
    /\ ms' = [ms EXCEPT !.curpos = @ + MIN(n, ms.vsize - ms.curpos)]
    /\ UNCHANGED <<isopen, buf, file>>

\* The bytes at off replaced, and more added when they reach beyond the end.
Written(b, end, off, data, n) ==
    [k \in 0 .. (IF off + n > end THEN off + n ELSE end) - 1 |->
        IF k \in off .. off + n - 1 THEN data[k - off + 1] ELSE b[k]]

\* Null bytes after the data, without looking whether there is room.
NullsAfter_Variant(b, m) ==
    LET grown == m.curpos > ms.vsize
        end == IF m.curpos < m.rsize THEN m.curpos ELSE m.rsize - 1
    IN  [k \in DOMAIN b |->
            IF \/ grown /\ ReadWrite(m.flags) /\ k = end
               \/ WriteOnly(m.flags) /\ k = end
            THEN 0 ELSE b[k]]

\* The null bytes that mstream_write stores, m being the stream after it.
NullsAfter(b, m) ==
    LET grown == m.curpos > ms.vsize
        end == IF m.curpos < m.rsize THEN m.curpos ELSE m.rsize - 1
    IN  [k \in DOMAIN b |->
            IF \/ grown /\ ReadWrite(m.flags) /\ m.curpos < m.rsize /\ k = m.curpos
               \/ WriteOnly(m.flags) /\ k = end
            THEN 0 ELSE b[k]]

mstream_write(data) ==
    LET off == IF "APPEND" \in ms.flags THEN ms.vsize ELSE ms.curpos
        nw == MIN(Len(data), ms.rsize - off)
        end == IF off + nw > ms.vsize THEN off + nw ELSE ms.vsize
        m == [ms EXCEPT !.curpos = off + nw, !.vsize = end]
    IN  /\ isopen /\ ms.flags \cap {"APPEND", "WRITE"} # {}
        /\ ms' = m
        /\ buf' = NullsAfter(Written(buf, ms.rsize, off, data, nw), m)
        /\ file' = Written(file, ms.vsize, off, data, nw)
        /\ UNCHANGED isopen

mstream_seek(pos, whence) ==
    LET off == CASE whence = "SET" -> pos
                 [] whence = "END" -> ms.vsize + pos
                 [] whence = "CUR" -> ms.curpos + pos
    IN  /\ isopen /\ off >= 0 /\ off <= ms.vsize
        /\ ms' = [ms EXCEPT !.curpos = off]
        /\ UNCHANGED <<isopen, buf, file>>

mstream_close ==
    /\ isopen
    /\ isopen' = FALSE /\ ms' = NoStream /\ buf' = << >> /\ file' = << >>

Data == UNION {[1 .. n -> Bytes] : n \in 0 .. MaxWrite}

msNext ==
    \/ \E size \in Sizes, type \in Types, own \in BOOLEAN : fmemopen(size, type, own)
    \/ \E n \in 0 .. MaxWrite : mstream_read(n)
    \/ \E data \in Data : mstream_write(data)
    \/ \E pos \in -MaxWrite .. MaxWrite, whence \in {"SET", "END", "CUR"} : mstream_seek(pos, whence)
    \/ mstream_close

msSpec == msInit /\ [][msNext]_msvars

msTypeOK ==
    /\ isopen \in BOOLEAN
    /\ ms.rsize \in Nat /\ ms.vsize \in Nat /\ ms.curpos \in Nat
    /\ isopen => buf \in [0 .. ms.rsize - 1 -> Bytes] /\ file \in [0 .. ms.vsize - 1 -> Bytes]

\* The position is never beyond the end of the data, nor that beyond the
\* buffer; and what can be read from a stream is what a file would hold after
\* the same calls, the null bytes that mstream_write adds notwithstanding.
StreamIsFile ==
    isopen =>
        /\ ms.curpos <= ms.vsize /\ ms.vsize <= ms.rsize
        /\ "READ" \in ms.flags => \A k \in 0 .. ms.vsize - 1 : buf[k] = file[k]
=============================================================================
