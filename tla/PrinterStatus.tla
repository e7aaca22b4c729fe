--------------------------- MODULE PrinterStatus ---------------------------
(***************************************************************************)
(* printer_status and readmore of printer/printd.c: how the printer thread *)
(* reads and parses the printer's answer to a job.                         *)
(*                                                                         *)
(* The answer is a sequence of tokens, each taken as one byte: the status  *)
(* line of HTTP, header lines, the Content-Length line, carriage returns   *)
(* and newlines, the IPP header, and one byte of attributes.  It arrives   *)
(* in pieces of any size.  "u" is a byte of the buffer that was never      *)
(* written; it is taken for neither a header line nor a line end.          *)
(***************************************************************************)
EXTENDS Integers, Sequences

CONSTANT MaxReads    \* bound: reads that return data; the buffer is enlarged for them

VARIABLES
    answer,     \* what the printer did with the job, and how it says so
    unread,     \* tokens that have not been read yet
    bp,         \* the buffer: what was written to it, by offset
    datsz, i,   \* the variables of the same names
    psat,       \* where printer_status is
    success,    \* its result
    reads,      \* ghost: calls of tread that returned data
    garbled     \* ghost: something else was taken for the IPP header

psvars == <<answer, unread, bp, datsz, i, psat, success, reads, garbled>>

EndOfLine == <<"\r", "\n">>
len == 2        \* the value of Content-Length

HttpAnswer(a) ==
    (IF a.info THEN <<"1xx">> \o EndOfLine \o EndOfLine ELSE << >>) \o
    <<a.code>> \o EndOfLine \o
    (IF a.other THEN <<"Connection">> \o EndOfLine ELSE << >>) \o
    <<"Content-Length">> \o EndOfLine \o EndOfLine \o <<"ipp", "attr">>

\* The printer may answer about another job.
Answers == [info : BOOLEAN, code : {"2xx", "4xx"}, other : BOOLEAN, ok : BOOLEAN, samejob : BOOLEAN]

psInitOf(answers) ==
    /\ answer \in answers
    /\ unread = HttpAnswer(answer)
    /\ bp = << >>
    /\ datsz = 0 /\ i = 0 /\ psat = "status"
    /\ success = 0 /\ reads = 0 /\ garbled = FALSE

psInit == psInitOf(Answers)

\* tread returned n bytes, which are now at offset off of the buffer b.
Filled(b, off, n) ==
    [k \in DOMAIN b \cup (off .. off + n - 1) |->
        IF k \in off .. off + n - 1 THEN unread[k - off + 1] ELSE b[k]]

Char(b, k) == IF k \in DOMAIN b THEN b[k] ELSE "u"

tread(off, n) ==
    /\ reads < MaxReads
    /\ bp' = Filled(bp, off, n)
    /\ unread' = SubSeq(unread, n + 1, Len(unread))
    /\ reads' = reads + 1

\* tread timed out, or the printer closed the connection.
TreadFails ==
    /\ psat' = "out"
    /\ UNCHANGED <<unread, bp, datsz, i, success, reads, garbled>>

\* readmore returns the offset of the end of the data, and the callers add
\* that to datsz.
readmore(off, n) == tread(off, n) /\ datsz' = datsz + (off + n)

ReadStatus ==
    /\ psat = "status"
    /\ \/ TreadFails
       \/ \E n \in 1 .. Len(unread) :
            /\ tread(0, n)
            /\ datsz' = n
            /\ LET code == Head(unread) IN
               /\ psat' = CASE code = "2xx" -> "length" [] code = "4xx" -> "out" [] OTHER -> "status"
               /\ i' = IF code = "2xx" THEN 1 ELSE i
            /\ UNCHANGED <<success, garbled>>
    /\ UNCHANGED answer

\* The lines that start with a C, from here to the end of the data.
CLines == {k \in i .. datsz - 1 : Char(bp, k) \in {"Connection", "Content-Length"}}

\* At a line that starts with a C: is it the one?  The character after the
\* number is overwritten.
IsLength(b, k) ==
    IF Char(b, k) = "Content-Length" THEN i' = k + 2 /\ psat' = "after length"
    ELSE i' = k + 1 /\ psat' = "length"

FindLength ==
    /\ psat = "length" /\ CLines # {}
    /\ IsLength(bp, CHOOSE k \in CLines : \A j \in CLines : k <= j)
    /\ UNCHANGED <<answer, unread, bp, datsz, success, reads, garbled>>

MoreForLength ==
    LET off == IF i >= datsz THEN i ELSE datsz IN
    /\ psat = "length" /\ CLines = {}
    /\ \/ TreadFails
       \/ \E n \in 1 .. Len(unread) :
            readmore(off, n) /\ IsLength(Filled(bp, off, n), off) /\ UNCHANGED <<success, garbled>>
    /\ UNCHANGED answer

AfterLength ==
    /\ psat = "after length"
    /\ IF i < datsz THEN psat' = "end" /\ UNCHANGED <<unread, bp, datsz, i, success, reads, garbled>>
       ELSE \/ TreadFails
            \/ \E n \in 1 .. Len(unread) :
                 readmore(i, n) /\ psat' = "end" /\ UNCHANGED <<i, success, garbled>>
    /\ UNCHANGED answer

\* Where the header ends, as far as the loop looks.
HeaderEnds == {k \in i .. datsz - 3 : Char(bp, k) = "\n" /\ Char(bp, k+1) = "\r" /\ Char(bp, k+2) = "\n"}

FoundEnd ==
    /\ psat = "end" /\ HeaderEnds # {}
    /\ LET e == (CHOOSE k \in HeaderEnds : \A j \in HeaderEnds : k <= j) + 3 IN
       /\ i' = e
       /\ IF e < datsz THEN psat' = "body" /\ UNCHANGED <<unread, bp, datsz, success, reads, garbled>>
          ELSE \/ psat' = "out" /\ UNCHANGED <<unread, bp, datsz, success, reads, garbled>>
               \/ \E n \in 1 .. Len(unread) : readmore(e, n) /\ psat' = "body" /\ UNCHANGED <<success, garbled>>
    /\ UNCHANGED answer

\* More is read only when i has reached datsz, but the search stops two
\* bytes before; then the loop does the same again.
SeekEnd ==
    /\ psat = "end" /\ HeaderEnds = {}
    /\ IF i >= datsz
       THEN \/ TreadFails
            \/ \E n \in 1 .. Len(unread) : readmore(i, n) /\ UNCHANGED <<psat, i, success, garbled>>
       ELSE /\ i < datsz - 2 /\ i' = datsz - 2
            /\ UNCHANGED <<psat, unread, bp, datsz, success, reads, garbled>>
    /\ UNCHANGED answer

\* What is missing is read to where the body starts.
ReadBody ==
    /\ psat = "body"
    /\ IF datsz - i >= len THEN psat' = "ipp" /\ UNCHANGED <<unread, bp, datsz, i, success, reads, garbled>>
       ELSE \/ TreadFails
            \/ \E n \in 1 .. Len(unread) :
                 readmore(i, n) /\ psat' = "ipp" /\ UNCHANGED <<i, success, garbled>>
    /\ UNCHANGED answer

\* The header is checked for its status only.
Successful_Variant(samejob, ok) == ok

\* STATCLASS_OK, for this job.
Successful(samejob, ok) == samejob /\ ok

\* Bytes that are not the IPP header may look like any header.
CheckIpp ==
    /\ psat = "ipp" /\ psat' = "out"
    /\ garbled' = (Char(bp, i) # "ipp")
    /\ \E same, ok \in BOOLEAN :
         /\ Char(bp, i) = "ipp" => same = answer.samejob /\ ok = answer.ok
         /\ success' = IF Successful(same, ok) THEN 1 ELSE success
    /\ UNCHANGED <<answer, unread, bp, datsz, i, reads>>

psNext ==
    ReadStatus \/ FindLength \/ MoreForLength \/ AfterLength \/ FoundEnd \/ SeekEnd \/ ReadBody \/ CheckIpp

psFair == WF_psvars(psNext)
psSpec == psInit /\ [][psNext]_psvars /\ psFair

psTypeOK ==
    /\ answer \in Answers /\ success \in {0, 1}
    /\ psat \in {"status", "length", "after length", "end", "body", "ipp", "out"}
    /\ i \in Nat /\ datsz \in Nat /\ DOMAIN bp \subseteq Nat

\* printer_status says that a job was printed only if the printer said so of
\* this job, unless other bytes were taken for the header; and when the
\* answer is not cut, it says so exactly then.
StatusIsPrinters ==
    psat = "out" =>
        /\ success = 1 /\ ~garbled => answer.code = "2xx" /\ answer.ok /\ answer.samejob
        /\ reads = 1 /\ unread = << >> /\ ~answer.info =>
              (success = 1 <=> answer.code = "2xx" /\ answer.ok /\ answer.samejob)

\* printer_status returns, however the answer is cut: the header "can be
\* returned in multiple read attempts".
StatusReturns == <>(psat = "out")
=============================================================================
