---------------------------- MODULE PrintSpoolInv ----------------------------
(***************************************************************************)
(* The inductive invariant from which PrintSpoolProofs derives the safety  *)
(* properties of the spooler.                                              *)
(***************************************************************************)
EXTENDS PrintSpool

\* The clients that were given a number by this run of the daemon, and how
\* many calls of get_newjobno ago that was.
Issued == {c \in Client : id[c] # 0 /\ gen[c] = boot}
Age(c) == IF id[c] < nextjob THEN nextjob - id[c] ELSE nextjob - id[c] + JobMax

\* The k-th last number has age k, so while fewer than JobMax are issued the
\* next one is none of them.
NumberInv ==
    /\ \A c \in Client : gen[c] <= boot
    /\ main = "down" => Issued = {}
    /\ \A c \in Issued : Age(c) <= Cardinality(Issued)
    /\ NumbersDifferInOneRun

NoNumberYet == {"new", "header", "jobno"}

\* What the place of a thread says about it and about the others.
PlaceInv ==
    /\ \A c \in Client : cl[c] \in NoNumberYet => id[c] = 0
    /\ \A c \in Client : cl[c] \notin NoNumberYet \cup {"done"} => id[c] # 0
    /\ \A c \in Client :
          cl[c] \notin {"unlink_req", "unlink_data", "done"} => answer[c] # "rejected"
    /\ \A c \in Client : cl[c] \in {"unlink_req", "unlink_data"} => answer[c] = "rejected"
    /\ main # "accept" => \A c \in Client : cl[c] \in {"new", "done"}
    /\ jp # 0 <=> pt \in {"update", "send", "unlink_data", "unlink_req", "replace"}
    /\ main = "down" => pt = "off"

InList(i) == jp = i \/ \E k \in 1 .. Len(jobs) : jobs[k] = i
Numbered(i) == \E d \in Client : id[d] = i

\* What is in the spool directory or in the list has a number that was issued,
\* and a data file is stored under the number of its client.
FileInv ==
    /\ \A i \in JobId : data[i] # NoFile => id[data[i]] = i
    /\ \A i \in JobId : reqs[i] # "none" => Numbered(i)
    /\ \A i \in JobId : InList(i) => Numbered(i)

\* How far the document of c is, by the place of its thread ...
Progress(c) ==
    /\ cl[c] \in {"spool", "creat_req", "write_req", "respond"} => data[id[c]] = c
    /\ cl[c] \in {"creat_data", "spool", "creat_req"} => reqs[id[c]] = "none"
    /\ cl[c] = "write_req" => reqs[id[c]] = "short"
    /\ cl[c] = "respond" => reqs[id[c]] = "full"
    /\ cl[c] \in {"creat_req", "write_req", "respond", "add"} => spooled[c]
    /\ cl[c] = "add" => answer[c] = "ok"

\* ... by its files and by its job, ...
Good(c) == spooled[c] /\ answer[c] # "rejected"
Handed(c) == cl[c] \in {"signal", "done"} /\ Good(c)
Traces(c) ==
    /\ id[c] # 0 /\ reqs[id[c]] = "full" => Good(c)
    /\ id[c] # 0 /\ InList(id[c]) => Handed(c)
    /\ c \in paper => Handed(c)
    /\ id[c] # 0 /\ pt \in {"unlink_data", "unlink_req"} /\ jp = id[c] => c \in paper

\* ... and by the answer.
Promise(c) == answer[c] = "ok" => id[c] # 0 /\ Kept(c)

PromiseInv == ~ Reused => \A c \in Client : Progress(c) /\ Traces(c) /\ Promise(c)

IInv == TypeOK /\ NumberInv /\ PlaceInv /\ FileInv /\ PromiseInv
=============================================================================
