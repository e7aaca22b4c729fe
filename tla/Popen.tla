-------------------------------- MODULE Popen --------------------------------
(***************************************************************************)
(* popen and pclose (lib/popen.c, the same as ipc1/popen.c): which         *)
(* descriptors the children inherit, and whether pclose returns.  A        *)
(* command that reads its standard input ends at the end of the input, and *)
(* the input ends when no process has the write end of its pipe open.      *)
(* The number of a pipe is that of the child made for it.                  *)
(***************************************************************************)
EXTENDS Integers, Sequences, FiniteSets

CONSTANTS
    FdLimit,  \* descriptors the kernel gives to a process
    MaxFd,    \* open_max(), which may be a guess and smaller
    MaxPid    \* bound: children of one behaviour

ASSUME PopenAssumption == FdLimit \in Nat /\ MaxFd \in Nat /\ MaxPid \in Nat

FdNum == 0 .. FdLimit - 1
Closed == <<0, "closed">>
File == <<0, "file">>   \* anything that is not a pipe of popen
End(k, e) == <<k, e>>

VARIABLES
    pofd,     \* descriptors of the caller
    childpid, \* childpid[]
    kid,      \* the children: their type, descriptors and state
    closing,  \* the child pclose waits for, or 0
    std       \* the caller started with descriptor 0 open

povars == <<pofd, childpid, kid, closing, std>>

poInit ==
    /\ std \in BOOLEAN
    /\ pofd = [f \in FdNum |-> IF f \in 1 .. 2 \/ (f = 0 /\ std) THEN File ELSE Closed]
    /\ childpid = [f \in 0 .. MaxFd - 1 |-> 0]
    /\ kid = << >>
    /\ closing = 0

FreeFds == {f \in FdNum : pofd[f] = Closed}
Lowest(S) == CHOOSE f \in S : \A g \in S : f <= g
pfd0 == Lowest(FreeFds)
pfd1 == Lowest(FreeFds \ {pfd0})
NewPid == Len(kid) + 1

StdOf(type) == IF type = "r" THEN 1 ELSE 0
Its(type) == IF type = "r" THEN "w" ELSE "r"       \* the end of the child
Mine(type) == type                                 \* the end of the caller
MineFd(type) == IF type = "r" THEN pfd0 ELSE pfd1

\* The loop over childpid[] is left out.
ChildFds_Variant(type) ==
    [f \in FdNum |-> IF f = StdOf(type) THEN End(NewPid, Its(type))
                     ELSE IF f \in {pfd0, pfd1} THEN Closed
                     ELSE pofd[f]]

\* The descriptors of the child when it calls execl: its end of the pipe is
\* moved to its standard output or input, and what childpid[] knows is closed.
ChildFds(type) ==
    [f \in FdNum |-> IF f < MaxFd /\ childpid[f] > 0 THEN Closed
                     ELSE IF f = StdOf(type) THEN End(NewPid, Its(type))
                     ELSE IF f \in {pfd0, pfd1} THEN Closed
                     ELSE pofd[f]]

CanPopen == closing = 0 /\ Cardinality(FreeFds) >= 2 /\ NewPid <= MaxPid

Fork(type, st) == kid' = Append(kid, [type |-> type, fds |-> ChildFds(type), st |-> st])

\* popen: the caller keeps its end and remembers the child.
popen(type) ==
    /\ CanPopen /\ pfd1 < MaxFd
    /\ Fork(type, "run")
    /\ pofd' = [pofd EXCEPT ![MineFd(type)] = End(NewPid, Mine(type))]
    /\ childpid' = [childpid EXCEPT ![MineFd(type)] = NewPid]
    /\ UNCHANGED <<closing, std>>

\* EMFILE: a descriptor that childpid[] has no room for.
PopenTooMany ==
    /\ CanPopen /\ pfd1 >= MaxFd
    /\ UNCHANGED povars

\* fork fails: both ends stay open in the caller.
PopenNoFork ==
    /\ CanPopen /\ pfd1 < MaxFd
    /\ pofd' = [pofd EXCEPT ![pfd0] = File, ![pfd1] = File]
    /\ UNCHANGED <<childpid, kid, closing, std>>

\* fdopen fails: the end stays open and the child is not remembered.
PopenNoStream(type) ==
    /\ CanPopen /\ pfd1 < MaxFd
    /\ Fork(type, "run")
    /\ pofd' = [pofd EXCEPT ![MineFd(type)] = End(NewPid, Mine(type))]
    /\ UNCHANGED <<childpid, closing, std>>

\* pclose: the entry is cleared, the stream closed, and the child waited for.
pclose(f) ==
    /\ closing = 0 /\ childpid[f] # 0
    /\ childpid' = [childpid EXCEPT ![f] = 0]
    /\ pofd' = [pofd EXCEPT ![f] = Closed]
    /\ closing' = childpid[f]
    /\ UNCHANGED <<kid, std>>

PcloseReturn ==
    /\ closing # 0 /\ kid[closing].st = "zombie"
    /\ kid' = [kid EXCEPT ![closing].st = "gone"]
    /\ closing' = 0
    /\ UNCHANGED <<pofd, childpid, std>>

\* external: the program opens and closes files of its own.
OpenFile ==
    /\ closing = 0 /\ FreeFds # {}
    /\ pofd' = [pofd EXCEPT ![pfd0] = File]
    /\ UNCHANGED <<childpid, kid, closing, std>>

CloseFile(f) ==
    /\ closing = 0 /\ f > 2 /\ pofd[f] = File
    /\ pofd' = [pofd EXCEPT ![f] = Closed]
    /\ UNCHANGED <<childpid, kid, closing, std>>

Running == {k \in DOMAIN kid : kid[k].st = "run"}
HasOpen(fds, x) == \E f \in FdNum : fds[f] = x

\* external: a command that writes ends by itself, one that reads ends when
\* it has no input or at its end.
Ends(k) ==
    /\ k \in Running
    /\ \/ kid[k].type = "r"
       \/ kid[k].fds[0] # End(k, "r")
       \/ (~HasOpen(pofd, End(k, "w")) /\ \A j \in Running : ~HasOpen(kid[j].fds, End(k, "w")))
    /\ kid' = [kid EXCEPT ![k].st = "zombie", ![k].fds = [f \in FdNum |-> Closed]]
    /\ UNCHANGED <<pofd, childpid, closing, std>>

poNext ==
    \/ \E type \in {"r", "w"} : popen(type) \/ PopenNoStream(type)
    \/ PopenTooMany \/ PopenNoFork
    \/ \E f \in DOMAIN childpid : pclose(f)
    \/ PcloseReturn
    \/ OpenFile \/ \E f \in FdNum : CloseFile(f)
    \/ \E k \in DOMAIN kid : Ends(k)

\* Commands run, and waitpid returns when the child has ended.
poFair == WF_povars(PcloseReturn) /\ \A k \in 1 .. MaxPid : WF_povars(k \in DOMAIN kid /\ Ends(k))

poSpec == poInit /\ [][poNext]_povars /\ poFair

poTypeOK ==
    /\ \A f \in FdNum : pofd[f] \in {File, Closed} \cup ((1 .. MaxPid) \X {"r", "w"})
    /\ childpid \in [0 .. MaxFd - 1 -> 0 .. MaxPid]
    /\ \A k \in DOMAIN kid : kid[k].st \in {"run", "zombie", "gone"} /\ kid[k].type \in {"r", "w"}
    /\ closing \in 0 .. MaxPid

\* A pipe belongs to the caller and one child: no child has an end of the
\* pipe of another child that the caller still has a stream for, and childpid[]
\* says whose end a descriptor is.  A child has its end as its standard output
\* or input (when the caller itself had the standard descriptors open).
PipesArePrivate ==
    /\ \A f \in DOMAIN childpid : childpid[f] # 0 =>
          LET k == childpid[f] IN
          /\ pofd[f] = End(k, Mine(kid[k].type))
          /\ \A j \in Running \ {k} : \A e \in {"r", "w"} : ~HasOpen(kid[j].fds, End(k, e))
    /\ \A k \in Running : std => kid[k].fds[StdOf(kid[k].type)] = End(k, Its(kid[k].type))

\* pclose returns, whatever other streams of popen are open.
PcloseReturns == closing # 0 ~> closing = 0
=============================================================================
