-------------------------------- MODULE Dup2 --------------------------------
(***************************************************************************)
(* The two versions of dup2 built on dup and close, Ex3_2_dup2.c with a    *)
(* stack and Ex3_2_dup2_recur.c with recursion.  The process's descriptors *)
(* are a function to open files; a call is a step, because nothing else    *)
(* uses the descriptors meanwhile.                                         *)
(***************************************************************************)
EXTENDS Integers, Sequences

CONSTANTS
    OpenMax,    \* open_max(): the number of descriptors
    OpenFiles,  \* open files
    NotOpen

Fd == 0 .. OpenMax - 1

VARIABLES
    fds,        \* the descriptors
    call        \* the last call: its version, arguments and result, and the
                \* descriptors before it

dupvars == <<fds, call>>

\* external: close and dup; dup returns the lowest descriptor.
closefd(t, fd) == [t EXCEPT ![fd] = NotOpen]
FreeFd(t) == {d \in Fd : t[d] = NotOpen}
dup(t, fd) ==
    IF fd \notin Fd \/ FreeFd(t) = {} THEN [t |-> t, ret |-> -1]
    ELSE IF t[fd] = NotOpen THEN [t |-> t, ret |-> -1]
    ELSE LET d == CHOOSE d \in FreeFd(t) : \A e \in FreeFd(t) : d <= e
         IN  [t |-> [t EXCEPT ![d] = t[fd]], ret |-> d]

\* The loops of Ex3_2_dup2.c: duplicate until newfd is reached, and close
\* what is on the stack.
RECURSIVE DupUntil(_, _, _, _)
DupUntil(t, tmpfd, newfd, stack) ==
    LET d == dup(t, tmpfd) IN
    IF d.ret = newfd
    THEN [t |-> [fd \in Fd |-> IF \E k \in DOMAIN stack : stack[k] = fd THEN NotOpen ELSE d.t[fd]],
          ret |-> newfd]
    ELSE IF d.ret = -1 THEN d
    ELSE DupUntil(d.t, d.ret, newfd, Append(stack, d.ret))

\* The function that calls itself with the next descriptor.
RECURSIVE recur(_, _, _)
recur(t, fd, newfd) ==
    IF fd = -1 \/ fd = newfd THEN [t |-> t, ret |-> fd]
    ELSE LET d == dup(t, fd)
             r == recur(d.t, d.ret, newfd)
         IN  [t |-> closefd(r.t, fd), ret |-> r.ret]

\* The tests without the one that nothing needs to be done.
mydup2_Variant(version, t, fd, newfd) ==
    IF dup(t, fd).ret = -1 \/ newfd < 0 \/ newfd > OpenMax THEN [t |-> t, ret |-> -1]
    ELSE LET u == IF newfd \in Fd THEN closefd(t, newfd) ELSE t
             d == dup(u, fd)
         IN  IF version = "stack" THEN DupUntil(u, fd, newfd, << >>) ELSE recur(d.t, d.ret, newfd)

mydup2(version, t, fd, newfd) ==
    IF dup(t, fd).ret = -1 \/ newfd < 0 \/ newfd > OpenMax THEN [t |-> t, ret |-> -1]
    ELSE IF newfd = fd THEN [t |-> t, ret |-> fd]
    ELSE LET u == IF newfd \in Fd THEN closefd(t, newfd) ELSE t
             d == dup(u, fd)
         IN  IF version = "stack" THEN DupUntil(u, fd, newfd, << >>) ELSE recur(d.t, d.ret, newfd)

NoCall == [version |-> "none", fd |-> 0, newfd |-> 0, before |-> [fd \in Fd |-> NotOpen], ret |-> 0]

dupInitOf(tables) == fds \in tables /\ call = NoCall
dupInit == dupInitOf([Fd -> OpenFiles \cup {NotOpen}])

CallDup2(version, fd, newfd) ==
    LET r == mydup2(version, fds, fd, newfd) IN
    /\ fds' = r.t
    /\ call' = [version |-> version, fd |-> fd, newfd |-> newfd, before |-> fds, ret |-> r.ret]

dupNext == \E version \in {"stack", "recur"}, fd \in Fd, newfd \in -1 .. OpenMax + 1 :
              CallDup2(version, fd, newfd)

dupSpec == dupInit /\ [][dupNext]_dupvars

dupTypeOK == fds \in [Fd -> OpenFiles \cup {NotOpen}] /\ call.ret \in -1 .. OpenMax

\* mydup2 does what dup2 does: newfd refers to the file of fd and no other
\* descriptor has changed, or, when it fails, none has.  It also fails when
\* all descriptors are in use; and the version with the stack leaves the
\* descriptors it made when newfd is OPEN_MAX, which the test lets pass.
Dup2IsDup2 ==
    call.version # "none" /\ ~(call.version = "stack" /\ call.newfd = OpenMax) =>
        IF call.before[call.fd] # NotOpen /\ FreeFd(call.before) # {} /\ call.newfd \in Fd
        THEN call.ret = call.newfd /\ fds = [call.before EXCEPT ![call.newfd] = call.before[call.fd]]
        ELSE call.ret = -1 /\ fds = call.before
=============================================================================
