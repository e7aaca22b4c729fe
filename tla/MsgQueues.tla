----------------------------- MODULE MsgQueues -----------------------------
(***************************************************************************)
(* Polling XSI message queues with helper threads: ipc2/pollmsg.c copies   *)
(* every message to a socket, exercises/pollmsg2.c leaves it in a          *)
(* structure shared with the main thread and writes only one byte to the   *)
(* socket.  A message is its number in its queue.                          *)
(***************************************************************************)
EXTENDS Integers, Sequences

CONSTANTS
    NQ,         \* the queues
    MaxMsg      \* bound: messages sent to each queue

Queue == 1 .. NQ

VARIABLES
    mqprog,     \* "pollmsg" or "pollmsg2"
    nsent,      \* messages sent to each queue by other programs
    queue,      \* messages in each queue
    helpers,    \* the helper threads: what each does and the message it has
    msock,      \* what is in the socket of each queue
    mmutex,     \* whether the helper holds the mutex of its queue
    revents,    \* the main thread: queues it is still to serve after poll
    serving,    \* and the queue whose helper it is about to signal, or 0
    printed0,   \* what it printed for each queue
    unasked     \* queues whose helper was woken without a signal

mqvars == <<mqprog, nsent, queue, helpers, msock, mmutex, revents, serving, printed0, unasked>>

mqInitOf(progs) ==
    /\ mqprog \in progs
    /\ nsent = [q \in Queue |-> 0] /\ queue = [q \in Queue |-> << >>]
    /\ helpers = [q \in Queue |-> [at |-> "msgrcv", m |-> 0]]
    /\ msock = [q \in Queue |-> << >>] /\ mmutex = [q \in Queue |-> FALSE]
    /\ revents = {} /\ serving = 0
    /\ printed0 = [q \in Queue |-> << >>] /\ unasked = {}

mqInit == mqInitOf({"pollmsg", "pollmsg2"})

\* external: a program sends a message.
msgsnd(q) ==
    /\ nsent[q] < MaxMsg
    /\ nsent' = [nsent EXCEPT ![q] = @ + 1]
    /\ queue' = [queue EXCEPT ![q] = Append(@, nsent[q] + 1)]
    /\ UNCHANGED <<mqprog, helpers, msock, mmutex, revents, serving, printed0, unasked>>

HelperRcv(q) ==
    /\ helpers[q].at = "msgrcv" /\ queue[q] # << >>
    /\ helpers' = [helpers EXCEPT ![q] = [at |-> "write", m |-> Head(queue[q])]]
    /\ queue' = [queue EXCEPT ![q] = Tail(@)]
    /\ UNCHANGED <<mqprog, nsent, msock, mmutex, revents, serving, printed0, unasked>>

\* pollmsg: the message itself is written.
HelperWrite(q) ==
    /\ mqprog = "pollmsg" /\ helpers[q].at = "write"
    /\ msock' = [msock EXCEPT ![q] = Append(@, helpers[q].m)]
    /\ helpers' = [helpers EXCEPT ![q].at = "msgrcv"]
    /\ UNCHANGED <<mqprog, nsent, queue, mmutex, revents, serving, printed0, unasked>>

\* pollmsg2: the mutex is locked before the byte is written, ...
HelperLock(q) ==
    /\ mqprog = "pollmsg2" /\ helpers[q].at = "write" /\ ~mmutex[q]
    /\ mmutex' = [mmutex EXCEPT ![q] = TRUE]
    /\ msock' = [msock EXCEPT ![q] = Append(@, 0)]
    /\ helpers' = [helpers EXCEPT ![q].at = "cond_wait"]
    /\ UNCHANGED <<mqprog, nsent, queue, revents, serving, printed0, unasked>>

\* ... and released by pthread_cond_wait.
HelperWait(q) ==
    /\ helpers[q].at = "cond_wait"
    /\ mmutex' = [mmutex EXCEPT ![q] = FALSE]
    /\ helpers' = [helpers EXCEPT ![q].at = "waiting"]
    /\ UNCHANGED <<mqprog, nsent, queue, msock, revents, serving, printed0, unasked>>

\* A wakeup without a signal, which pthread_cond_wait may have.
SpuriousQ(q) ==
    /\ helpers[q].at = "waiting"
    /\ helpers' = [helpers EXCEPT ![q].at = "woken"]
    /\ unasked' = unasked \cup {q}
    /\ UNCHANGED <<mqprog, nsent, queue, msock, mmutex, revents, serving, printed0>>

HelperWoken(q) ==
    /\ helpers[q].at = "woken" /\ ~mmutex[q]
    /\ helpers' = [helpers EXCEPT ![q].at = "msgrcv"]
    /\ UNCHANGED <<mqprog, nsent, queue, msock, mmutex, revents, serving, printed0, unasked>>

Poll ==
    /\ revents = {} /\ serving = 0
    /\ \E q \in Queue : msock[q] # << >>
    /\ revents' = {q \in Queue : msock[q] # << >>}
    /\ UNCHANGED <<mqprog, nsent, queue, helpers, msock, mmutex, serving, printed0, unasked>>

\* The loop over the queues: read from the socket and print the message.
ReadMsg ==
    /\ revents # {} /\ serving = 0
    /\ LET q == CHOOSE i \in revents : \A j \in revents : i <= j IN
       /\ msock' = [msock EXCEPT ![q] = Tail(@)]
       /\ printed0' = [printed0 EXCEPT ![q] =
                         Append(@, IF mqprog = "pollmsg" THEN Head(msock[q]) ELSE helpers[q].m)]
       /\ revents' = revents \ {q}
       /\ serving' = IF mqprog = "pollmsg" THEN 0 ELSE q
    /\ UNCHANGED <<mqprog, nsent, queue, helpers, mmutex, unasked>>

\* The signal is sent without the mutex.
SignalHelper_Variant ==
    /\ serving # 0
    /\ helpers' = [helpers EXCEPT ![serving].at = IF @ = "waiting" THEN "woken" ELSE @]
    /\ serving' = 0
    /\ UNCHANGED <<mqprog, nsent, queue, msock, mmutex, revents, printed0, unasked>>

SignalHelper ==
    /\ serving # 0 /\ ~mmutex[serving]
    /\ helpers' = [helpers EXCEPT ![serving].at = IF @ = "waiting" THEN "woken" ELSE @]
    /\ serving' = 0
    /\ UNCHANGED <<mqprog, nsent, queue, msock, mmutex, revents, printed0, unasked>>

HelperStep(q) == HelperRcv(q) \/ HelperWrite(q) \/ HelperLock(q) \/ HelperWait(q) \/ HelperWoken(q)
PollStep == Poll \/ ReadMsg \/ SignalHelper

mqNext == PollStep \/ \E q \in Queue : msgsnd(q) \/ HelperStep(q) \/ SpuriousQ(q)

mqFair == WF_mqvars(PollStep) /\ \A q \in Queue : WF_mqvars(HelperStep(q))
mqSpec == mqInit /\ [][mqNext]_mqvars /\ mqFair

mqTypeOK ==
    /\ mqprog \in {"pollmsg", "pollmsg2"}
    /\ \A q \in Queue : helpers[q].m \in 0 .. MaxMsg /\ Len(queue[q]) <= nsent[q]
    /\ revents \subseteq Queue /\ serving \in Queue \cup {0}

\* Every message sent to a queue is printed, once, in the order of the queue
\* and as it was sent: the helper of pollmsg2 does not overwrite it, and does
\* not miss the signal that it may go on.  It does not look at a condition
\* again when it wakes up, so this is not promised after a spurious wakeup.
MessagesArePrinted ==
    \A q \in Queue : []<>(q \in unasked \/ printed0[q] = [i \in 1 .. nsent[q] |-> i])
=============================================================================
