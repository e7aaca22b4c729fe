----------------------------- MODULE PrintSpool -----------------------------
(***************************************************************************)
(* The spooler of src/printer/printd.c: the main thread, one thread for    *)
(* each client, the thread that talks to the printer, the list of pending  *)
(* jobs they share, and the spool directory, which outlives the daemon.    *)
(* A step is one critical section, or one system call that changes the     *)
(* spool directory or answers a client.  The daemon may die at any moment  *)
(* (Crash also stands for SIGTERM and for the calls of log_sys, which end  *)
(* the process without touching the disk) and be started again.  Files     *)
(* that exist can be opened, read and unlinked.                            *)
(*                                                                         *)
(* A document is named by the client that submits it, a job by its number. *)
(* The doubly linked list of jobs is a sequence.  Not modelled here: the   *)
(* worker list, the reread of the configuration, and the text of the       *)
(* printer's answer.                                                       *)
(***************************************************************************)
EXTENDS Integers, Sequences, FiniteSets

CONSTANTS
    Client,     \* runs of the print command
    DocLen,     \* blocks of IOBUFSZ in a document
    JobMax,     \* INT32_MAX
    MaxCrash,   \* how often the daemon may die
    NoFile      \* no such data file

ASSUME SpoolAssumption ==
    /\ DocLen \in Nat \ {0} /\ JobMax \in Nat \ {0} /\ MaxCrash \in Nat
    /\ NoFile \notin Client

\* The print command is not run more often than there are job numbers.
ASSUME FewClients == IsFiniteSet(Client) /\ Cardinality(Client) <= JobMax

VARIABLES
    jobno,      \* the job ID file; 0 if empty
    data,       \* data files: whose document is stored under a job number
    reqs,       \* control files: absent, short, or a whole struct printreq
    main,       \* where the main thread is
    todo,       \* directory entries build_qonstart has not seen yet
    nextjob,    \* number of the next job
    jobs,       \* the list of pending jobs
    cl,         \* where each client thread is
    id,         \* the job number it was given; 0 if none
    stored,     \* blocks of the document in the data file
    spooled,    \* the loop that stores the document has ended
    answer,     \* what the client was told
    pt, jp,     \* where the printer thread is, and its job; 0 if none
    paper,      \* the documents that were printed, once or more
    boot, gen   \* number of crashes so far, and when the job number was issued

disk == <<jobno, data, reqs>>
queue == <<nextjob, jobs>>
starting == <<main, todo>>
client == <<cl, id, stored, spooled, answer, gen>>
printing == <<pt, jp, paper>>
vars == <<disk, queue, starting, client, printing, boot>>

JobId == 1 .. JobMax

Init ==
    /\ jobno = 0
    /\ data = [i \in JobId |-> NoFile]
    /\ reqs = [i \in JobId |-> "none"]
    /\ main = "down" /\ todo = {}
    /\ nextjob = 1 /\ jobs = <<>>
    /\ cl = [c \in Client |-> "new"]
    /\ id = [c \in Client |-> 0]
    /\ stored = [c \in Client |-> 0]
    /\ spooled = [c \in Client |-> FALSE]
    /\ answer = [c \in Client |-> "none"]
    /\ gen = [c \in Client |-> 0]
    /\ pt = "off" /\ jp = 0 /\ paper = {}
    /\ boot = 0

-----------------------------------------------------------------------------
(***************************************************************************)
(* The list of jobs and the condition variable jobwait.                    *)
(***************************************************************************)
\* Critical section of add_job.
add_job(i) == jobs' = Append(jobs, i)

\* Variant: the job goes to the end of the list.
replace_job_Tail == jobs' = Append(jobs, jp)

replace_job == jobs' = <<jp>> \o jobs

\* remove_job(jp = jobhead)
remove_job == jp' = Head(jobs) /\ jobs' = Tail(jobs)

\* Variant: nobody is woken up.
cond_signal_None == UNCHANGED pt

\* pthread_cond_signal(&jobwait): a waiting printer thread contends for the lock.
cond_signal == pt' = IF pt = "wait" THEN "get" ELSE pt

-----------------------------------------------------------------------------
(***************************************************************************)
(* The main thread: start, build_qonstart, accept.                         *)
(***************************************************************************)
\* init_request, and the creation of the printer thread.
init_request ==
    /\ main = "down"
    /\ nextjob' = IF jobno = 0 THEN 1 ELSE jobno
    /\ pt' = "get"
    /\ main' = "build"
    /\ todo' = {i \in JobId : reqs[i] # "none"}
    /\ UNCHANGED <<disk, jobs, client, jp, paper, boot>>

\* Variant: the number of bytes read from the control file is not checked.
Complete_Any(i) == reqs[i] # "none"

\* The read of a control file returns a whole struct printreq.
Complete(i) == reqs[i] = "full"

\* An entry of the directory that can be queued.
BuildAdd(i) ==
    /\ main = "build"
    /\ i \in todo
    /\ Complete(i)
    /\ add_job(i)
    /\ todo' = todo \ {i}
    /\ main' = "build_signal"
    /\ UNCHANGED <<disk, nextjob, client, printing, boot>>

BuildSignal ==
    /\ main = "build_signal"
    /\ cond_signal
    /\ main' = "build"
    /\ UNCHANGED <<disk, queue, todo, client, jp, paper, boot>>

\* The control file is short: both files go, the control file first.
BuildDrop(i) ==
    /\ main = "build"
    /\ i \in todo
    /\ reqs[i] # "none" /\ ~ Complete(i)
    /\ reqs' = [reqs EXCEPT ![i] = "none"]
    /\ main' = "build_unlink"
    /\ UNCHANGED <<jobno, data, queue, todo, client, printing, boot>>

BuildUnlink(i) ==
    /\ main = "build_unlink"
    /\ i \in todo /\ reqs[i] = "none"
    /\ data' = [data EXCEPT ![i] = NoFile]
    /\ todo' = todo \ {i}
    /\ main' = "build"
    /\ UNCHANGED <<jobno, reqs, queue, client, printing, boot>>

BuildDone ==
    /\ main = "build"
    /\ todo = {}
    /\ main' = "accept"
    /\ UNCHANGED <<disk, queue, todo, client, printing, boot>>

\* accept, and pthread_create of a client_thread.
Accept(c) ==
    /\ main = "accept"
    /\ cl[c] = "new"
    /\ cl' = [cl EXCEPT ![c] = "header"]
    /\ UNCHANGED <<disk, queue, starting, id, stored, spooled, answer, gen, printing, boot>>

-----------------------------------------------------------------------------
(***************************************************************************)
(* client_thread.  A read from the client, a creat and a write may fail;   *)
(* the answer is sent before the files are removed.                        *)
(***************************************************************************)
At(c, from, to) ==
    /\ cl[c] = from
    /\ cl' = [cl EXCEPT ![c] = to]

Tell(c, a) == answer' = [answer EXCEPT ![c] = a]

ReadHeader(c) ==
    /\ \/ At(c, "header", "jobno") /\ UNCHANGED answer
       \/ At(c, "header", "done") /\ Tell(c, "rejected")
    /\ UNCHANGED <<disk, queue, starting, id, stored, spooled, gen, printing, boot>>

\* Variant: the counter is not advanced.
get_newjobno_Same(c) ==
    /\ At(c, "jobno", "creat_data")
    /\ id' = [id EXCEPT ![c] = nextjob]
    /\ gen' = [gen EXCEPT ![c] = boot]
    /\ UNCHANGED <<disk, queue, starting, stored, spooled, answer, printing, boot>>

\* Variant: no check for wrap-around.
get_newjobno_NoWrap(c) ==
    /\ At(c, "jobno", "creat_data")
    /\ id' = [id EXCEPT ![c] = nextjob]
    /\ gen' = [gen EXCEPT ![c] = boot]
    /\ nextjob' = nextjob + 1
    /\ UNCHANGED <<disk, jobs, starting, stored, spooled, answer, printing, boot>>

\* nextjob++ past INT32_MAX gives a negative number (the build has no -O), and
\* then 1.
get_newjobno(c) ==
    /\ At(c, "jobno", "creat_data")
    /\ id' = [id EXCEPT ![c] = nextjob]
    /\ gen' = [gen EXCEPT ![c] = boot]
    /\ nextjob' = IF nextjob = JobMax THEN 1 ELSE nextjob + 1
    /\ UNCHANGED <<disk, jobs, starting, stored, spooled, answer, printing, boot>>

\* creat() of the data file, which empties it if it is there.
CreatData(c) ==
    /\ \/ /\ At(c, "creat_data", "spool")
          /\ data' = [data EXCEPT ![id[c]] = c]
          /\ UNCHANGED answer
       \/ /\ At(c, "creat_data", "done") /\ Tell(c, "rejected")
          /\ UNCHANGED data
    /\ UNCHANGED <<jobno, reqs, queue, starting, id, stored, spooled, gen, printing, boot>>

\* tread returns a block, which is written to the data file.
SpoolBlock(c) ==
    /\ stored[c] < DocLen
    /\ \/ /\ At(c, "spool", "spool")
          /\ stored' = [stored EXCEPT ![c] = @ + 1]
          /\ UNCHANGED answer
       \/ /\ At(c, "spool", "unlink_data") /\ Tell(c, "rejected")
          /\ UNCHANGED stored
    /\ UNCHANGED <<disk, queue, starting, id, spooled, gen, printing, boot>>

\* tread returns 0 or -1: the client closed the connection, or nothing came
\* for 20 seconds.
SpoolEnd(c) ==
    /\ At(c, "spool", "creat_req")
    /\ spooled' = [spooled EXCEPT ![c] = TRUE]
    /\ UNCHANGED <<disk, queue, starting, id, stored, answer, gen, printing, boot>>

CreatReq(c) ==
    /\ \/ /\ At(c, "creat_req", "write_req")
          /\ reqs' = [reqs EXCEPT ![id[c]] = "short"]
          /\ UNCHANGED answer
       \/ /\ At(c, "creat_req", "unlink_data") /\ Tell(c, "rejected")
          /\ UNCHANGED reqs
    /\ UNCHANGED <<jobno, data, queue, starting, id, stored, spooled, gen, printing, boot>>

\* Variant: the result of the write is not checked.
WriteReq_Unchecked(c) ==
    /\ At(c, "write_req", "respond")
    /\ reqs' \in {reqs, [reqs EXCEPT ![id[c]] = "full"]}
    /\ UNCHANGED <<jobno, data, queue, starting, id, stored, spooled, answer, gen, printing, boot>>

WriteReq(c) ==
    /\ \/ /\ At(c, "write_req", "respond")
          /\ reqs' = [reqs EXCEPT ![id[c]] = "full"]
          /\ UNCHANGED answer
       \/ /\ At(c, "write_req", "unlink_req") /\ Tell(c, "rejected")
          /\ UNCHANGED reqs
    /\ UNCHANGED <<jobno, data, queue, starting, id, stored, spooled, gen, printing, boot>>

Respond(c) ==
    /\ At(c, "respond", "add") /\ Tell(c, "ok")
    /\ UNCHANGED <<disk, queue, starting, id, stored, spooled, gen, printing, boot>>

ClientAdd(c) ==
    /\ At(c, "add", "signal")
    /\ add_job(id[c])
    /\ UNCHANGED <<disk, nextjob, starting, id, stored, spooled, answer, gen, printing, boot>>

ClientSignal(c) ==
    /\ At(c, "signal", "done")
    /\ cond_signal
    /\ UNCHANGED <<disk, queue, starting, id, stored, spooled, answer, gen, jp, paper, boot>>

UnlinkReq(c) ==
    /\ At(c, "unlink_req", "unlink_data")
    /\ reqs' = [reqs EXCEPT ![id[c]] = "none"]
    /\ UNCHANGED <<jobno, data, queue, starting, id, stored, spooled, answer, gen, printing, boot>>

UnlinkData(c) ==
    /\ At(c, "unlink_data", "done")
    /\ data' = [data EXCEPT ![id[c]] = NoFile]
    /\ UNCHANGED <<jobno, reqs, queue, starting, id, stored, spooled, answer, gen, printing, boot>>

-----------------------------------------------------------------------------
(***************************************************************************)
(* printer_thread.                                                         *)
(***************************************************************************)
\* pthread_cond_wait, which releases joblock; it may return for no reason.
Wait ==
    /\ pt = "get" /\ jobs = <<>>
    /\ pt' = "wait"
    /\ UNCHANGED <<disk, queue, starting, client, jp, paper, boot>>

SpuriousWakeup ==
    /\ pt = "wait"
    /\ pt' = "get"
    /\ UNCHANGED <<disk, queue, starting, client, jp, paper, boot>>

GetJob ==
    /\ pt = "get" /\ jobs # <<>>
    /\ remove_job
    /\ pt' = "update"
    /\ UNCHANGED <<disk, nextjob, starting, client, paper, boot>>

\* nextjob is read without joblock.  The file is not truncated: once the numbers
\* have wrapped around, digits of the old number may stay behind the new ones.
update_jobno ==
    /\ pt = "update"
    /\ jobno' \in IF nextjob < jobno THEN nextjob .. JobMax ELSE {nextjob}
    /\ pt' = "send"
    /\ UNCHANGED <<data, reqs, queue, starting, client, jp, paper, boot>>

\* The data file cannot be opened: the job is dropped, its control file stays.
Cancel ==
    /\ pt = "send" /\ data[jp] = NoFile
    /\ pt' = "get" /\ jp' = 0
    /\ UNCHANGED <<disk, queue, starting, client, paper, boot>>

\* The document is sent and printer_status returns 1.
SendOK ==
    /\ pt = "send" /\ data[jp] # NoFile
    /\ paper' = paper \cup {data[jp]}
    /\ pt' = "unlink_data"
    /\ UNCHANGED <<disk, queue, starting, client, jp, boot>>

\* The printer cannot be reached, or what it answers is not a success or is
\* lost; the document may have been printed all the same.
Defer ==
    /\ pt = "send" /\ data[jp] # NoFile
    /\ paper' \in {paper, paper \cup {data[jp]}}
    /\ pt' = "replace"
    /\ UNCHANGED <<disk, queue, starting, client, jp, boot>>

PrintedUnlinkData ==
    /\ pt = "unlink_data"
    /\ data' = [data EXCEPT ![jp] = NoFile]
    /\ pt' = "unlink_req"
    /\ UNCHANGED <<jobno, reqs, queue, starting, client, jp, paper, boot>>

PrintedUnlinkReq ==
    /\ pt = "unlink_req"
    /\ reqs' = [reqs EXCEPT ![jp] = "none"]
    /\ pt' = "get" /\ jp' = 0
    /\ UNCHANGED <<jobno, data, queue, starting, client, paper, boot>>

\* replace_job, and a minute of sleep.
Replace ==
    /\ pt = "replace"
    /\ replace_job
    /\ pt' = "get" /\ jp' = 0
    /\ UNCHANGED <<disk, nextjob, starting, client, paper, boot>>

-----------------------------------------------------------------------------
\* The daemon dies.  The clients it serves get no answer any more.
Crash ==
    /\ main # "down" /\ boot < MaxCrash
    /\ boot' = boot + 1
    /\ main' = "down" /\ todo' = {}
    /\ nextjob' = 1 /\ jobs' = <<>>
    /\ cl' = [c \in Client |-> IF cl[c] = "new" THEN "new" ELSE "done"]
    /\ pt' = "off" /\ jp' = 0
    /\ UNCHANGED <<disk, id, stored, spooled, answer, gen, paper>>

MainThread ==
    \/ init_request \/ BuildSignal \/ BuildDone
    \/ \E i \in JobId : BuildAdd(i) \/ BuildDrop(i) \/ BuildUnlink(i)

client_thread(c) ==
    \/ ReadHeader(c) \/ get_newjobno(c) \/ CreatData(c) \/ SpoolBlock(c) \/ SpoolEnd(c)
    \/ CreatReq(c) \/ WriteReq(c) \/ Respond(c) \/ ClientAdd(c) \/ ClientSignal(c)
    \/ UnlinkReq(c) \/ UnlinkData(c)

printer_thread ==
    \/ Wait \/ GetJob \/ update_jobno \/ Cancel \/ SendOK \/ Defer
    \/ PrintedUnlinkData \/ PrintedUnlinkReq \/ Replace

Next ==
    \/ MainThread \/ printer_thread \/ SpuriousWakeup \/ Crash
    \/ \E c \in Client : Accept(c) \/ client_thread(c)

(***************************************************************************)
(* The kernel schedules every thread, somebody starts the daemon again,    *)
(* and the printer does not refuse jobs for ever.                          *)
(***************************************************************************)
Fairness ==
    /\ WF_vars(MainThread)
    /\ WF_vars(printer_thread)
    /\ SF_vars(SendOK)
    /\ \A c \in Client : WF_vars(client_thread(c))

Spec == Init /\ [][Next]_vars /\ Fairness

-----------------------------------------------------------------------------
MainState == {"down", "build", "build_signal", "build_unlink", "accept"}
ClientState == {"new", "header", "jobno", "creat_data", "spool", "creat_req", "write_req",
                "respond", "add", "signal", "unlink_req", "unlink_data", "done"}
PrinterState == {"off", "get", "wait", "update", "send", "unlink_data", "unlink_req",
                 "replace"}

\* The files, the list and the threads have the right types.
TypeOK ==
    /\ jobno \in 0 .. JobMax /\ nextjob \in JobId
    /\ data \in [JobId -> Client \cup {NoFile}]
    /\ reqs \in [JobId -> {"none", "short", "full"}]
    /\ main \in MainState /\ todo \subseteq JobId
    /\ jobs \in Seq(JobId)
    /\ cl \in [Client -> ClientState]
    /\ id \in [Client -> 0 .. JobMax]
    /\ stored \in [Client -> 0 .. DocLen]
    /\ spooled \in [Client -> BOOLEAN]
    /\ answer \in [Client -> {"none", "ok", "rejected"}]
    /\ pt \in PrinterState /\ jp \in 0 .. JobMax
    /\ paper \subseteq Client
    /\ boot \in 0 .. MaxCrash /\ gen \in [Client -> 0 .. MaxCrash]

-----------------------------------------------------------------------------
\* Two documents were given one job number by two runs of the daemon.
Reused ==
    \E c, d \in Client : id[c] # 0 /\ id[c] = id[d] /\ gen[c] # gen[d]

\* get_newjobno never gives a number twice in one run of the daemon, however
\* the client threads interleave.
NumbersDifferInOneRun ==
    \A c, d \in Client : c # d /\ id[c] # 0 /\ id[c] = id[d] => gen[c] # gen[d]

\* The document is on paper, or both its files are in the spool directory.
Kept(c) == c \in paper \/ (data[id[c]] = c /\ reqs[id[c]] = "full")

\* A document the client was told is accepted survives any crash until it is
\* printed (client_thread answers after both files are written, printer_thread
\* removes them after printing), if no job number is given again.
AcceptedIsKept ==
    \A c \in Client : answer[c] = "ok" /\ ~ Reused => Kept(c)

\* A document is printed only if it was received to the end of the connection
\* and not rejected, although a crash may leave any part of it in the spool
\* directory for build_qonstart to find.
OnlySpooledIsPrinted ==
    \A c \in paper : ~ Reused => spooled[c] /\ answer[c] # "rejected"

\* The jobs to be printed, the one the printer thread holds first.
Pending == IF jp = 0 THEN jobs ELSE <<jp>> \o jobs

\* Jobs are printed in the order of add_job: while the daemon runs a job enters
\* at the end and leaves from the front, also when the printer refuses it.
FirstInFirstOut ==
    [][\/ boot' # boot
       \/ Pending' = Pending
       \/ \E i \in JobId : Pending' = Append(Pending, i)
       \/ Pending # <<>> /\ Pending' = Tail(Pending)]_vars

\* An accepted document is printed in the end: the wakeup of add_job is not
\* lost, a deferred job is tried again, and a restart finds it.
AcceptedIsPrinted ==
    \A c \in Client : answer[c] = "ok" ~> c \in paper \/ Reused

\* build_qonstart is there to "Check the spool directory for pending jobs on
\* start-up": an accepted document survives a restart.
NoAcceptedIsLost == \A c \in Client : answer[c] = "ok" => Kept(c)

\* client_thread is there to "Read the file and store it in the spool
\* directory": an accepted document is stored whole.
AcceptedIsWhole == \A c \in Client : answer[c] = "ok" => stored[c] = DocLen

=============================================================================
