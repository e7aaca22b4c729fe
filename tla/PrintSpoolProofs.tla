-------------------------- MODULE PrintSpoolProofs --------------------------
(***************************************************************************)
(* Proofs about PrintSpool, for any set of clients, any length of the      *)
(* documents and any number of crashes.  First that each step keeps the    *)
(* types and the places of the threads and changes the files, the list and *)
(* the paper in a few ways only; then the safety properties of the spooler *)
(* and the order of the queue.                                             *)
(***************************************************************************)
EXTENDS PrintSpoolInv, FiniteSetTheorems, TLAPS

(***************************************************************************)
(* Types.                                                                  *)
(***************************************************************************)
USE SpoolAssumption

\* The first element and the rest of a list of jobs are jobs.
LEMMA HeadTailType ==
    ASSUME jobs \in Seq(JobId), jobs # << >>
    PROVE  Head(jobs) \in JobId /\ Tail(jobs) \in Seq(JobId)
  OBVIOUS

\* A thread that works on a job has a number, and so has the job of the printer
\* thread.
LEMMA HasNumber ==
    ASSUME TypeOK, PlaceInv
    PROVE  /\ \A c \in Client : cl[c] \notin NoNumberYet \cup {"done"} => id[c] \in JobId
           /\ pt \in {"update", "send", "unlink_data", "unlink_req", "replace"} => jp \in JobId
  BY SMTT(40) DEF TypeOK, PlaceInv, JobId

\* Every step of a client thread keeps the types.
LEMMA ClientTypes ==
    ASSUME TypeOK, PlaceInv, NEW c \in Client, Accept(c) \/ client_thread(c)
    PROVE  TypeOK'
  <1> USE DEF TypeOK, At, Tell, disk, queue, starting, client, printing, JobId,
              ClientState, PrinterState
  <1>1. CASE Accept(c)
    BY Zenon, <1>1 DEF Accept
  <1>2. CASE ReadHeader(c)
    BY ZenonT(30), <1>2 DEF ReadHeader
  <1>3. CASE get_newjobno(c)
    <2>1. nextjob' \in JobId /\ cl' \in [Client -> ClientState] /\ id' \in [Client -> 0 .. JobMax]
      BY <1>3 DEF get_newjobno
    <2>2. gen' \in [Client -> 0 .. MaxCrash]
      BY Zenon, <1>3 DEF get_newjobno
    <2> QED
      BY Zenon, <1>3, <2>1, <2>2 DEF get_newjobno
  <1>4. CASE CreatData(c)
    <2>1. data' \in [JobId -> Client \cup {NoFile}]
      BY ZenonT(30), <1>4 DEF CreatData
    <2>2. cl' \in [Client -> ClientState] /\ answer' \in [Client -> {"none", "ok", "rejected"}]
      BY ZenonT(30), <1>4 DEF CreatData
    <2> QED
      BY Zenon, <1>4, <2>1, <2>2 DEF CreatData
  <1>5. CASE SpoolBlock(c)
    <2>1. stored' \in [Client -> 0 .. DocLen]
      BY SMTT(40), <1>5 DEF SpoolBlock
    <2>2. cl' \in [Client -> ClientState] /\ answer' \in [Client -> {"none", "ok", "rejected"}]
      BY ZenonT(30), <1>5 DEF SpoolBlock
    <2> QED
      BY Zenon, <1>5, <2>1, <2>2 DEF SpoolBlock
  <1>6. CASE SpoolEnd(c)
    BY Zenon, <1>6 DEF SpoolEnd
  <1>7. CASE CreatReq(c)
    BY ZenonT(30), <1>7 DEF CreatReq
  <1>8. CASE WriteReq(c)
    BY ZenonT(30), <1>8 DEF WriteReq
  <1>9. CASE Respond(c)
    BY Zenon, <1>9 DEF Respond
  <1>10. CASE ClientAdd(c)
    <2>1. id[c] \in JobId
      BY ZenonT(30), <1>10, HasNumber DEF ClientAdd, NoNumberYet
    <2>2. jobs' \in Seq(JobId)
      BY <1>10, <2>1 DEF ClientAdd, add_job
    <2> QED
      BY Zenon, <1>10, <2>2 DEF ClientAdd
  <1>11. CASE ClientSignal(c)
    BY Zenon, <1>11 DEF ClientSignal, cond_signal
  <1>12. CASE UnlinkReq(c)
    BY ZenonT(30), <1>12 DEF UnlinkReq
  <1>13. CASE UnlinkData(c)
    BY ZenonT(30), <1>13 DEF UnlinkData
  <1> QED
    BY ZenonT(30), <1>1, <1>2, <1>3, <1>4, <1>5, <1>6, <1>7, <1>8, <1>9, <1>10, <1>11, <1>12, <1>13
       DEF client_thread

\* So does every step of the main thread.
LEMMA MainTypes == TypeOK /\ MainThread => TypeOK'
  <1> SUFFICES ASSUME TypeOK, MainThread PROVE TypeOK'
    BY Zenon
  <1> USE DEF TypeOK, disk, queue, starting, client, printing, JobId, MainState, PrinterState
  <1>1. CASE init_request
    BY <1>1 DEF init_request
  <1>2. CASE BuildSignal
    BY Zenon, <1>2 DEF BuildSignal, cond_signal
  <1>3. CASE BuildDone
    BY Zenon, <1>3 DEF BuildDone
  <1>4. ASSUME NEW i \in JobId, BuildAdd(i) PROVE TypeOK'
    BY <1>4 DEF BuildAdd, add_job
  <1>5. ASSUME NEW i \in JobId, BuildDrop(i) PROVE TypeOK'
    BY Zenon, <1>5 DEF BuildDrop
  <1>6. ASSUME NEW i \in JobId, BuildUnlink(i) PROVE TypeOK'
    BY Zenon, <1>6 DEF BuildUnlink
  <1> QED
    BY ZenonT(30), <1>1, <1>2, <1>3, <1>4, <1>5, <1>6 DEF MainThread

\* So do the printer thread and a crash.  Where the printer thread holds a job,
\* jp is one.
LEMMA PrinterTypes ==
    ASSUME TypeOK, PlaceInv, printer_thread \/ SpuriousWakeup \/ Crash
    PROVE  TypeOK'
  <1> USE DEF TypeOK, disk, queue, starting, client, printing, JobId, PrinterState
  <1>1. CASE Wait
    BY Zenon, <1>1 DEF Wait
  <1>2. CASE SpuriousWakeup
    BY Zenon, <1>2 DEF SpuriousWakeup
  <1>3. CASE GetJob
    BY SMTT(40), <1>3, HeadTailType DEF GetJob, remove_job
  <1>4. CASE update_jobno
    BY <1>4 DEF update_jobno
  <1>5. CASE Cancel
    BY <1>5 DEF Cancel
  <1>6. CASE SendOK
    BY Zenon, <1>6, HasNumber DEF SendOK
  <1>7. CASE Defer
    <2>1. jp \in JobId
      BY Zenon, <1>7, HasNumber DEF Defer
    <2>2. data[jp] \in Client
      BY Zenon, <1>7, <2>1 DEF Defer
    <2> QED
      BY Zenon, <1>7, <2>2 DEF Defer
  <1>8. CASE PrintedUnlinkData
    BY ZenonT(30), <1>8 DEF PrintedUnlinkData
  <1>9. CASE PrintedUnlinkReq
    BY SMTT(40), <1>9, HasNumber DEF PrintedUnlinkReq
  <1>10. CASE Replace
    <2>1. jp \in JobId
      BY Zenon, <1>10, HasNumber DEF Replace
    <2> QED
      BY <1>10, <2>1 DEF Replace, replace_job
  <1>11. CASE Crash
    BY <1>11 DEF Crash, ClientState, MainState
  <1> QED
    BY ZenonT(30), <1>1, <1>2, <1>3, <1>4, <1>5, <1>6, <1>7, <1>8, <1>9, <1>10, <1>11
       DEF printer_thread

\* Every step of the daemon and of its clients keeps the types.
LEMMA TypeStep == TypeOK /\ PlaceInv /\ [Next]_vars => TypeOK'
  <1> SUFFICES ASSUME TypeOK, PlaceInv, [Next]_vars PROVE TypeOK'
    BY Zenon
  <1>1. CASE UNCHANGED vars
    BY Zenon, <1>1 DEF TypeOK, vars, disk, queue, starting, client, printing
  <1>2. CASE Next
    BY Zenon, <1>2, ClientTypes, MainTypes, PrinterTypes DEF Next
  <1> QED
    BY Zenon, <1>1, <1>2

-----------------------------------------------------------------------------
(***************************************************************************)
(* Where the threads are.                                                  *)
(***************************************************************************)
\* A step of a client thread is taken by a thread that runs, so the daemon has
\* started, and it leaves the printer thread where it is or wakes it up.
LEMMA ClientPlaces ==
    ASSUME TypeOK, PlaceInv, NEW c \in Client, Accept(c) \/ client_thread(c)
    PROVE  PlaceInv'
  <1> USE DEF At, Tell, disk, queue, starting, client, printing
  <1>1. main = "accept"
    BY Zenon DEF PlaceInv, Accept, client_thread, ReadHeader, get_newjobno, CreatData, SpoolBlock,
           SpoolEnd, CreatReq, WriteReq, Respond, ClientAdd, ClientSignal, UnlinkReq, UnlinkData
  <1>2. main' = "accept" /\ jp' = jp /\ pt' \in {pt, IF pt = "wait" THEN "get" ELSE pt}
    BY Zenon, <1>1 DEF PlaceInv, Accept, client_thread, ReadHeader, get_newjobno, CreatData, SpoolBlock,
           SpoolEnd, CreatReq, WriteReq, Respond, ClientAdd, ClientSignal, UnlinkReq, UnlinkData,
           cond_signal
  <1>3. ASSUME NEW d \in Client
        PROVE  /\ cl'[d] \in NoNumberYet => id'[d] = 0
               /\ cl'[d] \notin NoNumberYet \cup {"done"} => id'[d] # 0
               /\ cl'[d] \notin {"unlink_req", "unlink_data", "done"} => answer'[d] # "rejected"
               /\ cl'[d] \in {"unlink_req", "unlink_data"} => answer'[d] = "rejected"
    <2>1. CASE ~ get_newjobno(c)
      <3>1. id' = id
        BY ZenonT(40), <2>1 DEF Accept, client_thread, ReadHeader, CreatData, SpoolBlock,
           SpoolEnd, CreatReq, WriteReq, Respond, ClientAdd, ClientSignal, UnlinkReq, UnlinkData
      <3>2. \/ cl'[d] = cl[d]
            \/ cl[d] = "new" /\ cl'[d] = "header"
            \/ cl[d] = "header" /\ cl'[d] = "jobno"
            \/ cl[d] # "new" /\ cl'[d] = "done"
            \/ /\ cl[d] \notin NoNumberYet \cup {"done"}
               /\ cl'[d] \notin NoNumberYet \cup {"done"}
        BY SMTT(40), <2>1 DEF Accept, client_thread, ReadHeader, CreatData, SpoolBlock,
           SpoolEnd, CreatReq, WriteReq, Respond, ClientAdd, ClientSignal, UnlinkReq, UnlinkData,
           TypeOK, NoNumberYet
      <3>3. \/ /\ answer'[d] = answer[d]
               /\ cl'[d] \notin {"unlink_req", "unlink_data", "done"}
               /\ cl[d] \notin {"unlink_req", "unlink_data", "done"}
            \/ answer'[d] = "ok" /\ cl'[d] = "add"
            \/ /\ answer'[d] = answer[d] /\ cl[d] \in {"unlink_req", "unlink_data"}
               /\ cl'[d] \in {"unlink_req", "unlink_data", "done"}
            \/ cl'[d] = "done"
            \/ cl'[d] \in {"unlink_req", "unlink_data"} /\ answer'[d] = "rejected"
        BY SMTT(40), <2>1 DEF Accept, client_thread, ReadHeader, CreatData, SpoolBlock,
           SpoolEnd, CreatReq, WriteReq, Respond, ClientAdd, ClientSignal, UnlinkReq, UnlinkData,
           TypeOK
      <3> QED
        BY ZenonT(30), <3>1, <3>2, <3>3 DEF PlaceInv, NoNumberYet
    <2>2. CASE get_newjobno(c)
      BY <2>2 DEF get_newjobno, PlaceInv, NoNumberYet, TypeOK, JobId
    <2> QED
      BY Zenon, <2>1, <2>2
  <1> QED
    BY Zenon, <1>1, <1>2, <1>3 DEF PlaceInv

\* So with the main thread and the printer thread, and after a crash no thread
\* is left.
LEMMA PlaceStep == TypeOK /\ PlaceInv /\ [Next]_vars => PlaceInv'
  <1> SUFFICES ASSUME TypeOK, PlaceInv, [Next]_vars PROVE PlaceInv'
    BY Zenon
  <1> USE DEF disk, queue, starting, client, printing
  <1>1. CASE UNCHANGED vars
    BY ZenonT(30), <1>1 DEF PlaceInv, vars
  <1>2. CASE \E c \in Client : Accept(c) \/ client_thread(c)
    BY Zenon, <1>2, ClientPlaces
  <1>3. CASE MainThread
    BY <1>3 DEF MainThread, init_request, BuildSignal, BuildDone, BuildAdd, BuildDrop,
                BuildUnlink, cond_signal, PlaceInv
  <1>4. CASE GetJob
    BY SMTT(30), <1>4, HeadTailType DEF GetJob, remove_job, PlaceInv, TypeOK, JobId
  <1>5. CASE (printer_thread /\ ~ GetJob) \/ SpuriousWakeup
    <2>1. UNCHANGED <<main, client>>
      BY Zenon, <1>5 DEF printer_thread, Wait, update_jobno, Cancel, SendOK, Defer, PrintedUnlinkData,
                  PrintedUnlinkReq, Replace, SpuriousWakeup
    <2>2. pt # "off" /\ (jp' # 0 <=> pt' \in {"update", "send", "unlink_data", "unlink_req", "replace"})
      BY Zenon, <1>5 DEF printer_thread, Wait, update_jobno, Cancel, SendOK, Defer, PrintedUnlinkData,
                  PrintedUnlinkReq, Replace, SpuriousWakeup, PlaceInv
    <2> QED
      BY Zenon, <2>1, <2>2 DEF PlaceInv
  <1>6. CASE Crash
    <2>1. /\ \A c \in Client : cl'[c] = IF cl[c] = "new" THEN "new" ELSE "done"
          /\ UNCHANGED <<id, answer>> /\ main' = "down" /\ pt' = "off" /\ jp' = 0
      BY Zenon, <1>6 DEF Crash
    <2> QED
      BY Zenon, <2>1 DEF PlaceInv, NoNumberYet
  <1> QED
    BY Zenon, <1>1, <1>2, <1>3, <1>4, <1>5, <1>6 DEF Next

-----------------------------------------------------------------------------
(***************************************************************************)
(* The spool directory and the list.                                       *)
(***************************************************************************)
\* A number that was issued stays issued.
LEMMA NumbersStay ==
    ASSUME TypeOK, PlaceInv, [Next]_vars
    PROVE  \A c \in Client : id[c] # 0 => id'[c] = id[c] /\ gen'[c] = gen[c]
  <1> USE DEF disk, queue, starting, client, printing
  <1>1. CASE UNCHANGED <<id, gen>>
    BY Zenon, <1>1
  <1>2. ASSUME NEW c \in Client, get_newjobno(c)
        PROVE  \A d \in Client : id[d] # 0 => id'[d] = id[d] /\ gen'[d] = gen[d]
    BY Zenon, <1>2 DEF get_newjobno, At, PlaceInv, NoNumberYet, TypeOK
  <1>3. CASE UNCHANGED vars
    BY Zenon, <1>1, <1>3 DEF vars
  <1>4. ASSUME NEW c \in Client, Accept(c) \/ client_thread(c), ~ get_newjobno(c)
        PROVE  UNCHANGED <<id, gen>>
    BY Zenon, <1>4 DEF Accept, client_thread, ReadHeader, CreatData, SpoolBlock, SpoolEnd,
           CreatReq, WriteReq, Respond, ClientAdd, ClientSignal, UnlinkReq, UnlinkData
  <1>5. CASE MainThread
    BY Zenon, <1>1, <1>5 DEF MainThread, init_request, BuildSignal, BuildDone, BuildAdd, BuildDrop, BuildUnlink
  <1>6. CASE printer_thread \/ SpuriousWakeup \/ Crash
    BY Zenon, <1>1, <1>6 DEF printer_thread, Wait, GetJob, update_jobno, Cancel, SendOK, Defer,
           PrintedUnlinkData, PrintedUnlinkReq, Replace, SpuriousWakeup, Crash
  <1> QED
    BY Zenon, <1>1, <1>2, <1>3, <1>4, <1>5, <1>6 DEF Next

\* If no number is used twice after a step then none was before it.
LEMMA ReusedStays ==
    ASSUME TypeOK, PlaceInv, [Next]_vars, Reused
    PROVE  Reused'
  BY NumbersStay DEF Reused

\* add_job, replace_job and remove_job change what is in the list by the one
\* job they are about.
LEMMA ListAdd ==
    ASSUME NEW i \in JobId, jobs \in Seq(JobId), add_job(i), jp' = jp, NEW j, InList(j)'
    PROVE  j = i \/ InList(j)
  BY DEF InList, add_job

\* replace_job puts back the job that was held: no number enters the list.
LEMMA ListReplace ==
    ASSUME jp \in JobId, jobs \in Seq(JobId), replace_job, jp' = 0, NEW j, j # 0, InList(j)'
    PROVE  InList(j)
  BY DEF InList, replace_job

\* remove_job takes the first job out of the list: no number enters it.
LEMMA ListRemove ==
    ASSUME jobs \in Seq(JobId), jobs # << >>, remove_job, NEW j, InList(j)'
    PROVE  InList(j)
  <1>1. CASE j = jp'
    BY <1>1 DEF InList, remove_job
  <1>2. CASE \E k \in 1 .. Len(jobs') : jobs'[k] = j
    <2>1. PICK k \in 1 .. Len(jobs') : jobs'[k] = j
      BY Zenon, <1>2
    <2>2. k + 1 \in 1 .. Len(jobs) /\ jobs[k + 1] = j
      BY SMTT(30), <2>1 DEF remove_job
    <2> QED
      BY Zenon, <2>2 DEF InList
  <1> QED
    BY Zenon, <1>1, <1>2 DEF InList

\* A job enters the list from the spool directory or from its client thread.
LEMMA ListStep ==
    ASSUME TypeOK, PlaceInv, [Next]_vars, NEW j \in JobId, InList(j)'
    PROVE  \/ InList(j)
           \/ main = "build" /\ reqs[j] = "full"
           \/ \E c \in Client : cl[c] = "add" /\ id[c] = j /\ cl'[c] = "signal"
  <1> USE DEF disk, queue, starting, client, printing
  <1>a. jobs \in Seq(JobId) /\ cl \in [Client -> ClientState]
    BY Zenon DEF TypeOK
  <1>1. jobs' = jobs /\ jp' = jp => InList(j)
    BY Zenon DEF InList
  <1>2. jobs' = jobs /\ jp' = 0 => InList(j)
    BY DEF InList, JobId
  <1>3. ASSUME NEW i \in JobId, BuildAdd(i)
        PROVE  InList(j) \/ (main = "build" /\ reqs[j] = "full")
    <2>1. j = i \/ InList(j)
      BY Zenon, <1>3, <1>a, ListAdd DEF BuildAdd
    <2> QED
      BY Zenon, <1>3, <2>1 DEF BuildAdd, Complete
  <1>4. ASSUME NEW c \in Client, ClientAdd(c)
        PROVE  InList(j) \/ (cl[c] = "add" /\ id[c] = j /\ cl'[c] = "signal")
    <2>1. cl[c] = "add" /\ cl'[c] = "signal" /\ add_job(id[c]) /\ jp' = jp
      BY Zenon, <1>4, <1>a DEF ClientAdd, At
    <2>2. id[c] \in JobId
      BY Zenon, <2>1, HasNumber DEF NoNumberYet
    <2>3. j = id[c] \/ InList(j)
      BY Zenon, <2>1, <2>2, <1>a, ListAdd
    <2> QED
      BY Zenon, <2>1, <2>3
  <1>5. CASE GetJob
    BY Zenon, <1>5, <1>a, ListRemove DEF GetJob
  <1>6. CASE Replace
    BY <1>6, <1>a, HasNumber, ListReplace DEF Replace, JobId
  <1>7. CASE UNCHANGED vars
    BY Zenon, <1>1, <1>7 DEF vars
  <1>8. ASSUME NEW c \in Client, Accept(c) \/ client_thread(c), ~ ClientAdd(c)
        PROVE  InList(j)
    BY ZenonT(30), <1>1, <1>8 DEF Accept, client_thread, ReadHeader, get_newjobno, CreatData, SpoolBlock,
           SpoolEnd, CreatReq, WriteReq, Respond, ClientSignal, UnlinkReq, UnlinkData
  <1>9. ASSUME MainThread, \A i \in JobId : ~ BuildAdd(i)
        PROVE  InList(j)
    BY Zenon, <1>1, <1>9 DEF MainThread, init_request, BuildSignal, BuildDone, BuildDrop, BuildUnlink
  <1>10. CASE (printer_thread /\ ~ GetJob /\ ~ Replace) \/ SpuriousWakeup
    BY Zenon, <1>1, <1>2, <1>10 DEF printer_thread, Wait, update_jobno, Cancel, SendOK, Defer,
           PrintedUnlinkData, PrintedUnlinkReq, SpuriousWakeup
  <1>11. CASE Crash
    <2>1. jobs' = << >> /\ jp' = 0
      BY Zenon, <1>11 DEF Crash
    <2>2. ~ InList(j)'
      BY SMTT(30), <2>1 DEF InList, JobId
    <2> QED
      BY Zenon, <2>2
  <1> QED
    BY Zenon, <1>3, <1>4, <1>5, <1>6, <1>7, <1>8, <1>9, <1>10, <1>11 DEF Next

\* What a step may do to the files of a number.
LEMMA FileStep ==
    ASSUME TypeOK, PlaceInv, [Next]_vars, NEW i \in JobId
    PROVE  /\ \/ data'[i] = data[i]
              \/ \E c \in Client : /\ cl[c] = "creat_data" /\ cl'[c] = "spool"
                                   /\ id[c] = i /\ data'[i] = c
              \/ /\ data'[i] = NoFile
                 /\ \/ \E c \in Client : cl[c] = "unlink_data" /\ id[c] = i
                    \/ pt = "unlink_data" /\ jp = i
                    \/ main = "build_unlink" /\ reqs[i] = "none"
           /\ \/ reqs'[i] = reqs[i]
              \/ \E c \in Client : /\ cl[c] = "creat_req" /\ cl'[c] = "write_req"
                                   /\ id[c] = i /\ reqs'[i] = "short"
              \/ \E c \in Client : /\ cl[c] = "write_req" /\ cl'[c] = "respond"
                                   /\ id[c] = i /\ reqs'[i] = "full"
              \/ /\ reqs'[i] = "none"
                 /\ \/ \E c \in Client : cl[c] = "unlink_req" /\ id[c] = i
                    \/ pt = "unlink_req" /\ jp = i
                    \/ main = "build" /\ reqs[i] # "full"
  <1> USE DEF disk, queue, starting, client, printing
  <1>a. /\ cl \in [Client -> ClientState] /\ data \in [JobId -> Client \cup {NoFile}]
        /\ reqs \in [JobId -> {"none", "short", "full"}]
    BY Zenon DEF TypeOK
  <1>1. CASE UNCHANGED <<data, reqs>>
    BY Zenon, <1>1
  <1>2. ASSUME NEW c \in Client, CreatData(c)
        PROVE  /\ reqs' = reqs
               /\ \/ data'[i] = data[i]
                  \/ cl[c] = "creat_data" /\ cl'[c] = "spool" /\ id[c] = i /\ data'[i] = c
    BY Zenon, <1>2, <1>a DEF CreatData, At
  <1>3. ASSUME NEW c \in Client, CreatReq(c)
        PROVE  /\ data' = data
               /\ \/ reqs'[i] = reqs[i]
                  \/ cl[c] = "creat_req" /\ cl'[c] = "write_req" /\ id[c] = i /\ reqs'[i] = "short"
    BY Zenon, <1>3, <1>a DEF CreatReq, At
  <1>4. ASSUME NEW c \in Client, WriteReq(c)
        PROVE  /\ data' = data
               /\ \/ reqs'[i] = reqs[i]
                  \/ cl[c] = "write_req" /\ cl'[c] = "respond" /\ id[c] = i /\ reqs'[i] = "full"
    BY Zenon, <1>4, <1>a DEF WriteReq, At
  <1>5. ASSUME NEW c \in Client, UnlinkReq(c)
        PROVE  /\ data' = data
               /\ reqs'[i] = reqs[i] \/ (cl[c] = "unlink_req" /\ id[c] = i /\ reqs'[i] = "none")
    BY Zenon, <1>5, <1>a DEF UnlinkReq, At
  <1>6. ASSUME NEW c \in Client, UnlinkData(c)
        PROVE  /\ reqs' = reqs
               /\ data'[i] = data[i] \/ (cl[c] = "unlink_data" /\ id[c] = i /\ data'[i] = NoFile)
    BY Zenon, <1>6, <1>a DEF UnlinkData, At
  <1>7. ASSUME NEW c \in Client, Accept(c) \/ client_thread(c)
        PROVE  \/ UNCHANGED <<data, reqs>>
               \/ CreatData(c) \/ CreatReq(c) \/ WriteReq(c) \/ UnlinkReq(c) \/ UnlinkData(c)
    BY ZenonT(30), <1>7 DEF Accept, client_thread, ReadHeader, get_newjobno, SpoolBlock, SpoolEnd,
           Respond, ClientAdd, ClientSignal
  <1>8. ASSUME NEW k \in JobId, BuildDrop(k)
        PROVE  /\ data' = data
               /\ reqs'[i] = reqs[i] \/ (main = "build" /\ reqs[i] # "full" /\ reqs'[i] = "none")
    BY Zenon, <1>8, <1>a DEF BuildDrop, Complete
  <1>9. ASSUME NEW k \in JobId, BuildUnlink(k)
        PROVE  /\ reqs' = reqs
               /\ data'[i] = data[i] \/ (main = "build_unlink" /\ reqs[i] = "none" /\ data'[i] = NoFile)
    BY Zenon, <1>9, <1>a DEF BuildUnlink
  <1>10. CASE MainThread
    <2>1. CASE init_request \/ BuildSignal \/ BuildDone \/ \E k \in JobId : BuildAdd(k)
      BY Zenon, <1>1, <2>1 DEF init_request, BuildSignal, BuildDone, BuildAdd
    <2> QED
      BY Zenon, <1>8, <1>9, <1>10, <2>1 DEF MainThread
  <1>11. CASE PrintedUnlinkData
    BY Zenon, <1>11, <1>a DEF PrintedUnlinkData
  <1>12. CASE PrintedUnlinkReq
    BY Zenon, <1>12, <1>a DEF PrintedUnlinkReq
  <1>13. CASE (printer_thread /\ ~ PrintedUnlinkData /\ ~ PrintedUnlinkReq) \/ SpuriousWakeup \/ Crash
    BY Zenon, <1>1, <1>13 DEF printer_thread, Wait, GetJob, update_jobno, Cancel, SendOK, Defer, Replace,
                       SpuriousWakeup, Crash
  <1>14. CASE UNCHANGED vars
    BY ZenonT(30), <1>1, <1>14 DEF vars
  <1>15. CASE \E c \in Client : Accept(c) \/ client_thread(c)
    <2>1. PICK c \in Client : Accept(c) \/ client_thread(c)
      BY Zenon, <1>15
    <2>2. CASE UNCHANGED <<data, reqs>>
      BY Zenon, <1>1, <2>2
    <2>3. CASE CreatData(c)
      BY ZenonT(30), <1>2, <2>3
    <2>4. CASE CreatReq(c)
      BY ZenonT(30), <1>3, <2>4
    <2>5. CASE WriteReq(c)
      BY ZenonT(30), <1>4, <2>5
    <2>6. CASE UnlinkReq(c)
      BY ZenonT(30), <1>5, <2>6
    <2>7. CASE UnlinkData(c)
      BY ZenonT(30), <1>6, <2>7
    <2> QED
      BY ZenonT(40), <1>7, <2>1, <2>2, <2>3, <2>4, <2>5, <2>6, <2>7
  <1> QED
    BY Zenon, <1>10, <1>11, <1>12, <1>13, <1>14, <1>15 DEF Next

\* Every file and every job of the list has a number that was issued.
LEMMA FilesStep == TypeOK /\ PlaceInv /\ FileInv /\ [Next]_vars => FileInv'
  <1> SUFFICES ASSUME TypeOK, PlaceInv, FileInv, [Next]_vars, NEW i \in JobId
               PROVE  /\ data'[i] # NoFile => id'[data'[i]] = i
                      /\ reqs'[i] # "none" => Numbered(i)'
                      /\ InList(i)' => Numbered(i)'
    BY ZenonT(30) DEF FileInv
  <1>1. i # 0
    BY SMTT(30) DEF JobId
  <1>2. Numbered(i) => Numbered(i)'
    BY Zenon, <1>1, NumbersStay DEF Numbered
  <1>3. ASSUME NEW c \in Client, id[c] = i PROVE Numbered(i)' /\ id'[c] = i
    BY Zenon, <1>1, <1>3, NumbersStay DEF Numbered
  <1>4. data'[i] # NoFile => id'[data'[i]] = i
    <2>1. data[i] # NoFile => data[i] \in Client /\ id[data[i]] = i
      BY Zenon DEF TypeOK, FileInv
    <2> QED
      BY <1>3, <2>1, FileStep
  <1>5. reqs'[i] # "none" => Numbered(i)'
    <2>1. reqs[i] # "none" => Numbered(i)
      BY Zenon DEF FileInv
    <2> QED
      BY <1>2, <1>3, <2>1, FileStep
  <1>6. InList(i)' => Numbered(i)'
    <2>1. (InList(i) => Numbered(i)) /\ (reqs[i] = "full" => Numbered(i))
      BY Zenon DEF FileInv
    <2> QED
      BY Zenon, <1>2, <1>3, <2>1, ListStep
  <1> QED
    BY Zenon, <1>4, <1>5, <1>6

-----------------------------------------------------------------------------
(***************************************************************************)
(* What clients are promised.                                              *)
(***************************************************************************)
\* How a step moves the thread of c, and what it does on the way.
Moves(c) ==
    /\ cl'[c] = "creat_data" => cl[c] = "creat_data" \/ get_newjobno(c)
    /\ cl'[c] = "spool" =>
          cl[c] = "spool" \/ (cl[c] = "creat_data" /\ data'[id[c]] = c /\ reqs' = reqs)
    /\ cl'[c] = "creat_req" =>
          cl[c] = "creat_req" \/ (cl[c] = "spool" /\ spooled'[c] /\ UNCHANGED <<data, reqs>>)
    /\ cl'[c] = "write_req" =>
          cl[c] = "write_req" \/ (cl[c] = "creat_req" /\ reqs'[id[c]] = "short" /\ data' = data)
    /\ cl'[c] = "respond" =>
          cl[c] = "respond" \/ (cl[c] = "write_req" /\ reqs'[id[c]] = "full" /\ data' = data)
    /\ cl'[c] = "add" =>
          (cl[c] = "add" /\ answer'[c] = answer[c]) \/ (cl[c] = "respond" /\ answer'[c] = "ok")
    /\ cl[c] \in {"signal", "done"} => cl'[c] \in {"signal", "done"}
    /\ spooled[c] => spooled'[c]
    /\ answer'[c] = "ok" =>
          answer[c] = "ok" \/ (cl[c] = "respond" /\ id'[c] = id[c] /\ UNCHANGED <<data, reqs>>)
    /\ answer'[c] = "rejected" =>
          \/ answer[c] = "rejected"
          \/ reqs' = reqs /\ cl[c] \in {"header", "creat_data", "spool", "creat_req", "write_req"}

\* What a client thread, or the accept of its connection, does to its own client.
LEMMA OwnMoves ==
    ASSUME TypeOK, PlaceInv, NEW c \in Client, Accept(c) \/ client_thread(c)
    PROVE  Moves(c)
  <1> USE DEF At, Tell, disk, queue, starting, client, printing, Moves
  <1>a. /\ cl \in [Client -> ClientState] /\ spooled \in [Client -> BOOLEAN]
        /\ answer \in [Client -> {"none", "ok", "rejected"}]
        /\ data \in [JobId -> Client \cup {NoFile}] /\ reqs \in [JobId -> {"none", "short", "full"}]
    BY Zenon DEF TypeOK
  <1>b. cl[c] \notin NoNumberYet \cup {"done"} => id[c] \in JobId
    BY Zenon, HasNumber
  <1>1. CASE Accept(c)
    BY Zenon, <1>1, <1>a DEF Accept
  <1>2. CASE ReadHeader(c)
    BY Zenon, <1>2, <1>a DEF ReadHeader
  <1>3. CASE get_newjobno(c)
    BY Zenon, <1>3, <1>a DEF get_newjobno
  <1>4. CASE CreatData(c)
    BY Zenon, <1>4, <1>a, <1>b DEF CreatData, NoNumberYet
  <1>5. CASE SpoolBlock(c)
    BY Zenon, <1>5, <1>a DEF SpoolBlock
  <1>6. CASE SpoolEnd(c)
    BY Zenon, <1>6, <1>a DEF SpoolEnd
  <1>7. CASE CreatReq(c)
    BY ZenonT(30), <1>7, <1>a, <1>b DEF CreatReq, NoNumberYet
  <1>8. CASE WriteReq(c)
    BY Zenon, <1>8, <1>a, <1>b DEF WriteReq, NoNumberYet
  <1>9. CASE Respond(c)
    BY Zenon, <1>9, <1>a DEF Respond
  <1>10. CASE ClientAdd(c)
    BY Zenon, <1>10, <1>a DEF ClientAdd
  <1>11. CASE ClientSignal(c)
    BY Zenon, <1>11, <1>a DEF ClientSignal
  <1>12. CASE UnlinkReq(c)
    BY Zenon, <1>12, <1>a DEF UnlinkReq
  <1>13. CASE UnlinkData(c)
    BY Zenon, <1>13, <1>a DEF UnlinkData
  <1> QED
    BY ZenonT(40), <1>1, <1>2, <1>3, <1>4, <1>5, <1>6, <1>7, <1>8, <1>9, <1>10, <1>11, <1>12, <1>13
       DEF client_thread

\* What any step does to a client: one of the moves of its own thread, or nothing.
LEMMA ClientMoves ==
    ASSUME TypeOK, PlaceInv, [Next]_vars, NEW c \in Client
    PROVE  Moves(c)
  <1> USE DEF disk, queue, starting, client, printing
  <1>1. CASE cl'[c] = cl[c] /\ answer'[c] = answer[c] /\ spooled'[c] = spooled[c]
    BY ZenonT(30), <1>1 DEF Moves
  <1>2. CASE Accept(c) \/ client_thread(c)
    BY Zenon, <1>2, OwnMoves
  <1>3. ASSUME NEW d \in Client, d # c, Accept(d) \/ client_thread(d) PROVE Moves(c)
    BY ZenonT(40), <1>1, <1>3 DEF TypeOK, At, Tell, Accept, client_thread, ReadHeader, get_newjobno, CreatData,
           SpoolBlock, SpoolEnd, CreatReq, WriteReq, Respond, ClientAdd, ClientSignal, UnlinkReq,
           UnlinkData
  <1>4. CASE MainThread
    <2>1. UNCHANGED <<cl, answer, spooled>>
      BY Zenon, <1>4 DEF MainThread, init_request, BuildSignal, BuildDone, BuildAdd, BuildDrop,
                            BuildUnlink
    <2> QED
      BY Zenon, <1>1, <2>1
  <1>5. CASE printer_thread \/ SpuriousWakeup
    <2>1. UNCHANGED <<cl, answer, spooled>>
      BY Zenon, <1>5 DEF printer_thread, Wait, GetJob, update_jobno, Cancel, SendOK, Defer,
             PrintedUnlinkData, PrintedUnlinkReq, Replace, SpuriousWakeup
    <2> QED
      BY Zenon, <1>1, <2>1
  <1>6. CASE Crash
    BY ZenonT(30), <1>6 DEF Crash, Moves
  <1>7. CASE UNCHANGED vars
    BY ZenonT(30), <1>1, <1>7 DEF vars
  <1> QED
    BY Zenon, <1>2, <1>3, <1>4, <1>5, <1>6, <1>7 DEF Next

\* A document comes on paper from the data file of the job that is sent, and
\* only files of a printed document are removed by the printer thread.
LEMMA PaperStep ==
    ASSUME TypeOK, PlaceInv, [Next]_vars
    PROVE  /\ paper \subseteq paper'
           /\ \A c \in paper' : c \in paper \/ (pt = "send" /\ data[jp] = c)
           /\ pt' \in {"unlink_data", "unlink_req"} =>
                 /\ jp' = jp
                 /\ \/ pt \in {"unlink_data", "unlink_req"}
                    \/ pt = "send" /\ data[jp] # NoFile /\ data[jp] \in paper'
  <1> USE DEF disk, queue, starting, client, printing
  <1>1. CASE UNCHANGED <<paper, pt, jp>>
    BY Zenon, <1>1
  <1>2. CASE paper' = paper /\ pt' \notin {"unlink_data", "unlink_req"}
    BY Zenon, <1>2
  <1>3. CASE SendOK
    BY Zenon, <1>3 DEF SendOK
  <1>4. CASE Defer
    BY Zenon, <1>4 DEF Defer
  <1>5. CASE PrintedUnlinkData
    BY Zenon, <1>5 DEF PrintedUnlinkData
  <1>6. CASE (printer_thread /\ ~ SendOK /\ ~ Defer /\ ~ PrintedUnlinkData) \/ SpuriousWakeup \/ Crash
    BY Zenon, <1>2, <1>6 DEF printer_thread, Wait, GetJob, update_jobno, Cancel, PrintedUnlinkReq, Replace,
                      SpuriousWakeup, Crash
  <1>7. CASE MainThread
    BY ZenonT(30), <1>1, <1>2, <1>7 DEF MainThread, init_request, BuildSignal, BuildDone, BuildAdd, BuildDrop,
           BuildUnlink, cond_signal
  <1>8. CASE \E c \in Client : Accept(c) \/ client_thread(c)
    BY ZenonT(30), <1>1, <1>2, <1>8 DEF Accept, client_thread, ReadHeader, get_newjobno, CreatData,
           SpoolBlock, SpoolEnd, CreatReq, WriteReq, Respond, ClientAdd, ClientSignal, UnlinkReq,
           UnlinkData, cond_signal
  <1>9. CASE UNCHANGED vars
    BY Zenon, <1>1, <1>9 DEF vars
  <1> QED
    BY Zenon, <1>3, <1>4, <1>5, <1>6, <1>7, <1>8, <1>9 DEF Next

-----------------------------------------------------------------------------
(***************************************************************************)
(* Job numbers.                                                            *)
(***************************************************************************)
\* Apart from get_newjobno, a start and a crash no step changes what the
\* numbers depend on.
LEMMA NumberFrame ==
    ASSUME TypeOK, NumberInv, UNCHANGED <<id, gen, boot, nextjob>>, main' = "down" => main = "down"
    PROVE  NumberInv'
  BY Zenon DEF NumberInv, NumbersDifferInOneRun, Issued, Age

\* The new number is none of those issued by this run: one that was would have
\* age JobMax, and with c more than JobMax clients would have a number.
LEMMA NumberNew ==
    ASSUME TypeOK, PlaceInv, NumberInv, NEW c \in Client, get_newjobno(c)
    PROVE  NumberInv'
  <1> USE DEF At, disk, starting, printing
  <1>1. cl[c] = "jobno" /\ id[c] = 0 /\ main = "accept"
    BY Zenon DEF get_newjobno, PlaceInv, NoNumberYet
  <1>2. /\ id' = [id EXCEPT ![c] = nextjob] /\ gen' = [gen EXCEPT ![c] = boot]
        /\ nextjob' = (IF nextjob = JobMax THEN 1 ELSE nextjob + 1)
        /\ boot' = boot /\ main' = main
    BY Zenon DEF get_newjobno
  <1>3. Issued' = Issued \cup {c} /\ c \notin Issued
    BY <1>1, <1>2 DEF Issued, TypeOK, JobId
  <1>4. IsFiniteSet(Issued) /\ Issued' \subseteq Client
    BY Zenon, FewClients, FS_Subset DEF Issued
  <1>5. Cardinality(Issued') = Cardinality(Issued) + 1
    BY Zenon, <1>3, <1>4, FS_AddElement
  <1>6. Cardinality(Issued') <= Cardinality(Client)
    BY ZenonT(30), <1>4, FewClients, FS_Subset
  <1>7. Cardinality(Issued) \in Nat /\ Cardinality(Client) \in Nat
    BY ZenonT(30), <1>4, FewClients, FS_CardinalityType
  <1>8. Cardinality(Issued) < JobMax
    BY <1>5, <1>6, <1>7, FewClients
  <1>9. ASSUME NEW d \in Issued
        PROVE  id[d] # nextjob /\ d # c /\ Age(d)' = Age(d) + 1
    <2>1. d \in Client /\ d # c /\ id[d] \in JobId /\ nextjob \in JobId
      BY SMTT(30), <1>3 DEF Issued, TypeOK, JobId
    <2>2. Age(d) < JobMax
      <3>1. Age(d) <= Cardinality(Issued)
        BY Zenon DEF NumberInv
      <3>2. Age(d) \in Int
        BY <2>1 DEF Age, JobId
      <3> QED
        BY <1>7, <1>8, <3>1, <3>2
    <2>3. id[d] # nextjob
      BY <2>1, <2>2 DEF Age, JobId
    <2>4. id'[d] = id[d]
      BY Zenon, <1>2, <2>1 DEF TypeOK
    <2>5. Age(d)' = Age(d) + 1
      BY <1>2, <2>1, <2>3, <2>4 DEF Age, JobId
    <2> QED
      BY Zenon, <2>1, <2>3, <2>5
  <1>10. Age(c)' = 1
    BY <1>2 DEF Age, TypeOK, JobId
  <1>11. \A d \in Issued' : Age(d)' <= Cardinality(Issued')
    <2>1. \A d \in Issued : Age(d) <= Cardinality(Issued) /\ Age(d) \in Int
      BY SMTT(40) DEF NumberInv, Age, TypeOK, JobId, Issued
    <2> QED
      BY SMTT(40), <2>1, <1>3, <1>5, <1>7, <1>9, <1>10
  <1>12. NumbersDifferInOneRun'
    <2> SUFFICES ASSUME NEW d \in Client, NEW e \in Client,
                        d # e, id'[d] # 0, id'[d] = id'[e], gen'[d] = gen'[e]
                 PROVE  FALSE
      BY Zenon DEF NumbersDifferInOneRun
    <2>1. CASE d = c
      BY Zenon, <2>1, <1>2, <1>9 DEF Issued, TypeOK, JobId
    <2>2. CASE e = c
      BY Zenon, <2>2, <1>2, <1>9 DEF Issued, TypeOK, JobId
    <2>3. CASE d # c /\ e # c
      BY Zenon, <2>3, <1>2 DEF NumberInv, NumbersDifferInOneRun, TypeOK
    <2> QED
      BY Zenon, <2>1, <2>2, <2>3
  <1>13. \A d \in Client : gen'[d] <= boot'
    BY <1>2 DEF NumberInv, TypeOK
  <1> QED
    BY Zenon, <1>1, <1>2, <1>11, <1>12, <1>13 DEF NumberInv

\* Every step keeps the invariant of the job numbers; only get_newjobno gives one.
LEMMA NumberStep == TypeOK /\ PlaceInv /\ NumberInv /\ [Next]_vars => NumberInv'
  <1> SUFFICES ASSUME TypeOK, PlaceInv, NumberInv, [Next]_vars PROVE NumberInv'
    BY Zenon
  <1> USE DEF disk, queue, starting, client, printing
  <1>1. ASSUME NEW c \in Client, get_newjobno(c) PROVE NumberInv'
    BY Zenon, <1>1, NumberNew
  <1>2. CASE init_request
    <2>1. Issued = {} /\ Issued' = Issued /\ UNCHANGED <<id, gen, boot>> /\ main' # "down"
      BY Zenon, <1>2 DEF init_request, NumberInv, Issued
    <2> QED
      BY Zenon, <2>1 DEF NumberInv, NumbersDifferInOneRun
  <1>3. CASE Crash
    <2>1. UNCHANGED <<id, gen>> /\ boot' = boot + 1
      BY Zenon, <1>3 DEF Crash
    <2>2. Issued' = {}
      BY <2>1 DEF Issued, NumberInv, TypeOK
    <2> QED
      BY <2>1, <2>2 DEF NumberInv, NumbersDifferInOneRun, TypeOK
  <1>4. CASE UNCHANGED <<id, gen, boot, nextjob>> /\ (main' = "down" => main = "down")
    BY Zenon, <1>4, NumberFrame
  <1>5. CASE UNCHANGED vars
    BY Zenon, <1>4, <1>5 DEF vars
  <1>6. ASSUME NEW c \in Client, Accept(c) \/ client_thread(c), ~ get_newjobno(c) PROVE NumberInv'
    BY Zenon, <1>4, <1>6 DEF Accept, client_thread, ReadHeader, CreatData, SpoolBlock, SpoolEnd,
           CreatReq, WriteReq, Respond, ClientAdd, ClientSignal, UnlinkReq, UnlinkData
  <1>7. CASE MainThread /\ ~ init_request
    BY Zenon, <1>4, <1>7 DEF MainThread, BuildSignal, BuildDone, BuildAdd, BuildDrop, BuildUnlink
  <1>8. CASE printer_thread \/ SpuriousWakeup
    BY Zenon, <1>4, <1>8 DEF printer_thread, Wait, GetJob, update_jobno, Cancel, SendOK, Defer,
           PrintedUnlinkData, PrintedUnlinkReq, Replace, SpuriousWakeup
  <1> QED
    BY Zenon, <1>1, <1>2, <1>3, <1>5, <1>6, <1>7, <1>8 DEF Next

-----------------------------------------------------------------------------
(***************************************************************************)
(* What clients are promised.                                              *)
(***************************************************************************)
\* Without reuse a number names one document.
LEMMA OneDocument ==
    ASSUME NumberInv, ~ Reused, NEW c \in Client, NEW d \in Client, id[c] # 0, id[c] = id[d]
    PROVE  c = d
  BY Zenon DEF NumberInv, NumbersDifferInOneRun, Reused

\* A client that has just got its number finds nothing under it.
LEMMA FreshPromise ==
    ASSUME TypeOK, PlaceInv, FileInv, [Next]_vars, PlaceInv', NumberInv', ~ Reused',
           NEW c \in Client, get_newjobno(c), Progress(c), Traces(c), Promise(c)
    PROVE  Progress(c)' /\ Traces(c)' /\ Promise(c)'
  <1>1. /\ cl[c] = "jobno" /\ cl'[c] = "creat_data" /\ id'[c] = nextjob
        /\ UNCHANGED <<data, reqs, jobs, jp, pt, paper, answer, spooled>>
    BY Zenon DEF get_newjobno, At, disk, printing, TypeOK
  <1>2. id[c] = 0
    BY Zenon, <1>1 DEF PlaceInv, NoNumberYet
  <1>3. nextjob \in JobId /\ nextjob # 0
    BY DEF TypeOK, JobId
  <1>4. ~ Numbered(nextjob)
    <2> SUFFICES ASSUME NEW d \in Client, id[d] = nextjob PROVE FALSE
      BY Zenon DEF Numbered
    <2>1. id'[d] = nextjob
      BY Zenon, <1>3, NumbersStay
    <2> QED
      BY <1>1, <1>2, <1>3, <2>1 DEF NumberInv, NumbersDifferInOneRun, Reused
  <1>5. reqs[nextjob] = "none" /\ ~ InList(nextjob)
    BY Zenon, <1>3, <1>4 DEF FileInv
  <1>6. c \notin paper /\ answer[c] # "ok"
    BY Zenon, <1>1, <1>2 DEF Traces, Handed, Promise
  <1> QED
    BY ZenonT(30), <1>1, <1>3, <1>5, <1>6 DEF Progress, Traces, Promise, InList

\* A client whose number does not change keeps what its place, its files, its
\* job and its answer say: nobody else touches its files, and the printer
\* thread and build_qonstart only remove what is printed or was not accepted.
LEMMA OldPromise ==
    ASSUME TypeOK, PlaceInv, NumberInv, FileInv, [Next]_vars, PlaceInv', ~ Reused,
           NEW c \in Client, id'[c] = id[c], \A d \in Client : Progress(d) /\ Traces(d) /\ Promise(d)
    PROVE  Progress(c)' /\ Traces(c)' /\ Promise(c)'
  <1>a. Moves(c) /\ Progress(c) /\ Traces(c) /\ Promise(c)
    BY Zenon, ClientMoves
  <1>b. ~ get_newjobno(c) \/ id[c] # 0
    BY SMTT(30) DEF get_newjobno, At, TypeOK, JobId
  <1>1. CASE id[c] = 0
    <2>1. cl'[c] \in NoNumberYet \cup {"done"} /\ cl[c] \in NoNumberYet \cup {"done"}
      BY Zenon, <1>1 DEF PlaceInv
    <2>2. c \in paper' => c \in paper
      <3>1. pt = "send" => jp \in JobId /\ jp # 0
        BY HasNumber DEF JobId
      <3>2. pt = "send" /\ data[jp] = c => id[c] = jp
        BY Zenon, <3>1, SpoolAssumption DEF FileInv
      <3> QED
        BY ZenonT(30), <1>1, <3>1, <3>2, PaperStep
    <2>3. c \in paper => Handed(c)'
      BY Zenon, <1>a DEF Traces, Handed, Good, Moves
    <2>4. answer'[c] # "ok"
      BY Zenon, <1>1, <1>a, <2>1 DEF Promise, Moves, NoNumberYet
    <2> QED
      BY ZenonT(30), <1>1, <2>1, <2>2, <2>3, <2>4 DEF Progress, Traces, Promise, NoNumberYet
  <1>2. CASE id[c] # 0
    <2> DEFINE i == id[c]
    <2>1. i \in JobId /\ id'[c] = i /\ i # 0
      BY <1>2 DEF TypeOK, JobId
    <2>2. \A d \in Client : id[d] = i => d = c
      BY ZenonT(30), <1>2, OneDocument
    <2>3. InList(i) => cl[c] \in {"signal", "done"}
      BY Zenon, <1>a, <1>2 DEF Traces, Handed
    <2>4. pt \in {"unlink_data", "unlink_req"} /\ jp = i => c \in paper /\ InList(i)
      BY Zenon, <1>a, <1>2 DEF Traces, InList
    <2>5. main # "accept" => cl[c] \in {"new", "done"}
      BY Zenon DEF PlaceInv
    <2>6. \/ data'[i] = data[i]
          \/ cl[c] = "creat_data" /\ cl'[c] = "spool" /\ data'[i] = c
          \/ /\ data'[i] = NoFile
             /\ \/ cl[c] = "unlink_data"
                \/ pt = "unlink_data" /\ jp = i
                \/ main = "build_unlink" /\ reqs[i] = "none"
      BY SMTT(40), <2>1, <2>2, FileStep
    <2>7. \/ reqs'[i] = reqs[i]
          \/ cl[c] = "creat_req" /\ cl'[c] = "write_req" /\ reqs'[i] = "short"
          \/ cl[c] = "write_req" /\ cl'[c] = "respond" /\ reqs'[i] = "full"
          \/ /\ reqs'[i] = "none"
             /\ \/ cl[c] = "unlink_req"
                \/ pt = "unlink_req" /\ jp = i
                \/ main = "build" /\ reqs[i] # "full"
      BY SMTT(30), <2>1, <2>2, FileStep
    <2>8. Progress(c)'
      <3>1. cl'[c] # "creat_data" \/ cl[c] = "creat_data"
        BY Zenon, <1>2, <1>a DEF Moves, get_newjobno, At, PlaceInv, NoNumberYet
      <3>2. cl'[c] \in {"spool", "creat_req", "write_req", "respond"} => data'[i] = c
        BY Zenon, <1>a, <2>3, <2>4, <2>5, <2>6 DEF Moves, Progress
      <3>3. cl'[c] \in {"creat_data", "spool", "creat_req"} => reqs'[i] = "none"
        BY Zenon, <1>a, <2>3, <2>4, <2>5, <2>7, <3>1 DEF Moves, Progress
      <3>4. /\ cl'[c] = "write_req" => reqs'[i] = "short"
            /\ cl'[c] = "respond" => reqs'[i] = "full"
        BY Zenon, <1>a, <2>3, <2>4, <2>5, <2>7 DEF Moves, Progress
      <3>5. cl'[c] \in {"creat_req", "write_req", "respond", "add"} => spooled'[c]
        BY <1>a, ZenonT(30) DEF Moves, Progress
      <3>6. cl'[c] = "add" => answer'[c] = "ok"
        BY Zenon, <1>a DEF Moves, Progress
      <3> QED
        BY ZenonT(40), <2>1, <3>2, <3>3, <3>4, <3>5, <3>6 DEF Progress
    <2>9. Handed(c) => Handed(c)'
      BY Zenon, <1>a DEF Handed, Good, Moves
    <2>10. reqs'[i] = "full" => Good(c)'
      <3>1. CASE reqs'[i] = "full" /\ reqs[i] = "full"
        <4>1. Good(c)
          BY Zenon, <1>2, <1>a, <3>1 DEF Traces
        <4>2. cl[c] \notin {"header", "creat_data", "spool", "creat_req", "write_req"}
          BY ZenonT(40), <1>2, <1>a, <3>1 DEF Progress, PlaceInv, NoNumberYet
        <4> QED
          BY Zenon, <1>a, <4>1, <4>2 DEF Moves, Good
      <3>2. CASE cl[c] = "write_req" /\ cl'[c] = "respond"
        <4>1. spooled'[c]
          BY Zenon, <1>a, <3>2 DEF Moves, Progress
        <4>2. answer'[c] # "rejected"
          BY ZenonT(40), <1>a, <3>2 DEF Moves, PlaceInv
        <4> QED
          BY Zenon, <4>1, <4>2 DEF Good
      <3> QED
        BY Zenon, <2>7, <3>1, <3>2
    <2>11. InList(i)' => Handed(c)'
      <3>1. CASE InList(i)
        BY Zenon, <1>a, <1>2, <2>9, <3>1 DEF Traces
      <3>2. CASE main = "build" /\ reqs[i] = "full"
        <4>1. cl[c] = "done"
          BY ZenonT(40), <1>2, <2>5, <3>2 DEF PlaceInv, NoNumberYet
        <4>2. Handed(c)
          BY ZenonT(40), <1>a, <1>2, <3>2, <4>1 DEF Traces, Handed
        <4> QED
          BY Zenon, <2>9, <4>2
      <3>3. CASE cl[c] = "add" /\ cl'[c] = "signal"
        BY ZenonT(40), <1>a, <3>3 DEF Moves, Progress, Handed, Good, PlaceInv
      <3> QED
        BY SMTT(40), <2>1, <2>2, <3>1, <3>2, <3>3, ListStep
    <2>12. pt = "send" /\ data[jp] = c => jp = i /\ InList(i)
      BY Zenon, HasNumber, SpoolAssumption DEF FileInv, InList
    <2>13. c \in paper' => Handed(c)'
      <3>1. c \in paper \/ InList(i) => Handed(c)
        BY Zenon, <1>a, <1>2 DEF Traces
      <3> QED
        BY Zenon, <2>9, <2>12, <3>1, PaperStep
    <2>14. pt' \in {"unlink_data", "unlink_req"} /\ jp' = i => c \in paper'
      <3>1. CASE pt \in {"unlink_data", "unlink_req"} /\ jp = i
        BY Zenon, <2>4, <3>1, PaperStep
      <3>2. CASE pt = "send" /\ jp = i /\ data[jp] # NoFile /\ data[jp] \in paper'
        <4>1. data[i] \in Client /\ id[data[i]] = i
          BY Zenon, <2>1, <3>2 DEF FileInv, TypeOK
        <4> QED
          BY Zenon, <2>2, <3>2, <4>1
      <3> QED
        BY Zenon, <3>1, <3>2, PaperStep
    <2>15. Traces(c)'
      BY Zenon, <2>1, <2>10, <2>11, <2>13, <2>14 DEF Traces
    <2>16. Promise(c)'
      <3>1. CASE answer[c] = "ok" /\ c \in paper
        BY Zenon, <2>1, <3>1, PaperStep DEF Promise, Kept
      <3>2. CASE answer[c] = "ok" /\ c \notin paper
        <4>1. data[i] = c /\ reqs[i] = "full"
          BY ZenonT(30), <1>a, <3>2 DEF Promise, Kept
        <4>2. ~ (pt \in {"unlink_data", "unlink_req"} /\ jp = i)
          BY Zenon, <2>4, <3>2
        <4>3. cl[c] \notin {"unlink_req", "unlink_data", "creat_req", "write_req"}
          BY Zenon, <1>a, <3>2, <4>1 DEF PlaceInv, Progress
        <4>4. data'[i] = c /\ reqs'[i] = "full"
          BY Zenon, <2>6, <2>7, <4>1, <4>2, <4>3
        <4> QED
          BY ZenonT(30), <2>1, <4>4 DEF Promise, Kept
      <3>3. CASE cl[c] = "respond" /\ UNCHANGED <<data, reqs>>
        BY ZenonT(30), <1>a, <2>1, <3>3 DEF Progress, Promise, Kept
      <3> QED
        BY ZenonT(30), <1>a, <3>1, <3>2, <3>3 DEF Moves, Promise
    <2> QED
      BY ZenonT(30), <2>8, <2>15, <2>16
  <1> QED
    BY Zenon, <1>1, <1>2

\* Every step keeps what the files, the list and the printer owe each client.
LEMMA PromiseStep == IInv /\ [Next]_vars /\ PlaceInv' /\ NumberInv' => PromiseInv'
  <1> SUFFICES ASSUME IInv, [Next]_vars, PlaceInv', NumberInv', ~ Reused', NEW c \in Client
               PROVE  Progress(c)' /\ Traces(c)' /\ Promise(c)'
    BY Zenon DEF PromiseInv
  <1>1. ~ Reused
    BY Zenon, ReusedStays DEF IInv
  <1>2. \A d \in Client : Progress(d) /\ Traces(d) /\ Promise(d)
    BY Zenon, <1>1 DEF IInv, PromiseInv
  <1>3. CASE get_newjobno(c)
    BY Zenon, <1>2, <1>3, FreshPromise DEF IInv
  <1>4. CASE id'[c] = id[c]
    BY Zenon, <1>1, <1>2, <1>4, OldPromise DEF IInv
  <1>5. get_newjobno(c) \/ id'[c] = id[c]
    <2>1. CASE id[c] # 0
      BY Zenon, <2>1, NumbersStay DEF IInv
    <2>2. ASSUME NEW d \in Client, d # c, get_newjobno(d) PROVE id'[c] = id[c]
      BY Zenon, <2>2 DEF get_newjobno, IInv, TypeOK
    <2>3. CASE UNCHANGED id
      BY Zenon, <2>3
    <2>4. id' = id \/ \E d \in Client : get_newjobno(d)
      <3> USE DEF disk, queue, starting, client, printing
      <3>1. CASE UNCHANGED vars
        BY Zenon, <3>1 DEF vars
      <3>2. CASE \E d \in Client : Accept(d) \/ client_thread(d)
        BY ZenonT(40), <3>2 DEF Accept, client_thread, ReadHeader, CreatData, SpoolBlock, SpoolEnd, CreatReq,
               WriteReq, Respond, ClientAdd, ClientSignal, UnlinkReq, UnlinkData
      <3>3. CASE MainThread
        BY Zenon, <3>3 DEF MainThread, init_request, BuildSignal, BuildDone, BuildAdd, BuildDrop, BuildUnlink
      <3>4. CASE printer_thread \/ SpuriousWakeup \/ Crash
        BY Zenon, <3>4 DEF printer_thread, Wait, GetJob, update_jobno, Cancel, SendOK, Defer,
               PrintedUnlinkData, PrintedUnlinkReq, Replace, SpuriousWakeup, Crash
      <3> QED
        BY Zenon, <3>1, <3>2, <3>3, <3>4 DEF Next
    <2> QED
      BY Zenon, <2>2, <2>3, <2>4
  <1> QED
    BY Zenon, <1>3, <1>4, <1>5

-----------------------------------------------------------------------------
(***************************************************************************)
(* The theorems.                                                           *)
(***************************************************************************)
\* The invariant holds before the daemon is started, and every step keeps it.
THEOREM SpoolInvariant == Spec => []IInv
  <1>1. Init => IInv
    <2> SUFFICES ASSUME Init PROVE IInv
      BY Zenon
    <2>1. TypeOK
      BY DEF Init, TypeOK, JobId, MainState, ClientState, PrinterState
    <2>2. \A c \in Client : id[c] = 0 /\ answer[c] = "none" /\ gen[c] = 0 /\ cl[c] = "new"
      BY Zenon DEF Init
    <2>3. NumberInv
      BY SMTT(30), <2>2 DEF Init, NumberInv, NumbersDifferInOneRun, Issued
    <2>4. PlaceInv
      BY Zenon, <2>2 DEF Init, PlaceInv, NoNumberYet
    <2>5. FileInv
      BY SMTT(30) DEF Init, FileInv, InList, JobId
    <2>6. PromiseInv
      BY Zenon, <2>2 DEF Init, PromiseInv, Progress, Traces, Promise
    <2> QED
      BY Zenon, <2>1, <2>3, <2>4, <2>5, <2>6 DEF IInv
  <1>2. IInv /\ [Next]_vars => IInv'
    BY Zenon, TypeStep, PlaceStep, NumberStep, FilesStep, PromiseStep DEF IInv
  <1> QED
    BY <1>1, <1>2, PTL DEF Spec

\* The files, the list and the threads of printd.c have the right types.
THEOREM SpoolTypes == Spec => []TypeOK
  BY SpoolInvariant, PTL DEF IInv

\* get_newjobno never gives a number twice in one run of the daemon.
THEOREM NumbersDiffer == Spec => []NumbersDifferInOneRun
  BY SpoolInvariant, PTL DEF IInv, NumberInv

\* An accepted document stays in the spool directory until it is on paper, over
\* any number of crashes at any point, if no number is given again.
THEOREM AcceptedKept == Spec => []AcceptedIsKept
  <1>1. IInv => AcceptedIsKept
    BY Zenon DEF IInv, PromiseInv, Promise, AcceptedIsKept
  <1> QED
    BY <1>1, SpoolInvariant, PTL

\* Only documents that were received to the end and not rejected are printed.
THEOREM SpooledPrinted == Spec => []OnlySpooledIsPrinted
  <1>1. IInv => OnlySpooledIsPrinted
    BY Zenon DEF IInv, TypeOK, PromiseInv, Traces, Handed, Good, OnlySpooledIsPrinted
  <1> QED
    BY <1>1, SpoolInvariant, PTL

-----------------------------------------------------------------------------
(***************************************************************************)
(* The order of the jobs.                                                  *)
(***************************************************************************)
\* What one step may do to the jobs to be printed.
QueueStep ==
    \/ boot' # boot
    \/ Pending' = Pending
    \/ \E i \in JobId : Pending' = Append(Pending, i)
    \/ Pending # << >> /\ Pending' = Tail(Pending)

\* Putting a job in front of the list, as replace_job does.
LEMMA PrependFacts ==
    ASSUME NEW s \in Seq(JobId), NEW j \in JobId, NEW i \in JobId
    PROVE  /\ <<j>> \o s # << >>
           /\ Tail(<<j>> \o s) = s
           /\ <<j>> \o Append(s, i) = Append(<<j>> \o s, i)
           /\ s # << >> => <<Head(s)>> \o Tail(s) = s
  <1>1. <<j>> \o s # << >> /\ Tail(<<j>> \o s) = s
    OBVIOUS
  <1>2. <<j>> \o Append(s, i) = Append(<<j>> \o s, i)
    OBVIOUS
  <1>3. s # << >> => <<Head(s)>> \o Tail(s) = s
    OBVIOUS
  <1> QED
    BY Zenon, <1>1, <1>2, <1>3

\* add_job puts a job at the end of what is pending, whoever calls it.
LEMMA AddAtEnd ==
    ASSUME TypeOK, NEW i \in JobId, add_job(i), jp' = jp
    PROVE  Pending' = Append(Pending, i)
  <1>1. jobs \in Seq(JobId) /\ jp \in 0 .. JobMax
    BY Zenon DEF TypeOK
  <1>2. CASE jp = 0
    BY Zenon, <1>2 DEF Pending, add_job
  <1>3. CASE jp # 0
    <2>1. jp \in JobId
      BY <1>1, <1>3 DEF JobId
    <2> QED
      BY Zenon, <1>1, <1>3, <2>1, PrependFacts DEF Pending, add_job
  <1> QED
    BY Zenon, <1>2, <1>3

\* Every step changes the queue in one of the ways of QueueStep.
LEMMA QueueSteps == TypeOK /\ PlaceInv /\ [Next]_vars => QueueStep
  <1> SUFFICES ASSUME TypeOK, PlaceInv, [Next]_vars PROVE QueueStep
    BY Zenon
  <1> USE DEF disk, queue, starting, client, printing
  <1>a. jobs \in Seq(JobId)
    BY Zenon DEF TypeOK
  <1>1. CASE UNCHANGED <<jobs, jp>>
    BY Zenon, <1>1 DEF QueueStep, Pending
  <1>2. ASSUME NEW i \in JobId, BuildAdd(i) PROVE QueueStep
    BY Zenon, <1>2, AddAtEnd DEF BuildAdd, QueueStep
  <1>3. ASSUME NEW c \in Client, ClientAdd(c) PROVE QueueStep
    <2>1. cl[c] = "add"
      BY Zenon, <1>3 DEF ClientAdd, At
    <2>2. id[c] \in JobId
      BY Zenon, <2>1, HasNumber DEF NoNumberYet
    <2> QED
      BY Zenon, <1>3, <2>2, AddAtEnd DEF ClientAdd, QueueStep
  <1>4. CASE GetJob
    <2>1. jp = 0 /\ jobs # << >> /\ jp' = Head(jobs) /\ jobs' = Tail(jobs)
      BY Zenon, <1>4 DEF GetJob, remove_job, PlaceInv
    <2>2. Head(jobs) \in JobId /\ Head(jobs) # 0
      BY SMTT(30), <1>a, <2>1, HeadTailType DEF JobId
    <2>3. Pending' = Pending
      BY Zenon, <1>a, <2>1, <2>2, PrependFacts DEF Pending
    <2> QED
      BY Zenon, <2>3 DEF QueueStep
  <1>5. CASE Cancel \/ PrintedUnlinkReq
    <2>1. jp \in JobId /\ jp # 0 /\ jp' = 0 /\ jobs' = jobs
      BY <1>5, HasNumber DEF Cancel, PrintedUnlinkReq, JobId
    <2>2. Pending # << >> /\ Pending' = Tail(Pending)
      BY Zenon, <1>a, <2>1, PrependFacts DEF Pending
    <2> QED
      BY Zenon, <2>2 DEF QueueStep
  <1>6. CASE Replace
    <2>1. jp # 0 /\ jp' = 0 /\ jobs' = <<jp>> \o jobs
      BY SMTT(30), <1>6, HasNumber DEF Replace, replace_job, JobId
    <2> QED
      BY Zenon, <2>1 DEF QueueStep, Pending
  <1>7. CASE Crash
    BY SMTT(30), <1>7 DEF Crash, QueueStep, TypeOK
  <1>8. ASSUME NEW c \in Client, Accept(c) \/ client_thread(c), ~ ClientAdd(c) PROVE QueueStep
    BY ZenonT(30), <1>1, <1>8 DEF Accept, client_thread, ReadHeader, get_newjobno, CreatData, SpoolBlock,
           SpoolEnd, CreatReq, WriteReq, Respond, ClientSignal, UnlinkReq, UnlinkData
  <1>9. ASSUME MainThread, \A i \in JobId : ~ BuildAdd(i) PROVE QueueStep
    BY Zenon, <1>1, <1>9 DEF MainThread, init_request, BuildSignal, BuildDone, BuildDrop, BuildUnlink
  <1>10. CASE (printer_thread /\ ~ GetJob /\ ~ Cancel /\ ~ PrintedUnlinkReq /\ ~ Replace)
              \/ SpuriousWakeup
    BY Zenon, <1>1, <1>10 DEF printer_thread, Wait, update_jobno, SendOK, Defer, PrintedUnlinkData,
           SpuriousWakeup
  <1>11. CASE UNCHANGED vars
    BY Zenon, <1>1, <1>11 DEF vars
  <1> QED
    BY Zenon, <1>2, <1>3, <1>4, <1>5, <1>6, <1>7, <1>8, <1>9, <1>10, <1>11 DEF Next

\* While the daemon runs a job enters at the end and leaves from the front, also
\* when the printer refuses it.
THEOREM JobsInOrder == Spec => FirstInFirstOut
  <1>1. IInv /\ [Next]_vars => [QueueStep]_vars
    BY Zenon, QueueSteps DEF IInv
  <1> QED
    BY <1>1, SpoolInvariant, PTL DEF Spec, FirstInFirstOut, QueueStep
=============================================================================
