# TLA+ verification of apue.3e

The repository holds the programs of *Advanced Programming in the UNIX
Environment*, third edition, with exercises and experiments. Most are short
demonstrations of one system call; a few are real systems in which several
processes or threads share state. This project models those systems from their
C source, model-checks them with TLC and proves the safety properties of most of
them with TLAPS, for every value of the constants.

`PROJECT.json` is the machine-readable index: components, runs, mutants, the map
from definitions to source lines, findings, hazards, theorems.

## Inventory

| Component | Shared state | What is hard | Module | Status |
|---|---|---|---|---|
| Hash database (`db/`) | index file, data file, record locks | locks on single chains, one free list for all, appends in two calls, reuse of records while others read | `ApueDb`, `ApueDbKV`, `KVStore` | checked, core proved |
| Print spooler, queue (`printer/printd.c`) | job list, job counter, spool directory | crash at any step, answers before cleanup, refused jobs | `PrintSpool` | checked, safety proved |
| Print spooler, signals | worker list, reread flag, printer address | list surgery, reread during a reread | `PrintSignals` | checked, reread proved |
| Print spooler, answer of the printer | receive buffer | the answer comes in pieces | `PrinterStatus` | checked |
| Print command, `readn`, `writen`, copying programs (`printer/print.c`, `advio/`) | a socket, requests of asynchronous input and output | calls that do less than asked, requests that end in any order | `Copies` | checked, proved |
| Semaphores (`lib/semaph.c`) | System V set of three | creation race, undo on exit | `Semaph` | checked, proved |
| Open server (`ipc2/opend`) | client table, poll array | two arrays kept in step, clients that vanish | `OpenServer` | loops and table checked |
| Open server by fork and exec, descriptor passing (`ipc2/*.fe`, `lib/sendfd.c`, `recvfd.c`) | stream pipe | message and status in pieces | `FdPassing` | checked, safety proved |
| Parent and child (`lib/tellwait.c`, `ipc1/tellwait.c`) | signal mask and flag, pipes, a file, locks | signals between test and sleep | `TellWait` | checked |
| `popen`, `pclose` | descriptors of all children | inherited ends of pipes | `Popen` | checked, proved |
| `system`, `sleep`, `abort`, waiting for signals | dispositions, mask, pending signals | a signal between any two calls | `SignalCalls` | checked, safety proved |
| Worker threads and queues (`threads/rwlock.c`, `mytests/threads/Ex11_3*`) | linked queue, conditions | signal without the mutex | `WorkerThreads` | checked |
| Reference counts (`threads/mutex1.c` to `mutex3.c`) | hash table, counts | lock order, retaken locks | `FooObjects` | checked, proved |
| Barriers (`threads/barrier.c`, `Ex11_5.barrier_wait.c`) | counter, condition, array | spurious wakeups, late threads | `Barriers` | checked, barriers proved |
| Thread control (`threadctl/`, `threads/condvar.c`) | recursive mutex, clock, environment | a handler in the caller's thread | `ThreadCtl` | checked, safety proved |
| Message queues (`ipc2/pollmsg.c`, `exercises/pollmsg2.c`) | shared message | overwritten or missed messages | `MsgQueues` | checked |
| Daemons (`daemons/`, `lib/daemonize.c`) | lock file | one instance only | `Daemons` | checked, proved |
| Pseudo terminals (`pty/`) and terminal modes (`lib/ttymodes.c`) | two copying processes, two terminals | who puts the terminal back | `Pty`, `TtyModes` | checked, safety proved |
| Uptime service (`sockets/`) | connections, datagrams | lost datagrams, time-outs, failing fork | `Uptime` | checked, safety proved |
| Memory streams (`exercises/fmemopen.c`) | buffer, position, sizes | null bytes at the end | `MemStream` | checked, proved |
| `mydup2` (`mytests/fileio/Ex3_2*`) | descriptor table | descriptors made on the way | `Dup2` | checked |

`MCApueDb` and `MCOpenServer` instantiate one system each. `MCThreads` and
`MCProcesses` put together the instances of many small programs: a variable
`program` is chosen at the start, only that program steps, and the others stay in
one initial state. The programs share nothing, so a behaviour of the composed
module is a behaviour of one of them, and one run checks them all under one set
of fairness assumptions. A property of such a run is the conjunction of what
related programs promise, named once.

`Outputs` puts `Pty`, `TtyModes` and `Copies` together, for the two properties
that speak of more than one of them.

`ApueDbInv`, `ApueDbProofs`, `PrintSpoolInv`, `PrintSpoolProofs`, `SyncProofs`
(semaphores and signals), `FooProofs`, `CountProofs` (popen and the barriers),
`ProgramProofs` (daemons, thread control, SIGHUP and memory streams),
`OutputProofs` (pseudo terminals, terminal modes and copying) and `ServiceProofs`
(descriptor passing and the uptime service) hold the inductive invariants, lemmas
and theorems.

### The database

The files are `ptr` (every pointer field: free list, hash slots, one in each
index record), `idx` (the rest of the index records), `dat`, and their ends
`nidx` and `ndat`. An offset is named by what is stored there. This is exact
because a record never changes its length after it is appended; that fact is
itself a property (`RecordsKeepTheirSize`) and a theorem (`SizesKept`). `rlk`
and `wlk` are the fcntl locks of each region. Each process has a place `pc` in
the library, the fields of its `DB` structure and the locals of the functions it
is in (`h`), and the offset of its descriptor (`pos`).

One action is one system call that another process can observe. `_db_find_and_lock`
is `Begin`, `FindHead`, `FindNext`; `_db_dodelete` is `DelDat` to `DelUnlink`;
`_db_findfree` is `FreeLock` to `FreeMiss`; the three ends of `db_store` are
`DatSeek` to `Link` (append), `ReuseDat`, `ReuseIdx`, `Link` (reuse) and
`Overwrite`; `db_nextrec` is `NextSkip`, `NextIdx`, `NextEOF`, `NextDat`. A lock
is merged with the next call of its owner, and an unlock with the previous one,
where nobody can see the state between. `DiskFull` lets any append fail, and
`LinkQuit` is the `err_quit` for an offset above `PTR_MAX`: both kill the process
in the middle of a store.

Assumptions: a database is created or truncated only while nobody else has it
open (`db_open` truncates before it locks); a process dies only where the code
calls `err_dump` or `err_quit`; system calls other than appends do not fail.

### The spooler

The job list is a sequence, a document is the client that sent it, and a job its
number. The disk (`jobno`, `data`, `reqs`) survives `Crash`, everything else is
lost. An action is one critical section or one system call on the spool
directory, so that a crash may fall between any two of them. `Defer` covers every
way in which the printer does not confirm a job, including the one where the
document was printed and the answer lost. `update_jobno` does not truncate the
file: after a wrap-around digits of the old number may follow the new ones, and
the model lets the file hold any number that is not smaller (numbers above
`INT32_MAX` are left out). `PrintSignals` models the linked list of workers by
its `next` and `prev` fields, because the way they are set matters; a use of a
freed node ends the behaviour in `corrupt`.

### The semaphores

The key names at most one set of three members (`sem`); `adj` holds the adjust
values of each process, `id` whether its identifier is that of the present set
or of one that was removed. An action is one `semget`, `semop` or `semctl`, at
the place `pc`; `Killed` ends a process at any of them, and `Exit` applies its
adjust values, as the kernel does for `SEM_UNDO`. A process that has ended stands
for a new one. `err_sys` ends a process whose set was removed; one that already
sleeps in the lock of `sem_create` (`LockSleep`) ends so too, because the code
retries for `EINVAL` only. Callers use the semaphore as a lock: this is the
discipline `Exclusion` is about.

### The open server

`prog` says which of the two loops was linked. `client` is the table of
`client.c`; `pollfd` and `maxfd`, or `allset`, `rset`, `maxi` and `maxfd`, are
the variables of the loop. A step is one poll or select, one accept, or one
entry of the scan; clients connect, send, receive, close or die between any two.
The index of the scan is the first entry with an event left. Descriptors are the
lowest that are free, so numbers are used again. The server goes `down` where
the code calls `log_sys` or writes to a client that is gone (nothing ignores
SIGPIPE). The contents of requests and the granting of files are left out.
`misnamed` records that a request was handled under a uid that is not the
client's.

### Threads

An action is one section under a mutex, because nothing else reads or writes
what the mutex protects meanwhile; a mutex is a variable only where it is held
across steps or where its order matters. `pthread_cond_wait` splits a section in
two, and a waiting thread may wake up for no reason where the code is written to
allow it.

* `WorkerThreads` keeps the queue as pointers (`next`, `prev`, head, tail), for
  the three programs that use it; a job is freed, taken or queued, never two of
  these. `job_find_atomic` and `job_remove_atomic` have no caller.
* `FooObjects` lets freed memory be used again by the next `foo_alloc`, so that
  a use after free shows as a count that disagrees with the references.
* `Barriers` has the home-made barrier with its unsigned counter, and the sort
  behind a pthread barrier with its merge. `MergeSorts` compares with the
  definition of sorted.
* `ThreadCtl` has a clock of seconds and parts of a second (`SECTONSEC`) for
  `timeout`, and one shared buffer for each version of `getenv`. In `timeout.c`
  `condition` is not initialised; the model starts it with either value. In
  `getenv3.c` the case of a value that is cut to fit the buffer is left out.
* `MsgQueues`: `pollmsg2.c` waits outside a loop, so what it promises is stated
  for behaviours without a spurious wakeup. The size it passes to `msgrcv` is
  larger than the text field; messages here are shorter.
* `PrinterStatus` takes the answer as tokens and cuts it at any place; a byte of
  the buffer that was never written is a value of its own. Bytes that are not the
  IPP header may look like any header.

### Processes, signals and descriptors

An action is one system call. A pending signal that is not blocked is delivered
before the next step of its process.

* `TellWait` runs six programs, each a list of operations per process, over
  signals or pipes. The file, the offset shared over `fork` and the buffer of a
  stream copied by `fork` are separate variables. With signals and several
  rounds a wait may be missed: the first wait restores a mask that blocks
  nothing, so that the signal can come between the test of the flag and
  `sigsuspend`. `ConversationEnds` is stated for the other programs.
* `Popen` keeps who has which end of which pipe; `Ends` of a command that reads
  its input needs all write ends closed.
* `SignalCalls` keeps dispositions, mask, pending signals and the child; the
  dispositions and the mask of the caller are arbitrary at the start.
* `Daemons` starts, signals and kills copies at any step; the lock belongs to a
  process and is not inherited.
* `Pty` has the two processes of `loop`, the program on the slave, and both
  terminals as sets of flags. A SIGTERM that comes before `signal_intr` kills
  `pty`, which the properties count as an end. `TtyModes` has the calls of
  `lib/ttymodes.c` one by one under `t_raw.c`; a signal between the change of the
  terminal and the assignment to `ttystate` is exempt from `TerminalIsLeft`.
* `FdPassing`: a byte is text, null or status and knows the request it answers;
  `recvmsg` stops behind the bytes that carry a descriptor. Two cases are exempt
  from `AnswerIsForRequest`: a request longer than the server's buffer, which is
  answered twice, and one `buf_args` refuses, whose message is an old one.
* `Uptime`: a server process is known by the client it serves and by what its
  standard output is connected to. `sockets/clconn.c` tries the same socket
  again, `clconn2.c` a new one; on the modelled platform both may succeed. The
  alarm that fires before `recvfrom` blocks, and the child that goes on serving
  because its exec failed, are exempt from `ClientsEnd`.
* `MemStream` has a ghost variable `file`, what a file would hold after the same
  calls.
* `Dup2` runs both versions on every table of descriptors; the exceptions are
  stated with the property.
* `Copies` keeps the output as a function from the offsets written so far, so
  that blocks may be written in any order. A write takes any part of what it is
  given; the kernel ends asynchronous requests between any two steps. Two error
  paths of the source are visible in it: a read that fails ends `rot13a` with
  status 0 (`"cut short"`), and one that fails in `submit_file` of `print.c` is
  taken for a block that was written, and tried again.

## Runs

| Run | Bounds | Shows |
|---|---|---|
| `db` | 2 processes, 3 keys on 2 chains, 3 data strings of 2 lengths, 3 records, `PTR_MAX` = 2; one process scans | about 290 000 states. Types; lists are lists; no index record leaks; only a scan can fail a sanity check; no shared data; `db_nextrec` returns live pairs; lengths never change; the library implements `KVStore` |
| `db_nextrec` | the same | violated: the comment on `db_rewind` does not hold once another operation has moved the descriptor |
| `spool` | 2 clients, documents of one block, numbers 1 and 2, 2 crashes | about 306 000 states. Numbers differ within a run; accepted documents are kept and printed; nothing else is printed; order is first in, first out |
| `spool_restart` | 2 clients, 1 crash | violated: a number is issued again after a restart and the new client empties the file of the old one |
| `spool_stall` | 2 clients, no crash | violated: a time-out counts as the end of the document |
| `workers` | 2 workers | violated: `kill_workers` misses all workers but one |
| `printer_status` | answers in at most 3 pieces | violated: `printer_status` loops for ever when a piece ends just before the end of the HTTP header |
| `semaph_open` | 2 processes, no `sem_rm` | violated: a process from `sem_open` loses the set to the last closer |
| `opend_poll` | 2 clients, arrays grow by 2 | violated: the poll loop takes the uid of another client |
| `workerthrd` | 2 workers, 3 jobs | violated: a worker sleeps although its job is queued |
| `threads` | 2 or 3 threads, 3 jobs, 2 objects, 2 queues | about 57 000 states. See the next table |
| `processes` | 2 or 3 processes, clients or copies; 3 rounds; inputs of up to 5 bytes in blocks of 2 | about 114 000 states. See the next table |

| Property | What it says |
|---|---|
| `ThreadTypes`, `ProcessTypes` | the variables of every program keep their types |
| `HupIsHonoured` | no SIGHUP is lost, however it falls into the reread before it |
| `StatusIsPrinters` | `printer_status` says what the printer said, of this job |
| `JobsAccountedFor` | every job is queued, with its worker, handled or freed, and only once, and the two directions of the list agree |
| `CountIsReferences` | a count is the number of references, and nobody has one to freed memory |
| `BarriersWork` | nobody passes early; the merged numbers are sorted |
| `RetryIsTimely` | the retry happens at its time, not before, and never between the check in main and the end of its call of `timeout` |
| `EnvironmentIsOwn` | `getenv_r` gives each thread its own value; `getenv3` too |
| `NoWakeupIsLost` | the herd serves every job, barriers open, messages and signals are reacted to |
| `Exclusion`, `UndoIsExact`, `InitializedOnce`, `CreatorsKeepTheSet` | the semaphores (also proved) |
| `ServerTables` | the tables of the open server agree with its connections; entries that are read were filled; uids in the select loop |
| `TellWaitOrders` | the n-th return from a wait follows the n-th tell; increments alternate and none is lost |
| `PipesArePrivate` | no child has an end of another child's pipe |
| `SignalsAreKept` | `system` and `sleep` leave dispositions and mask as found, `system` returns its child's status, `abort` kills, no zombie is forgotten |
| `OneDaemon` | at most one copy serves, it holds the lock and the file names it |
| `OutputIsKept` | what a program on a pseudo terminal writes is shown once and in order; a copy is right at every offset and complete at exit status 0 |
| `TerminalIsKept` | the terminal is left as it was found |
| `AnswerIsForRequest` | each `csopen` gets the answer to its own request, however the stream is cut |
| `WholeAnswer` | a client of the uptime service has the whole answer and nobody else's |
| `StreamIsFile` | a memory stream is a file (also proved) |
| `Dup2IsDup2` | `mydup2` is `dup2` |
| `WaitingEnds` | whoever waits for a process, a child, an alarm, a server or a request is not left waiting |

Why the bounds are enough to be interesting. In `db` two keys collide and two
others can reuse each other's records, so that a chain of two, a free list of
two, a delete from the middle, the reuse of a record on another chain, a
replacement of equal and of different length, a full disk and an offset above
`PTR_MAX` all occur. In `spool` two clients on two numbers include wrap-around,
two documents in the spool directory at a restart, and a crash during the
recovery from a crash. For the semaphores `BIGCOUNT` is the number of processes,
the smallest value the code's comment allows, and one process calls `sem_rm`. In
the open server the listener and two clients exceed the first allocation of the
poll loop, and leaving, packing and using entries and descriptors again happen in
every order. Three jobs for two workers leave one in the middle of the list; two
threads on two objects reach every order of the retaken lock; three threads at a
barrier include a late one. Three rounds of TELL and WAIT include a wait whose
mask was restored by an earlier one. Two children of `popen` are what it takes to
inherit an end; three starts of two daemons include a restart beside a copy that
dies. Five bytes in blocks of two make three blocks, the last one short, for two
buffers, so that a buffer is used again while the other is under way. Every
action fires in a passing run.

The properties of `spool` that concern restarts exclude the behaviours in which
a number was issued twice (`Reused`), which `spool_restart` shows to exist.

Fairness in `PrintSpool`: weak fairness of every thread (the
kernel schedules runnable threads, and somebody starts the daemon again), and
strong fairness of `SendOK`, that is, a printer that is tried for ever accepts
in the end. No fairness is assumed of clients that have not connected or of
`SpuriousWakeup`. In `OpenServer` it is weak fairness of the server's loop: the
kernel runs it when poll or select has something to return. Clients owe nothing.
In `MCThreads` and `MCProcesses` it is weak fairness of each
thread or process of the program that runs, of the kernel's deliveries (signals,
the alarm, finished requests) and of children that have nothing left to wait for;
none of signals that users type, of messages, or of failures. A lost datagram
needs no fairness of the network because the client has a time-out. Deadlock is
checked in every passing run. In the composed modules the step `AtRest` marks
where a program may stop, because it has ended or waits for somebody outside;
that the others do not stop is `WaitingEnds` and `NoWakeupIsLost`. The runs
`printer_status` and `workerthrd`, whose properties are temporal, have weak
fairness of the printer thread, and of main and every worker.

Every property of a passing run has a mutant: an operator `X_Variant` before `X`
that changes it as a plausible error in the code would, and makes the property
fail.

## Proofs

Everything in this section holds for every value of the constants that satisfies
the named assumptions. Each invariant was an invariant of a TLC run before it
was proved.

| Module | Theorems | Property of a run |
|---|---|---|
| `ApueDbProofs` | `Invariance`, `LockExclusion` | |
| | `TypeCorrect`, `DataDisjoint`, `NoDumps`, `SizesKept` | `TypeOK`, `DataNotShared`, `OnlyScanDumps`, `RecordsKeepTheirSize` |
| `PrintSpoolProofs` | `SpoolInvariant` | |
| | `SpoolTypes`, `NumbersDiffer`, `AcceptedKept`, `SpooledPrinted`, `JobsInOrder` | `TypeOK`, `NumbersDifferInOneRun`, `AcceptedIsKept`, `OnlySpooledIsPrinted`, `FirstInFirstOut` |
| `SyncProofs` | `SemTypes` | |
| | `SemExclusion`, `SemUndo`, `SemInitializedOnce`, `SemCreatorsKeep` | `Exclusion`, `UndoIsExact`, `InitializedOnce`, `CreatorsKeepTheSet` |
| | `CallsKeep` | `SignalsAreKept` |
| `FooProofs` | `FooCounts` | `CountIsReferences` |
| `CountProofs` | `PopenIsPrivate` | `PipesArePrivate` |
| | `BarrierKeepsBack` | the first half of `BarriersWork` |
| `ProgramProofs` | `DaemonIsAlone`, `TimeoutIsTimely`, `GetenvIsOwn`, `NoHupLost`, `MemStreamIsFile` | `OneDaemon`, `RetryIsTimely`, `EnvironmentIsOwn`, `HupIsHonoured`, `StreamIsFile` |
| `OutputProofs` | `PtyKeepsOutput`, `CopiesAreExact`, and from them `OutputKept` | `OutputIsKept` |
| | `PtyRestoresTerminal`, `RawLeavesTerminal`, and from them `TerminalKept` | `TerminalIsKept` |
| `ServiceProofs` | `EachGetsItsAnswer`, `ClientsGetWholeAnswers` | `AnswerIsForRequest`, `WholeAnswer` |

**The database.** `DataNotShared` is not inductive: it depends on the append of a
data record and of its index record being two separate writes, each at an offset
found by a seek before it. `Inv` adds what makes that safe: the seek is done
under a write lock (`AppendOK`), write locks exclude (`LocksExclusive`), the data
record of an append in progress belongs to no index record and to no other
process, every index record describes a data record of its own length
(`RecordsOK`), the `DB` structure of a process inside an operation agrees with
the record it stands for (`HandleOK`), and no pointer in a file or in a process
leads outside the index file (`PointersInFile`). `ApueDbProofs` shows first that
each step keeps the types, locks, requests, the creation protocol, the pointers
and the records, then that it keeps the handles and appends, and combines them.
The assumptions are those in `ApueDb` (`SizeAssumption`,
`OffsetAssumption`, `ValueAssumption`): sizes are naturals and the names of
offsets and values are different.

**The spooler.** Four facts support one another (`PrintSpoolInv`). The `k`-th
last number that `get_newjobno` gave has age `k`, so the next one is none of
them while fewer than `JobMax` were given (`NumberInv`); this is where the
assumption `FewClients` is used, that the print command is not run more often
in one behaviour than there are numbers. The place of a thread says whether its
client has a number and an answer (`PlaceInv`). A data file is stored under the
number of its client, and what is on the disk or in the list was issued
(`FileInv`). As long as no number was issued again, the place of a client's
thread says how much of its document is on the disk, a whole control file or an
entry in the list belongs to a client that sent everything and was not refused,
and whoever was told that the document is accepted has both files or the paper
(`PromiseInv`). A crash keeps the disk and forgets the threads; that these facts
survive it is what makes `build_qonstart` safe. Each of `TypeStep`, `PlaceStep`,
`NumberStep`, `FilesStep` and `PromiseStep` goes through all actions.
`FirstInFirstOut` is an action property and follows from the types and
`PlaceInv`.

**The semaphores.** For any finite set of processes not larger than `BIGCOUNT`
(`CountAssumption`) and any `initval`. None of the properties is inductive by
itself. `Inv` adds that the adjust values of a process are determined by its
place (`AdjOK`), that the lock is 1 exactly while one process is at a place that
holds it (`LockOK`), and that an initialised set satisfies two equations: the
counter and the processes counted in add up to `BIGCOUNT`, the value and the
holders to `initval` (`CountOK`). Exclusion is then arithmetic on the second
equation, and the others follow from the first. The equations survive a killed
process because its adjust values are exactly its share of the sums; the lemmas
on cardinalities move one process in or out.

**Reference counts.** For any threads, objects and numbers of references, and all
three files. `FooInv` adds who has `hashlock` (`HoldsHash`) and what a thread in
the middle of a call knows (`InCall`): a new object is its own, one it found
stays in the chain while it has the lock, one it releases it has a reference to,
and one it frees nobody else has. In `mutex2.c` the recheck after both locks were
taken again is what keeps the last fact. The only assumption is that `Free` is
not a thread.

**`popen`.** For any size of the table and any number of descriptors and
children. `PoInv` says that the descriptor `childpid[]` knows is the caller's end
of that child's pipe, and that no other descriptor of the caller or of another
running child is (`PoStreams`). A new pipe has the lowest closed descriptors
(`PipeFds`), so neither is known to `childpid[]`, and the child closes those that
are. The standard descriptors are a separate conjunct, because a caller may start
without them.

**The barriers.** For any number of threads up to `UnsignedMax`. `BarrierInv`
relates the counter to the set of threads that came (`BarrierCount`); with it
nobody is past the barrier before that set is full, in `my_barrier_wait` for
every spurious wakeup, and exactly one thread is told that it was the last.

**The daemons.** Any number of copies, starts and kills. `Has` says what a copy
that has made `n` calls of its list has; the lock is taken by the ninth call and
the file names the copy after the eleventh, so two that serve are the same.

**Thread control.** For any length of a second and any time on the clock:
`LaterIs` shows that the comparison of the two fields in `timeout` compares the
times, and `SleepsUntil` that the time it has to wait is their difference, with
its borrow. `CtlMutex` says who has the recursive
mutex, and how often.

**SIGHUP and memory streams.** `HupInv` follows the version of the configuration
the printer thread has read; the flag is cleared before the file is read, not
after. `MemInv` is `StreamIsFile` with the types: the position is within the data
and the data within the buffer, which is what makes the null byte that
`mstream_write` adds fall behind the data.

**Signals.** For any dispositions and mask at the call, any number of children
and any signals. `SigInv` has a part for each function. `SystemInv` says of each
place in `system` which dispositions differ from the caller's, whether SIGCHLD is
blocked, and what the child has put back. That the child is still there at
`waitpid` depends on SIGCHLD being blocked before the fork: no handler of the
caller can have reaped it. `SleepInv` says the same of SIGALRM. `AbortInv` follows
SIGABRT to the second `kill`, where it has its default action and is the only
signal that is not blocked. `WaitInv` says that SIGCHLD is pending while there is
a zombie. All programs share one kernel in the model, so each lemma about a
delivery goes through all of them.

**Terminals.** `TtyInv` and `PtyModesInv` say at which places the terminal may
differ from what it was, and that the saved settings and `ttystate` (or the
handler of `atexit`) are set there. The exempt window is a place of its own.

**The output of a pseudo terminal.** For any input and `BUFFSIZE`
(`PtyAssumption`). `PtyFlow` says that what was written is what was shown, what
is in the parent's buffer and what is in the line, in this order. `PtyPlaces` adds
where the buffer is empty, and that with `ignoreeof` the parent leaves its loop
only after the program has ended and everything was read.

**Copying.** For any input, block size, number of buffers and number of answers
(`CopiesAssumption`). `Right` says that every byte of the output is the right one
at its offset; the parts of `CopyInv` say for each program which offsets are
there. For `rot13c2` the offsets have gaps. `AioInv` says that a byte below the
offset that was asked for last is in the output or some buffer is for it, and
`BufferOk` that a buffer holds its own block, translated before it is written,
and is free only after the whole block was written.

**Descriptor passing.** For any number of requests and any `MAXLINE` that leaves
room for a message and its two last bytes (`FdAssumption`). `FdPlaces` says
that one request is under way at a time and where it is: asked, refused, half
answered, opened or answered. Nothing of an earlier request is in the stream when
the next one is sent. A whole answer fits one `recvmsg` (`WholeReply`), which is
why a null byte is always next to last; this is where `snprintf` with
`MAXLINE-1` matters.

**The uptime service.** For any clients, addresses, processes and lines, and any
`MAXSLEEP` that is a power of two up to 128 (`UptimeAssumption`). `Retries` says
that the seconds slept are one less than the present delay. `Structure` says that
only the first process accepts, and that a child belongs to it. `Stage` says of
each client that it waits in the queue and was sent nothing, or one process is
serving it and it was sent the lines up to the one that process is at, or it has
a whole answer; `Once` that it is in the queue once. With datagrams `DgramInv`
says which answers can be on their way.

Only model-checked, with the reason:

* `ListsWellFormed`, `NoRecordLost`, `Linearizable` (the refinement of
  `KVStore`), `NextrecReturnsLive`: they speak of all records reachable from a
  pointer, and a proof is an induction along the list;
* `JobsAccountedFor`, `MergeSorts`, `KillsAllWorkers`: the same, for the queue of
  jobs, the merge and the list of workers;
* `TellWaitOrders` counts the events of a history, `Dup2IsDup2` is about a
  recursive program;
* `AcceptedIsPrinted`, `NoWakeupIsLost`, `WaitingEnds`: liveness;
* `ServerTables`, `StatusIsPrinters` and the type invariants of the composed runs:
  not proved. The first is stated with operators on sequences under which every
  step of a proof is very slow; nothing stands in the way of the others but
  length.

## Findings

* `db/db.c`: `db_nextrec` continues wherever the descriptor is; the comments say
  that one `db_rewind`, done by `db_open`, suffices.
* `printer/printd.c`: the job ID file lags behind the numbers in use, so that an
  accepted document can be overwritten after a restart.
* `printer/printd.c`: a time-out while a document is received counts as its end.
* `printer/printd.c`: `add_worker` does not move the head of the list.
* `lib/semaph.c`: `sem_open` does need the lock.
* `ipc2/opend/loop.poll.c`: `client[i]` is not the client of `pollfd[i]` once
  somebody has left.
* `printer/printd.c`: `printer_status` does not return when the data read so far
  end one or two bytes before the end of the HTTP header.
* `mytests/threads/Ex11_3_workerthrd.c`: a job is queued and signalled without
  the worker's mutex, so that the signal can be lost.

## Not modelled

* Demonstrations of one call (`intro`, `stdio`, `environ`, `fileio`, `datafiles`,
  `standards`, most of `proc`, `relation`, `termios` and `mytests`): one process,
  no shared state, and output as the only effect.
* `filedir/ftw8.c`: a recursion over whatever is in the file system; nothing in
  it depends on an order of steps.
* `librlt/bitops.c`: pure functions on machine words, one expression each.
* `threadctl/atfork.c`: locks held over a fork that no other thread competes for.
* `signals/reenter.c`: undefined behaviour inside the C library.
* Contents: the text of records, documents, requests and messages, host names,
  names of devices and window sizes; the granting of files by the open server.
* Failures of system calls that the code answers by ending the process at once
  (`err_sys` and its kin) are modelled only where something is left behind: a
  full disk in the database, failing writes in the spooler, `fork`, `exec` and
  `popen` in the servers, `tcsetattr`, and the calls of `popen`.
* A database that is truncated while another process has it open, and a process
  killed between two writes of a database: the library has no recovery to check.
* `sem_create` whose set is removed while it sleeps in its lock
  (`lib/semaph.c:125`): it ends in `err_sys`, as the model does, since only
  `EINVAL` is retried.
* A thread that starts before `pthread_create` has stored its identifier: the
  C library stores it first.
