---------------------------- MODULE PrintSignals ----------------------------
(***************************************************************************)
(* What the signal thread of src/printer/printd.c shares with the others:  *)
(* the list of worker threads, which SIGTERM walks to cancel them, and the *)
(* flag that SIGHUP sets to have the printer's address read again.         *)
(*                                                                         *)
(* A node of the worker list is named by its thread.  A node is on the     *)
(* heap from add_worker until client_cleanup frees it; what a read of a    *)
(* freed node returns is undefined, and the model stops there (corrupt).   *)
(* The configuration file is a version number.                             *)
(***************************************************************************)
EXTENDS Integers, FiniteSets

CONSTANTS
    Thread,     \* client threads
    NULL,
    MaxEdit     \* how often the configuration file is edited

ASSUME SignalsAssumption == NULL \notin Thread /\ IsFiniteSet(Thread) /\ MaxEdit \in Nat

VARIABLES
    workers,        \* head of the worker list
    next, prev,     \* the links of each node
    heap,           \* nodes that are allocated
    outstanding,    \* threads between add_worker and client_cleanup
    canceled,       \* threads that kill_workers has canceled
    corrupt,        \* a freed node was used
    conf,           \* version of the configuration file
    asked,          \* version it had at the last SIGHUP
    reread,
    printer,        \* version the address was read from, or NULL
    found,          \* version get_printaddr has read
    pt,             \* where the printer thread is in its turn
    sig             \* where the signal thread is

list == <<workers, next, prev, heap, outstanding, corrupt>>
config == <<conf, asked, reread, printer, found, pt>>
vars == <<list, canceled, config, sig>>

Init ==
    /\ workers = NULL
    /\ next = [t \in Thread |-> NULL]
    /\ prev = [t \in Thread |-> NULL]
    /\ heap = {} /\ outstanding = {} /\ canceled = {} /\ corrupt = FALSE
    /\ conf = 0 /\ asked = 0 /\ reread = FALSE /\ printer = 0 /\ found = 0
    /\ pt = "check" /\ sig = "sigwait"

\* The nodes that a walk from the head meets within n nodes.
Walk ==
    LET w[n \in Nat] ==
            IF n = 0 THEN {workers} \ {NULL}
            ELSE w[n - 1] \cup ({next[t] : t \in w[n - 1] \cap heap} \ {NULL})
    IN  w[Cardinality(Thread)]

Running == sig # "exit" /\ ~ corrupt

-----------------------------------------------------------------------------
add_worker(t) ==
    /\ Running
    /\ t \notin outstanding /\ t \notin heap
    /\ heap' = heap \cup {t}
    /\ outstanding' = outstanding \cup {t}
    /\ next' = [next EXCEPT ![t] = workers]
    /\ IF workers = NULL
       THEN /\ workers' = t
            /\ prev' = [prev EXCEPT ![t] = NULL]
            /\ UNCHANGED corrupt
       ELSE /\ prev' = [prev EXCEPT ![t] = NULL, ![workers] = t]
            /\ corrupt' = (workers \notin heap')
            /\ UNCHANGED workers
    /\ UNCHANGED <<canceled, config, sig>>

\* The thread ends, or is canceled: its node is looked up and removed.
client_cleanup(t) ==
    /\ Running
    /\ t \in outstanding
    /\ outstanding' = outstanding \ {t}
    /\ \/ /\ t \in Walk
          /\ prev' = IF next[t] = NULL THEN prev ELSE [prev EXCEPT ![next[t]] = prev[t]]
          /\ next' = IF prev[t] = NULL THEN next ELSE [next EXCEPT ![prev[t]] = next[t]]
          /\ workers' = IF prev[t] = NULL THEN next[t] ELSE workers
          /\ heap' = heap \ {t}
          /\ UNCHANGED corrupt
       \/ /\ t \notin Walk
          /\ corrupt' = (Walk \ heap # {})
          /\ UNCHANGED <<workers, next, prev, heap>>
    /\ UNCHANGED <<canceled, config, sig>>

-----------------------------------------------------------------------------
\* SIGHUP: schedule to re-read the configuration file.
SigHup ==
    /\ Running /\ sig = "sigwait"
    /\ reread' = TRUE
    /\ asked' = conf
    /\ UNCHANGED <<list, canceled, conf, printer, found, pt, sig>>

\* SIGTERM: kill_workers, then exit.
kill_workers ==
    /\ Running /\ sig = "sigwait"
    /\ canceled' = canceled \cup Walk
    /\ corrupt' = (Walk \ heap # {})
    /\ sig' = "killed"
    /\ UNCHANGED <<workers, next, prev, heap, outstanding, config>>

Exit ==
    /\ Running /\ sig = "killed"
    /\ sig' = "exit"
    /\ UNCHANGED <<list, canceled, config>>

-----------------------------------------------------------------------------
\* Variant: the new address is not looked up.
CheckReread_Skip ==
    /\ Running /\ pt = "check"
    /\ reread
    /\ reread' = FALSE
    /\ printer' = NULL
    /\ pt' = "send"
    /\ UNCHANGED <<list, canceled, conf, asked, found, sig>>

\* printer_thread under configlock: the old address is dropped.
CheckReread ==
    /\ Running /\ pt = "check"
    /\ reread
    /\ reread' = FALSE
    /\ printer' = NULL
    /\ pt' = "init"
    /\ UNCHANGED <<list, canceled, conf, asked, found, sig>>

NoReread ==
    /\ Running /\ pt = "check"
    /\ ~ reread
    /\ pt' = "send"
    /\ UNCHANGED <<list, canceled, conf, asked, reread, printer, found, sig>>

\* The file is read; the lookup of the name that was found takes its time.
get_printaddr ==
    /\ Running /\ pt = "init"
    /\ found' = conf
    /\ pt' = "lookup"
    /\ UNCHANGED <<list, canceled, conf, asked, reread, printer, sig>>

\* Variant: the request to read the file again is taken back only now.
init_printer_Clear ==
    /\ Running /\ pt = "lookup"
    /\ printer' = found
    /\ reread' = FALSE
    /\ pt' = "send"
    /\ UNCHANGED <<list, canceled, conf, asked, found, sig>>

init_printer ==
    /\ Running /\ pt = "lookup"
    /\ printer' = found
    /\ pt' = "send"
    /\ UNCHANGED <<list, canceled, conf, asked, reread, found, sig>>

\* There is no address in the file: exit(1).
NoAddress ==
    /\ Running /\ pt \in {"init", "lookup"}
    /\ sig' = "exit"
    /\ UNCHANGED <<list, canceled, config>>

\* The job is sent to printer->ai_addr, or deferred.
Send ==
    /\ Running /\ pt = "send"
    /\ pt' = "check"
    /\ UNCHANGED <<list, canceled, conf, asked, reread, printer, found, sig>>

\* Somebody edits the configuration file.
Edit ==
    /\ Running /\ conf < MaxEdit
    /\ conf' = conf + 1
    /\ UNCHANGED <<list, canceled, asked, reread, printer, found, pt, sig>>

Next ==
    \/ \E t \in Thread : add_worker(t) \/ client_cleanup(t)
    \/ SigHup \/ kill_workers \/ Exit
    \/ CheckReread \/ NoReread \/ get_printaddr \/ init_printer \/ NoAddress \/ Send \/ Edit

Spec == Init /\ [][Next]_vars

-----------------------------------------------------------------------------
\* The list, the heap and the threads have the right types; the printer thread
\* has no address only while it looks for a new one.
TypeOK ==
    /\ workers \in Thread \cup {NULL}
    /\ next \in [Thread -> Thread \cup {NULL}]
    /\ prev \in [Thread -> Thread \cup {NULL}]
    /\ outstanding \subseteq heap /\ heap \subseteq Thread /\ canceled \subseteq Thread
    /\ corrupt \in BOOLEAN /\ reread \in BOOLEAN
    /\ conf \in 0 .. MaxEdit /\ asked \in 0 .. conf /\ found \in 0 .. conf
    /\ IF pt \in {"init", "lookup"} THEN printer = NULL ELSE printer \in 0 .. conf
    /\ pt \in {"check", "init", "lookup", "send"}
    /\ sig \in {"sigwait", "killed", "exit"}

\* No SIGHUP is lost: unless one more reread is scheduled, a job goes to the
\* address that was in the file at the last SIGHUP, or a later one, even if the
\* signal comes while printer_thread is reading the file.
HupIsHonoured ==
    ~ reread /\ pt \notin {"init", "lookup"} => printer >= asked

\* kill_workers is there to "Cancel (kill) all outstanding workers".
KillsAllWorkers ==
    [][sig = "sigwait" /\ sig' = "killed" => outstanding \subseteq canceled']_vars

=============================================================================
