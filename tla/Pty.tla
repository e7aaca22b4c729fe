---------------------------------- MODULE Pty ----------------------------------
(***************************************************************************)
(* The pty program: its start (pty/main.c, pty/driver.c) with pty_fork     *)
(* (lib/ptyfork.c, lib/ptyopen.c), the terminal modes of lib/ttymodes.c,   *)
(* and the two processes that copy (pty/loop.c): a child from standard     *)
(* input to the pty master, the parent from the master to standard output. *)
(* The program on the slave copies what it reads.  Data are numbered       *)
(* pieces; a terminal is the set of the flags that are on.                 *)
(***************************************************************************)
EXTENDS Integers, Sequences

CONSTANTS
    NTyped,    \* bound: pieces on standard input
    BUFFSIZE   \* pieces that one read takes

ASSUME PtyAssumption == NTyped \in Nat /\ BUFFSIZE \in Nat

TtyFlags == {"ECHO", "ICANON", "ISIG", "ONLCR"}

VARIABLES
    opt,       \* options: ignoreeof, noecho, driver, and interactive
    pmain, pcopy, pslave,  \* where the parent, its child and the slave are
    user, slavef,          \* flags of the user's terminal and of the slave
    ttystate, ctty_state,  \* ttystate of the parent and of its child
    atexitset, \* tty_atexit is registered
    input, ptyin, ptyout, shown, written, \* data on their way
    pbuf, cbuf,            \* the buffers of parent and child
    inst, termpend, sigcaught  \* sig_term installed, SIGTERM pending, the flag

ptvars == <<opt, pmain, pcopy, pslave, user, slavef, ttystate, ctty_state, atexitset,
            input, ptyin, ptyout, shown, written, pbuf, cbuf, inst, termpend, sigcaught>>
data == <<input, ptyin, ptyout, shown, written, pbuf, cbuf>>
sigs == <<inst, termpend, sigcaught>>
modes == <<user, slavef, ttystate, ctty_state, atexitset>>

Options == [ignoreeof : BOOLEAN, noecho : BOOLEAN, driver : BOOLEAN, interactive : BOOLEAN]

ptInitOf(options) ==
    /\ opt \in options
    /\ pmain = "pty_fork" /\ pcopy = "none" /\ pslave = "none"
    /\ user = TtyFlags /\ slavef = TtyFlags /\ ttystate = "RESET" /\ ctty_state = "RESET"
    /\ atexitset = FALSE
    /\ input = [i \in 1 .. NTyped |-> i]
    /\ ptyin = << >> /\ ptyout = << >> /\ shown = << >> /\ written = << >>
    /\ pbuf = << >> /\ cbuf = << >>
    /\ inst = FALSE /\ termpend = FALSE /\ sigcaught = FALSE

ptInit == ptInitOf(Options)

(***************************************************************************)
(* ttymodes.c.                                                             *)
(***************************************************************************)
RawOff == {"ECHO", "ICANON", "ISIG"}

\* tty_reset through tty_atexit, in the process whose ttystate is st.
Reset(st) == IF atexitset /\ st # "RESET" THEN TtyFlags ELSE user

\* exit: the parent runs tty_atexit.
ExitParent(how) ==
    /\ pmain' = how /\ user' = Reset(ttystate) /\ ttystate' = "RESET"
    /\ UNCHANGED <<slavef, ctty_state, atexitset>>

\* A change that was made in part is not undone.
tty_raw_Variant(made) ==
    /\ user' = user \ made
    /\ IF made = RawOff THEN ttystate' = "RAW" /\ pmain' = "atexit"
       ELSE pmain' = "exit" /\ UNCHANGED ttystate

\* tcsetattr may clear some of the flags only; then they are put back, and the
\* caller fails.
tty_raw(made) ==
    IF made = RawOff
    THEN user' = user \ made /\ ttystate' = "RAW" /\ pmain' = "atexit"
    ELSE pmain' = "exit" /\ UNCHANGED <<user, ttystate>>

TtyRaw ==
    /\ pmain = "tty_raw" /\ \E made \in SUBSET RawOff : tty_raw(made)
    /\ UNCHANGED <<opt, pcopy, pslave, slavef, ctty_state, atexitset, data, sigs>>

AtExit ==
    /\ pmain = "atexit"
    /\ atexitset' = TRUE /\ pmain' = "fork"
    /\ UNCHANGED <<opt, pcopy, pslave, user, slavef, ttystate, ctty_state, data, sigs>>

(***************************************************************************)
(* main, pty_fork and do_driver.                                           *)
(***************************************************************************)
\* ptym_open and fork; either may fail.
pty_fork ==
    /\ pmain = "pty_fork"
    /\ \/ pmain' = "exit" /\ UNCHANGED pslave
       \/ /\ pslave' = "setsid"
          /\ pmain' = IF opt.driver THEN "do_driver"
                      ELSE IF opt.interactive THEN "tty_raw" ELSE "fork"
    /\ UNCHANGED <<opt, pcopy, modes, data, sigs>>

\* No echo, and no CR for NL on output.
set_noecho(f) == f \ {"ECHO", "ONLCR"}

\* The child of pty_fork: a session of its own, the slave opened, its modes
\* set, and the three descriptors; then main turns echo off and calls execvp.
SlaveStarts ==
    /\ \/ pslave = "setsid" /\ pslave' = "open" /\ UNCHANGED slavef
       \/ pslave = "open" /\ pslave' = "dup2"
          /\ slavef' = IF opt.interactive THEN TtyFlags ELSE slavef
       \/ pslave = "dup2" /\ pslave' = "execvp" /\ UNCHANGED slavef
       \/ pslave = "execvp" /\ pslave' = "run"
          /\ slavef' = IF opt.noecho THEN set_noecho(slavef) ELSE slavef
    /\ UNCHANGED <<opt, pmain, pcopy, user, ttystate, ctty_state, atexitset, data, sigs>>

\* The driver process is at the other end of standard input and output.
do_driver ==
    /\ pmain = "do_driver"
    /\ pmain' \in {"fork", "exit"}
    /\ UNCHANGED <<opt, pcopy, pslave, modes, data, sigs>>

\* external: the program reads a piece and writes it, or ends.
SlaveRuns ==
    /\ pslave = "run" /\ ptyin # << >>
    /\ ptyin' = Tail(ptyin)
    /\ ptyout' = Append(ptyout, Head(ptyin)) /\ written' = Append(written, Head(ptyin))
    /\ UNCHANGED <<opt, pmain, pcopy, pslave, modes, input, shown, pbuf, cbuf, sigs>>

SlaveEnds ==
    /\ pslave = "run" /\ pslave' = "gone"
    /\ UNCHANGED <<opt, pmain, pcopy, modes, data, sigs>>

(***************************************************************************)
(* loop.                                                                   *)
(***************************************************************************)
LoopFork ==
    /\ pmain = "fork"
    /\ \/ ExitParent("exit") /\ UNCHANGED pcopy
       \/ /\ pcopy' = "read" /\ ctty_state' = ttystate /\ pmain' = "signal_intr"
          /\ UNCHANGED <<user, slavef, ttystate, atexitset>>
    /\ UNCHANGED <<opt, pslave, data, sigs>>

ReadSizes(s) == {n \in 1 .. BUFFSIZE : n <= Len(s)}

\* The child: read from standard input, write to the master; a slave that
\* echoes sends it back.
ChildRead ==
    /\ pcopy = "read" /\ input # << >>
    /\ \E n \in ReadSizes(input) :
          cbuf' = SubSeq(input, 1, n) /\ input' = SubSeq(input, n + 1, Len(input))
    /\ pcopy' = "writen"
    /\ UNCHANGED <<opt, pmain, pslave, modes, ptyin, ptyout, shown, written, pbuf, sigs>>

ChildWrite ==
    /\ pcopy = "writen"
    /\ ptyin' = ptyin \o cbuf /\ cbuf' = << >> /\ pcopy' = "read"
    /\ LET echo == IF "ECHO" \in slavef /\ pslave # "gone" THEN cbuf ELSE << >>
       IN  ptyout' = ptyout \o echo /\ written' = written \o echo
    /\ UNCHANGED <<opt, pmain, pslave, modes, input, shown, pbuf, sigs>>

\* The parent is told whatever the option is.
ChildEof_Variant ==
    /\ pcopy = "read" /\ input = << >>
    /\ termpend' = TRUE /\ pcopy' = "exit"
    /\ UNCHANGED <<opt, pmain, pslave, modes, data, inst, sigcaught>>

\* End of file: SIGTERM to the parent unless ignoreeof.
ChildEof ==
    /\ pcopy = "read" /\ input = << >>
    /\ termpend' = (termpend \/ ~opt.ignoreeof) /\ pcopy' = "exit"
    /\ UNCHANGED <<opt, pmain, pslave, modes, data, inst, sigcaught>>

\* exit(0) in the child runs tty_atexit too.
ChildExit ==
    /\ pcopy = "exit" /\ pcopy' = "gone"
    /\ user' = Reset(ctty_state) /\ ctty_state' = "RESET"
    /\ UNCHANGED <<opt, pmain, pslave, slavef, ttystate, atexitset, data, sigs>>

SignalIntr ==
    /\ pmain = "signal_intr" /\ ~termpend
    /\ inst' = TRUE /\ pmain' = "read"
    /\ UNCHANGED <<opt, pcopy, pslave, modes, data, termpend, sigcaught>>

\* SIGTERM: sig_term interrupts a read; before it is installed SIGTERM kills.
sig_term ==
    /\ termpend /\ pmain \notin {"exit", "killed"}
    /\ termpend' = FALSE
    /\ IF inst
       THEN sigcaught' = TRUE /\ pmain' = IF pmain = "reading" THEN "tell" ELSE pmain
       ELSE pmain' = "killed" /\ UNCHANGED sigcaught
    /\ UNCHANGED <<opt, pcopy, pslave, modes, data, inst>>

\* The parent: read from the master, which fails when the slave has ended and
\* all was read; write to standard output.
ParentRead ==
    /\ pmain = "read" /\ pmain' = "reading"
    /\ UNCHANGED <<opt, pcopy, pslave, modes, data, sigs>>

ParentGot ==
    /\ pmain = "reading"
    /\ \/ /\ ptyout # << >>
          /\ \E n \in ReadSizes(ptyout) :
                pbuf' = SubSeq(ptyout, 1, n) /\ ptyout' = SubSeq(ptyout, n + 1, Len(ptyout))
          /\ pmain' = "writen"
       \/ ptyout = << >> /\ pslave = "gone" /\ pmain' = "tell" /\ UNCHANGED <<pbuf, ptyout>>
    /\ UNCHANGED <<opt, pcopy, pslave, modes, input, ptyin, shown, written, cbuf, sigs>>

ParentWrite ==
    /\ pmain = "writen" /\ pmain' = "read"
    /\ shown' = shown \o pbuf /\ pbuf' = << >>
    /\ UNCHANGED <<opt, pcopy, pslave, modes, input, ptyin, ptyout, written, cbuf, sigs>>

\* The child is told, unless the signal came from it; a child that reads or
\* writes ends.
TellChild ==
    /\ pmain = "tell" /\ pmain' = "return"
    /\ pcopy' = IF sigcaught \/ pcopy = "gone" THEN pcopy ELSE "gone"
    /\ UNCHANGED <<opt, pslave, modes, data, sigs>>

\* loop returns and main exits.
MainExit ==
    /\ pmain = "return" /\ ExitParent("exit")
    /\ UNCHANGED <<opt, pcopy, pslave, data, sigs>>

(***************************************************************************)
ParentStep == pty_fork \/ TtyRaw \/ AtExit \/ do_driver \/ LoopFork \/ SignalIntr \/ sig_term
              \/ ParentRead \/ ParentGot \/ ParentWrite \/ TellChild \/ MainExit
ChildStep == ChildRead \/ ChildWrite \/ ChildEof \/ ChildExit
SlaveStep == SlaveStarts \/ SlaveRuns

ptNext == ParentStep \/ ChildStep \/ SlaveStep \/ SlaveEnds

\* The processes run; the program need not end, nor need the input.
ptFair == WF_ptvars(ParentStep) /\ WF_ptvars(SlaveStep)

ptSpec == ptInit /\ [][ptNext]_ptvars /\ ptFair

ptTypeOK ==
    /\ opt \in Options /\ user \subseteq TtyFlags /\ slavef \subseteq TtyFlags
    /\ ttystate \in {"RESET", "RAW"} /\ ctty_state \in {"RESET", "RAW"}
    /\ Len(pbuf) <= BUFFSIZE /\ Len(cbuf) <= BUFFSIZE /\ Len(written) <= 2 * NTyped

\* What the program writes reaches standard output once and in order; all of
\* it is there when pty exits and was told to ignore the end of its input.
PtyOutputIsKept ==
    /\ written = shown \o pbuf \o ptyout
    /\ pmain = "exit" /\ opt.ignoreeof => ptyout = << >> /\ pbuf = << >>

\* When pty exits the user's terminal is as it was, also when raw mode could
\* be set in part only.
TerminalRestored == pmain = "exit" => user = TtyFlags

\* When the program on the slave ends pty ends.
PtyEnds == (pslave = "gone") ~> (pmain \in {"exit", "killed"})
=============================================================================
