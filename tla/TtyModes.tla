------------------------------ MODULE TtyModes ------------------------------
(***************************************************************************)
(* tty_cbreak, tty_raw and tty_reset (lib/ttymodes.c) as termios/t_raw.c   *)
(* calls them, with a handler that resets the terminal and exits.  The     *)
(* terminal is the set of the settings that are on; the ones of a mode     *)
(* that are to go off stand for the flags, the size and VMIN and VTIME.    *)
(***************************************************************************)
EXTENDS Integers

Settings == {"ECHO", "ICANON", "ISIG", "OPOST"}
OffIn(m) == IF m = "CBREAK" THEN {"ECHO", "ICANON"} ELSE Settings

VARIABLES
    tat,        \* where t_raw is
    term_on,    \* the terminal
    save_termios, tstate, ttysavefd, \* the variables of ttymodes.c
    caught      \* where sig_catch interrupted, or ""

ttvars == <<tat, term_on, save_termios, tstate, ttysavefd, caught>>

ttInit ==
    /\ tat = [call |-> "RAW", at |-> "start"]
    /\ term_on = Settings /\ save_termios = {} /\ tstate = "RESET" /\ ttysavefd = -1
    /\ caught = ""

At(m, a) == tat = [call |-> m, at |-> a]
To(m, a) == tat' = [call |-> m, at |-> a]

\* tty_cbreak and tty_raw: refused unless the state is RESET; the settings
\* are saved.
tty_save(m) ==
    /\ At(m, "start")
    /\ IF tstate # "RESET" THEN To(m, "exit") /\ UNCHANGED save_termios
       ELSE To(m, "tcsetattr") /\ save_termios' = term_on
    /\ UNCHANGED <<term_on, tstate, ttysavefd, caught>>

\* tcsetattr fails, or makes some of the changes.
tty_set(m) ==
    /\ At(m, "tcsetattr")
    /\ \/ To(m, "exit") /\ UNCHANGED term_on
       \/ \E made \in SUBSET OffIn(m) : term_on' = term_on \ made /\ To(m, "verify")
    /\ UNCHANGED <<save_termios, tstate, ttysavefd, caught>>

\* What was done in part is left.
tty_verify_Variant(m) ==
    /\ At(m, "verify")
    /\ IF term_on \cap OffIn(m) # {} THEN To(m, "exit") ELSE To(m, "state")
    /\ UNCHANGED <<term_on, save_termios, tstate, ttysavefd, caught>>

\* If only some were made, or tcgetattr fails, the settings are put back.
tty_verify(m) ==
    /\ At(m, "verify")
    /\ \/ term_on' = save_termios /\ To(m, "exit")
       \/ term_on \cap OffIn(m) = {} /\ To(m, "state") /\ UNCHANGED term_on
    /\ UNCHANGED <<save_termios, tstate, ttysavefd, caught>>

tty_done(m) ==
    /\ At(m, "state")
    /\ tstate' = m /\ ttysavefd' = 0 /\ To(m, "read")
    /\ UNCHANGED <<term_on, save_termios, caught>>

\* Characters are read until DELETE, the end or an error, and then the
\* terminal is reset.
tty_reset(m) ==
    /\ At(m, "read")
    /\ IF tstate = "RESET" THEN UNCHANGED <<term_on, tstate>>
       ELSE term_on' = save_termios /\ tstate' = "RESET"
    /\ \/ m = "RAW" /\ To("CBREAK", "start")
       \/ To(m, "exit")
    /\ UNCHANGED <<save_termios, ttysavefd, caught>>

\* SIGINT, SIGQUIT or SIGTERM: tty_reset and exit.
sig_catch ==
    /\ tat.at # "exit"
    /\ caught' = tat.at
    /\ IF tstate = "RESET" THEN UNCHANGED <<term_on, tstate>>
       ELSE term_on' = save_termios /\ tstate' = "RESET"
    /\ To(tat.call, "exit")
    /\ UNCHANGED <<save_termios, ttysavefd>>

ttStep(m) == tty_save(m) \/ tty_set(m) \/ tty_verify(m) \/ tty_done(m) \/ tty_reset(m)

ttNext == sig_catch \/ \E m \in {"RAW", "CBREAK"} : ttStep(m)

ttSpec == ttInit /\ [][ttNext]_ttvars

ttTypeOK ==
    /\ term_on \subseteq Settings /\ save_termios \subseteq Settings
    /\ tstate \in {"RESET", "RAW", "CBREAK"} /\ ttysavefd \in {-1, 0}

\* The program leaves the terminal as it found it, also after a change that
\* was made in part, an error or a signal; unless the signal came in the few
\* instructions in which tty_raw has set the mode and not yet its state.
TerminalIsLeft ==
    tat.at = "exit" /\ caught \notin {"verify", "state"} => term_on = Settings
=============================================================================
