------------------------------ MODULE Outputs ------------------------------
(***************************************************************************)
(* What the programs that use a terminal or copy their input promise.      *)
(***************************************************************************)
EXTENDS Pty, TtyModes, Copies

\* What a program on a pseudo terminal writes reaches standard output, and what
\* a program copies reaches its file, its pipe or its server.
OutputIsKept == PtyOutputIsKept /\ CopyIsExact

\* The terminal is left as it was found, by pty, by tty_raw and tty_cbreak
\* when they fail, and by the handler of t_raw.c.
TerminalIsKept == TerminalRestored /\ TerminalIsLeft
=============================================================================
