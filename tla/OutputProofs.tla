---------------------------- MODULE OutputProofs ----------------------------
(***************************************************************************)
(* Proofs about the programs that change the terminal (Pty, TtyModes) and  *)
(* about those that pass on what they read (Pty, Copies): for any input,   *)
(* any options and any sizes of the buffers.                               *)
(***************************************************************************)
EXTENDS Outputs, FiniteSetTheorems, TLAPS

(***************************************************************************)
(* ttymodes.c under t_raw.c.                                               *)
(***************************************************************************)
\* While the state is RESET the terminal is as it was found, but for the few
\* instructions between tcsetattr and the assignment to the state; in these
\* and while the mode is set the settings are saved.
TtyInv ==
    /\ \E m \in {"RAW", "CBREAK"} :
          \E a \in {"start", "tcsetattr", "verify", "state", "read", "exit"} : At(m, a)
    /\ tat.at \in {"start", "tcsetattr"} => term_on = Settings /\ tstate = "RESET"
    /\ tat.at \in {"tcsetattr", "verify", "state", "read"} => save_termios = Settings
    /\ tat.at \in {"verify", "state"} => tstate = "RESET"
    /\ tat.at = "read" => tstate # "RESET"
    /\ TerminalIsLeft

\* The call and the place in it.
LEMMA AtIs ==
    ASSUME NEW m, NEW a
    PROVE  /\ At(m, a) => tat.call = m /\ tat.at = a
           /\ To(m, a) => tat'.call = m /\ tat'.at = a
BY DEF At, To

\* Every step keeps this.
LEMMA TtySteps == TtyInv /\ [ttNext]_ttvars => TtyInv'
<1> SUFFICES ASSUME TtyInv, [ttNext]_ttvars PROVE TtyInv'
  OBVIOUS
<1> USE DEF TtyInv, TerminalIsLeft
<1>0. ASSUME NEW m \in {"RAW", "CBREAK"}, NEW a \in {"start", "tcsetattr", "verify", "state", "read", "exit"}, To(m, a)
      PROVE  /\ \E n \in {"RAW", "CBREAK"} :
                   \E b \in {"start", "tcsetattr", "verify", "state", "read", "exit"} : At(n, b)'
             /\ tat'.at = a
  BY <1>0 DEF To, At
<1>1. ASSUME NEW m \in {"RAW", "CBREAK"}, tty_save(m) PROVE TtyInv'
  BY Zenon, <1>0, <1>1, AtIs DEF tty_save
<1>2. ASSUME NEW m \in {"RAW", "CBREAK"}, tty_set(m) PROVE TtyInv'
  BY Zenon, <1>0, <1>2, AtIs DEF tty_set
<1>3. ASSUME NEW m \in {"RAW", "CBREAK"}, tty_verify(m) PROVE TtyInv'
  BY Zenon, <1>0, <1>3, AtIs DEF tty_verify
<1>4. ASSUME NEW m \in {"RAW", "CBREAK"}, tty_done(m) PROVE TtyInv'
  BY Zenon, <1>0, <1>4, AtIs DEF tty_done
<1>5. ASSUME NEW m \in {"RAW", "CBREAK"}, tty_reset(m) PROVE TtyInv'
  BY Zenon, <1>0, <1>5, AtIs DEF tty_reset
<1>6. ASSUME sig_catch PROVE TtyInv'
  <2>1. PICK m \in {"RAW", "CBREAK"}, a \in {"start", "tcsetattr", "verify", "state", "read", "exit"} : At(m, a)
    BY Zenon
  <2>2. tat.call = m /\ tat.at = a /\ a # "exit" /\ caught' = a /\ To(m, "exit")
    BY Zenon, <1>6, <2>1, AtIs DEF sig_catch
  <2> QED BY Zenon, <1>0, <1>6, <2>2 DEF sig_catch
<1>7. CASE UNCHANGED ttvars
  BY Zenon, <1>7 DEF ttvars, At
<1> QED BY Zenon, <1>1, <1>2, <1>3, <1>4, <1>5, <1>6, <1>7 DEF ttNext, ttStep

\* t_raw leaves the terminal as it was, after changes made in part, errors and
\* signals.
THEOREM RawLeavesTerminal == ttSpec => []TerminalIsLeft
<1>1. ttInit => TtyInv
  <2> SUFFICES ASSUME ttInit PROVE TtyInv
    OBVIOUS
  <2>1. At("RAW", "start")
    BY Zenon DEF ttInit, At
  <2> QED BY Zenon, <2>1, AtIs DEF ttInit, TtyInv, TerminalIsLeft
<1>2. TtyInv => TerminalIsLeft
  BY Zenon DEF TtyInv
<1> QED BY <1>1, <1>2, TtySteps, PTL DEF ttSpec

(***************************************************************************)
(* The pty program: the user's terminal.                                   *)
(***************************************************************************)
\* The terminal is not as it was only while ttystate is RAW, and then
\* tty_atexit is registered but for the call after tty_raw.
PtyModesInv ==
    /\ ttystate \in {"RESET", "RAW"} /\ (user = TtyFlags \/ ttystate = "RAW")
    /\ pmain \in {"pty_fork", "tty_raw", "do_driver"} => ttystate = "RESET"
    /\ ttystate = "RAW" /\ pmain \notin {"atexit", "killed"} => atexitset
    /\ pmain = "exit" => user = TtyFlags

\* Every step keeps this.
LEMMA PtyModesSteps == PtyModesInv /\ [ptNext]_ptvars => PtyModesInv'
<1> SUFFICES ASSUME PtyModesInv, [ptNext]_ptvars PROVE PtyModesInv'
  OBVIOUS
<1> USE DEF PtyModesInv
<1>1. CASE TtyRaw
  BY Zenon, <1>1 DEF TtyRaw, tty_raw
<1>2. CASE AtExit \/ pty_fork \/ do_driver
  BY <1>2 DEF AtExit, pty_fork, do_driver, modes
<1>3. CASE LoopFork \/ MainExit
  <2>1. CASE ExitParent("exit")
    BY Zenon, <1>3, <2>1 DEF LoopFork, MainExit, ExitParent, Reset
  <2>2. CASE pmain = "fork" /\ pmain' = "signal_intr" /\ UNCHANGED <<user, ttystate, atexitset>>
    BY <2>2
  <2> QED BY Zenon, <1>3, <2>1, <2>2 DEF LoopFork, MainExit
<1>4. CASE ChildExit
  BY Zenon, <1>4 DEF ChildExit, Reset
<1>5. CASE SignalIntr \/ ParentRead \/ ParentGot \/ ParentWrite \/ TellChild
  BY <1>5 DEF SignalIntr, ParentRead, ParentGot, ParentWrite, TellChild, modes
<1>6. CASE sig_term
  <2>1. UNCHANGED <<user, ttystate, atexitset>> /\ (pmain' \in {pmain, "killed"} \/ (pmain = "reading" /\ pmain' = "tell"))
    BY <1>6 DEF sig_term, modes
  <2> QED BY <2>1
<1>7. CASE ChildRead \/ ChildWrite \/ ChildEof \/ SlaveStarts \/ SlaveRuns \/ SlaveEnds \/ UNCHANGED ptvars
  BY Zenon, <1>7 DEF ChildRead, ChildWrite, ChildEof, SlaveStarts, SlaveRuns, SlaveEnds, modes, ptvars
<1> QED BY Zenon, <1>1, <1>2, <1>3, <1>4, <1>5, <1>6, <1>7 DEF ptNext, ParentStep, ChildStep, SlaveStep

\* pty leaves the user's terminal as it was when it exits, whichever call fails
\* and whichever process ends first.
THEOREM PtyRestoresTerminal == ptSpec => []TerminalRestored
<1>1. ptInit => PtyModesInv
  BY Zenon DEF ptInit, ptInitOf, PtyModesInv
<1>2. PtyModesInv => TerminalRestored
  BY Zenon DEF PtyModesInv, TerminalRestored
<1> QED BY <1>1, <1>2, PtyModesSteps, PTL DEF ptSpec

(***************************************************************************)
(* The pty program: its output.                                            *)
(***************************************************************************)
Piece == 1 .. NTyped

\* The buffers are sequences, and what was written is shown or under way.
PtySeqs ==
    /\ input \in Seq(Piece) /\ ptyin \in Seq(Piece) /\ ptyout \in Seq(Piece)
    /\ shown \in Seq(Piece) /\ written \in Seq(Piece) /\ pbuf \in Seq(Piece) /\ cbuf \in Seq(Piece)
PtyFlow == written = shown \o pbuf \o ptyout

\* The parent has something in its buffer only while it writes it; nothing is
\* under way before there is a child; with ignoreeof there is no SIGTERM, and
\* the parent leaves its loop only after the program has ended and all is read.
PtyPlaces ==
    /\ pmain \notin {"writen", "killed"} => pbuf = << >>
    /\ pmain \in {"pty_fork", "tty_raw", "do_driver", "atexit", "fork"} => pcopy = "none"
    /\ pcopy = "none" => ptyin = << >> /\ ptyout = << >>
    /\ opt.ignoreeof => ~termpend
    /\ opt.ignoreeof /\ pmain \in {"tell", "return"} => ptyout = << >> /\ pslave = "gone"
    /\ opt.ignoreeof /\ pmain = "exit" => ptyout = << >> /\ (pslave = "gone" \/ pcopy = "none")

\* The inductive invariant.
PtyDataInv == PtySeqs /\ PtyFlow /\ PtyPlaces

\* What read takes from a buffer and what it leaves are the buffer.
LEMMA Cut ==
    ASSUME NEW S, NEW s \in Seq(S), NEW n \in 1 .. Len(s)
    PROVE  /\ SubSeq(s, 1, n) \in Seq(S) /\ SubSeq(s, n + 1, Len(s)) \in Seq(S)
           /\ SubSeq(s, 1, n) \o SubSeq(s, n + 1, Len(s)) = s
  OBVIOUS

\* read returns something, and no more than there is.
LEMMA Sizes1 ==
    ASSUME NEW S, NEW s \in Seq(S)
    PROVE  ReadSizes(s) \subseteq 1 .. Len(s)
  BY PtyAssumption DEF ReadSizes

\* Concatenation.
LEMMA Assoc ==
    ASSUME NEW S, NEW s \in Seq(S), NEW t \in Seq(S), NEW u \in Seq(S)
    PROVE  (s \o t) \o u = s \o (t \o u)
  BY SMTT(40)

LEMMA PiecesJoined ==
    ASSUME NEW S, NEW s \in Seq(S), NEW t \in Seq(S)
    PROVE  s \o t \in Seq(S)
  OBVIOUS

\* Nothing, the first element, and one more.
LEMMA NoneJoined ==
    ASSUME NEW S, NEW s \in Seq(S)
    PROVE  s \o << >> = s /\ << >> \in Seq(S)
  OBVIOUS

LEMMA FirstOut ==
    ASSUME NEW S, NEW s \in Seq(S), s # << >>
    PROVE  Head(s) \in S /\ Tail(s) \in Seq(S)
  OBVIOUS

LEMMA OneJoined ==
    ASSUME NEW S, NEW s \in Seq(S), NEW x \in S
    PROVE  Append(s, x) = s \o <<x>> /\ <<x>> \in Seq(S)
  OBVIOUS

\* Every step keeps this.
LEMMA PtyDataSteps == PtyDataInv /\ [ptNext]_ptvars => PtyDataInv'
<1> SUFFICES ASSUME PtyDataInv, [ptNext]_ptvars PROVE PtyDataInv'
  OBVIOUS
<1>0. PtySeqs /\ PtyFlow /\ PtyPlaces
  BY Zenon DEF PtyDataInv
<1>1. ASSUME UNCHANGED data, PtyPlaces' PROVE PtyDataInv'
  BY Zenon, <1>0, <1>1 DEF data, PtySeqs, PtyFlow, PtyDataInv
<1>2. CASE pty_fork \/ TtyRaw \/ AtExit \/ do_driver
  <2>1. /\ UNCHANGED <<data, opt, pcopy, termpend>> /\ (pslave' = pslave \/ pmain = "pty_fork")
        /\ pmain \in {"pty_fork", "tty_raw", "do_driver", "atexit"}
        /\ pmain' \in {"tty_raw", "do_driver", "atexit", "fork", "exit"}
    BY <1>2 DEF pty_fork, TtyRaw, tty_raw, AtExit, do_driver, data, sigs
  <2>2. PtyPlaces'
    BY <1>0, <2>1 DEF PtyPlaces, data
  <2> QED BY Zenon, <1>1, <2>1, <2>2
<1>3. CASE LoopFork
  <2>1. /\ UNCHANGED <<data, opt, pslave, termpend>> /\ pmain = "fork"
        /\ (pmain' = "exit" /\ pcopy' = pcopy) \/ (pmain' = "signal_intr" /\ pcopy' = "read")
    BY Zenon, <1>3 DEF LoopFork, ExitParent, sigs
  <2>2. PtyPlaces'
    BY <1>0, <2>1 DEF PtyPlaces, data
  <2> QED BY Zenon, <1>1, <2>1, <2>2
<1>4. CASE SignalIntr \/ ParentRead
  <2>1. /\ UNCHANGED <<data, opt, pcopy, pslave, termpend>>
        /\ pmain \in {"signal_intr", "read"} /\ pmain' \in {"read", "reading"}
    BY <1>4 DEF SignalIntr, ParentRead, data, sigs
  <2>2. PtyPlaces'
    BY <1>0, <2>1 DEF PtyPlaces, data
  <2> QED BY Zenon, <1>1, <2>1, <2>2
<1>5. CASE TellChild \/ MainExit
  <2>1. /\ UNCHANGED <<data, opt, pslave, termpend>>
        /\ (pmain = "tell" /\ pmain' = "return" /\ pcopy' \in {pcopy, "gone"})
              \/ (pmain = "return" /\ pmain' = "exit" /\ pcopy' = pcopy)
    BY <1>5 DEF TellChild, MainExit, ExitParent, data, sigs
  <2>2. PtyPlaces'
    BY <1>0, <2>1 DEF PtyPlaces, data
  <2> QED BY Zenon, <1>1, <2>1, <2>2
<1>6. CASE sig_term
  <2>1. /\ UNCHANGED <<data, opt, pcopy, pslave>> /\ termpend /\ ~termpend'
        /\ pmain' \in {pmain, "killed"} \/ (pmain = "reading" /\ pmain' = "tell")
    BY <1>6 DEF sig_term, data
  <2>2. ~opt.ignoreeof
    BY Zenon, <1>0, <2>1 DEF PtyPlaces
  <2>3. PtyPlaces'
    BY <1>0, <2>1, <2>2 DEF PtyPlaces, data
  <2> QED BY Zenon, <1>1, <2>1, <2>3
<1>7. CASE ParentGot
  <2>1. /\ pmain = "reading" /\ pbuf = << >>
        /\ UNCHANGED <<opt, pcopy, pslave, input, ptyin, shown, written, cbuf, termpend>>
    BY <1>0, <1>7 DEF ParentGot, sigs, PtyPlaces
  <2>2. CASE /\ ptyout # << >> /\ pmain' = "writen"
             /\ \E n \in ReadSizes(ptyout) :
                   pbuf' = SubSeq(ptyout, 1, n) /\ ptyout' = SubSeq(ptyout, n + 1, Len(ptyout))
    <3>1. PICK n \in 1 .. Len(ptyout) : pbuf' = SubSeq(ptyout, 1, n) /\ ptyout' = SubSeq(ptyout, n + 1, Len(ptyout))
      BY Zenon, <1>0, <2>2, Sizes1 DEF PtySeqs
    <3>2. pbuf' \in Seq(Piece) /\ ptyout' \in Seq(Piece) /\ pbuf' \o ptyout' = ptyout
      BY Zenon, <1>0, <3>1, Cut DEF PtySeqs
    <3>3. shown \o << >> = shown /\ (shown \o pbuf') \o ptyout' = shown \o (pbuf' \o ptyout')
      <4>1. shown \in Seq(Piece) /\ pbuf' \in Seq(Piece) /\ ptyout' \in Seq(Piece)
        BY Zenon, <1>0, <3>2 DEF PtySeqs
      <4> QED BY SMTT(40), <4>1, Assoc, NoneJoined
    <3>4. PtyFlow' /\ PtySeqs'
      BY Zenon, <1>0, <2>1, <3>2, <3>3 DEF PtyFlow, PtySeqs
    <3>5. PtyPlaces'
      BY <1>0, <2>1, <2>2 DEF PtyPlaces
    <3> QED BY Zenon, <3>4, <3>5 DEF PtyDataInv
  <2>3. CASE ptyout = << >> /\ pslave = "gone" /\ pmain' = "tell" /\ UNCHANGED <<pbuf, ptyout>>
    <3>1. PtyPlaces'
      BY <1>0, <2>1, <2>3 DEF PtyPlaces
    <3> QED BY Zenon, <1>1, <2>1, <2>3, <3>1 DEF data
  <2> QED BY Zenon, <1>7, <2>2, <2>3 DEF ParentGot
<1>8. CASE ParentWrite
  <2>1. /\ pmain = "writen" /\ pmain' = "read" /\ shown' = shown \o pbuf /\ pbuf' = << >>
        /\ UNCHANGED <<opt, pcopy, pslave, input, ptyin, ptyout, written, cbuf, termpend>>
    BY Zenon, <1>8 DEF ParentWrite, sigs
  <2>2. shown \o pbuf \in Seq(Piece) /\ (shown \o pbuf) \o << >> = shown \o pbuf /\ << >> \in Seq(Piece)
    BY Zenon, <1>0, PiecesJoined, NoneJoined DEF PtySeqs
  <2>3. PtyFlow' /\ PtySeqs'
    BY Zenon, <1>0, <2>1, <2>2 DEF PtyFlow, PtySeqs
  <2>4. PtyPlaces'
    BY <1>0, <2>1 DEF PtyPlaces
  <2> QED BY Zenon, <2>3, <2>4 DEF PtyDataInv
<1>9. ASSUME NEW more \in Seq(Piece), ptyout' = ptyout \o more, written' = written \o more,
             UNCHANGED <<pmain, pslave, shown, pbuf, opt, termpend>>, pcopy # "none", pcopy' # "none",
             input' \in Seq(Piece), ptyin' \in Seq(Piece), cbuf' \in Seq(Piece),
             pslave = "gone" => more = << >>
      PROVE  PtyDataInv'
  <2>1. shown \o pbuf \in Seq(Piece)
    BY Zenon, <1>0, PiecesJoined DEF PtySeqs
  <2>2. ((shown \o pbuf) \o ptyout) \o more = (shown \o pbuf) \o (ptyout \o more)
    <3>1. ptyout \in Seq(Piece)
      BY Zenon, <1>0 DEF PtySeqs
    <3>2. \A s, t, u \in Seq(Piece) : (s \o t) \o u = s \o (t \o u)
      BY SMT
    <3> QED BY ZenonT(40), <1>9, <2>1, <3>1, <3>2
  <2>3. written' \in Seq(Piece) /\ ptyout' \in Seq(Piece) /\ (more = << >> => ptyout' = ptyout)
    BY Zenon, <1>0, <1>9, PiecesJoined, NoneJoined DEF PtySeqs
  <2>4. PtyFlow' /\ PtySeqs'
    BY Zenon, <1>0, <1>9, <2>2, <2>3 DEF PtyFlow, PtySeqs
  <2>5. PtyPlaces'
    BY <1>0, <1>9, <2>3 DEF PtyPlaces
  <2> QED BY Zenon, <2>4, <2>5 DEF PtyDataInv
<1>10. CASE SlaveRuns
  <2>1. /\ ptyin # << >> /\ ptyin' = Tail(ptyin) /\ ptyout' = Append(ptyout, Head(ptyin))
        /\ written' = Append(written, Head(ptyin)) /\ pslave = "run"
        /\ UNCHANGED <<opt, pmain, pcopy, pslave, input, shown, pbuf, cbuf, termpend>>
    BY Zenon, <1>10 DEF SlaveRuns, sigs
  <2>2. Head(ptyin) \in Piece /\ ptyin' \in Seq(Piece)
    BY Zenon, <1>0, <2>1, FirstOut DEF PtySeqs
  <2>3. /\ <<Head(ptyin)>> \in Seq(Piece)
        /\ ptyout' = ptyout \o <<Head(ptyin)>> /\ written' = written \o <<Head(ptyin)>>
    BY Zenon, <1>0, <2>1, <2>2, OneJoined DEF PtySeqs
  <2>4. pcopy # "none" /\ pslave # "gone"
    BY <1>0, <2>1 DEF PtyPlaces
  <2> QED BY Zenon, <1>0, <1>9, <2>1, <2>2, <2>3, <2>4 DEF PtySeqs
<1>11. CASE ChildWrite
  <2>1. /\ pcopy = "writen" /\ pcopy' = "read" /\ ptyin' = ptyin \o cbuf /\ cbuf' = << >>
        /\ UNCHANGED <<opt, pmain, pslave, input, shown, pbuf, termpend>>
    BY Zenon, <1>11 DEF ChildWrite, sigs
  <2>2. PICK more \in {cbuf, << >>} : /\ ptyout' = ptyout \o more /\ written' = written \o more
                                      /\ pslave = "gone" => more = << >>
    BY Zenon, <1>11 DEF ChildWrite
  <2>3. ptyin \o cbuf \in Seq(Piece) /\ << >> \in Seq(Piece) /\ more \in Seq(Piece)
    BY Zenon, <1>0, PiecesJoined, NoneJoined DEF PtySeqs
  <2>4. pcopy # "none" /\ pcopy' # "none" /\ input' \in Seq(Piece) /\ ptyin' \in Seq(Piece) /\ cbuf' \in Seq(Piece)
    BY <1>0, <2>1, <2>3 DEF PtySeqs
  <2> QED BY Zenon, <1>9, <2>1, <2>2, <2>3, <2>4
<1>12. CASE ChildRead
  <2>1. /\ pcopy = "read" /\ pcopy' = "writen"
        /\ UNCHANGED <<opt, pmain, pslave, ptyin, ptyout, shown, written, pbuf, termpend>>
        /\ \E n \in ReadSizes(input) : cbuf' = SubSeq(input, 1, n) /\ input' = SubSeq(input, n + 1, Len(input))
    BY Zenon, <1>12 DEF ChildRead, sigs
  <2>2. PICK n \in 1 .. Len(input) : cbuf' = SubSeq(input, 1, n) /\ input' = SubSeq(input, n + 1, Len(input))
    BY Zenon, <1>0, <2>1, Sizes1 DEF PtySeqs
  <2>3. cbuf' \in Seq(Piece) /\ input' \in Seq(Piece)
    BY Zenon, <1>0, <2>2, Cut DEF PtySeqs
  <2>4. PtyPlaces'
    BY <1>0, <2>1 DEF PtyPlaces
  <2> QED BY Zenon, <1>0, <2>1, <2>3, <2>4 DEF PtyDataInv, PtySeqs, PtyFlow
<1>13. CASE ChildEof \/ ChildExit
  <2>1. /\ UNCHANGED <<data, opt, pmain, pslave>> /\ pcopy # "none" /\ pcopy' # "none"
        /\ opt.ignoreeof /\ ~termpend => ~termpend'
    <3>1. CASE ChildEof
      BY Zenon, <3>1 DEF ChildEof
    <3>2. CASE ChildExit
      BY Zenon, <3>2 DEF ChildExit, sigs
    <3> QED BY Zenon, <1>13, <3>1, <3>2
  <2>2. PtyPlaces'
    BY <1>0, <2>1 DEF PtyPlaces, data
  <2> QED BY Zenon, <1>1, <2>1, <2>2
<1>14. CASE SlaveStarts \/ SlaveEnds
  <2>1. UNCHANGED <<data, opt, pmain, pcopy, termpend>> /\ pslave # "gone"
    BY <1>14 DEF SlaveStarts, SlaveEnds, data, sigs
  <2>2. PtyPlaces'
    BY <1>0, <2>1 DEF PtyPlaces, data
  <2> QED BY Zenon, <1>1, <2>1, <2>2
<1>15. CASE UNCHANGED ptvars
  BY Zenon, <1>0, <1>1, <1>15 DEF ptvars, data, PtyPlaces
<1> QED BY Zenon, <1>2, <1>3, <1>4, <1>5, <1>6, <1>7, <1>8, <1>10, <1>11, <1>12, <1>13, <1>14, <1>15
           DEF ptNext, ParentStep, ChildStep, SlaveStep

\* What the program writes on the pseudo terminal reaches the user in order and
\* once, and with ignoreeof all of it, wherever reads and writes are cut.
THEOREM PtyKeepsOutput == ptSpec => []PtyOutputIsKept
<1>1. ptInit => PtyDataInv
  <2> SUFFICES ASSUME ptInit PROVE PtyDataInv
    OBVIOUS
  <2>1. input \in Seq(Piece)
    BY PtyAssumption DEF ptInit, ptInitOf, Piece
  <2>2. << >> \in Seq(Piece) /\ (<< >> \o << >>) \o << >> = << >>
    OBVIOUS
  <2>3. PtySeqs /\ PtyFlow
    BY Zenon, <2>1, <2>2 DEF ptInit, ptInitOf, PtySeqs, PtyFlow
  <2> QED BY <2>3 DEF ptInit, ptInitOf, PtyPlaces, PtyDataInv
<1>2. PtyDataInv => PtyOutputIsKept
  BY Zenon DEF PtyDataInv, PtyFlow, PtyPlaces, PtyOutputIsKept
<1> QED BY <1>1, <1>2, PtyDataSteps, PTL DEF ptSpec

-----------------------------------------------------------------------------
(***************************************************************************)
(* Copies: every byte of the output is in its place.                       *)
(***************************************************************************)
\* The output has right bytes only; a piece of the right output and its place.
Right(o, e) == \A k \in DOMAIN o : k \in 1 .. Len(e) /\ o[k] = e[k]
Part(s, e, pos) ==
    /\ s \in Seq(Nat) /\ pos \in Nat /\ pos + Len(s) <= Len(e)
    /\ \A i \in 1 .. Len(s) : s[i] = e[pos + i]

\* A piece of a piece.
LEMMA PartCut ==
    ASSUME NEW e \in Seq(Nat), NEW s, NEW pos, Part(s, e, pos),
           NEW a \in Nat, NEW b \in Nat, a <= b, b <= Len(s)
    PROVE  Part(SubSeq(s, a + 1, b), e, pos + a)
<1>1. /\ SubSeq(s, a + 1, b) \in Seq(Nat) /\ Len(SubSeq(s, a + 1, b)) = b - a
      /\ \A i \in 1 .. b - a : SubSeq(s, a + 1, b)[i] = s[a + i]
  BY SMTT(40) DEF Part
<1>0. s \in Seq(Nat) /\ Len(s) \in Nat /\ Len(e) \in Nat /\ pos \in Nat /\ pos + Len(s) <= Len(e)
  BY DEF Part
<1> DEFINE t == SubSeq(s, a + 1, b)
<1>2. \A i \in 1 .. b - a : a + i \in 1 .. Len(s) /\ pos + (a + i) = (pos + a) + i
  BY <1>0
<1>3. t \in Seq(Nat) /\ Len(t) = b - a /\ \A i \in 1 .. b - a : t[i] = s[a + i]
  BY Zenon, <1>1
<1> HIDE DEF t
<1>4. pos + a \in Nat /\ (pos + a) + (b - a) <= Len(e)
  BY <1>0
<1>5. ASSUME NEW i \in 1 .. b - a PROVE t[i] = e[(pos + a) + i]
  BY Zenon, <1>2, <1>3 DEF Part
<1>6. Part(t, e, pos + a)
  BY Zenon, <1>3, <1>4, <1>5 DEF Part
<1> QED BY Zenon, <1>6 DEF t

\* How long it is.
LEMMA CutLen ==
    ASSUME NEW s \in Seq(Nat), NEW a \in Nat, NEW b \in Nat, a <= b, b <= Len(s)
    PROVE  Len(SubSeq(s, a + 1, b)) = b - a
  OBVIOUS

\* Writing a piece in its place.
LEMMA PutDomain ==
    ASSUME NEW o, NEW s, NEW pos
    PROVE  DOMAIN PutAt(o, pos, s) = DOMAIN o \cup (pos + 1 .. pos + Len(s))
  BY Zenon DEF PutAt

\* A right piece leaves a right output.
LEMMA PutKeeps ==
    ASSUME NEW e \in Seq(Nat), NEW o, Right(o, e), NEW s, NEW pos, Part(s, e, pos)
    PROVE  Right(PutAt(o, pos, s), e)
<1>1. DOMAIN PutAt(o, pos, s) = DOMAIN o \cup (pos + 1 .. pos + Len(s))
  BY Zenon, PutDomain
<1>2. ASSUME NEW k \in DOMAIN o, k \notin pos + 1 .. pos + Len(s)
      PROVE  PutAt(o, pos, s)[k] = o[k]
  BY Zenon, <1>2 DEF PutAt
<1>3. ASSUME NEW k \in pos + 1 .. pos + Len(s)
      PROVE  k \in 1 .. Len(e) /\ PutAt(o, pos, s)[k] = e[k]
  <2>1. PutAt(o, pos, s)[k] = s[k - pos]
    BY Zenon, <1>3 DEF PutAt
  <2>2. k - pos \in 1 .. Len(s) /\ pos + (k - pos) = k /\ k \in 1 .. Len(e)
    BY SMTT(40) DEF Part
  <2> QED BY Zenon, <2>1, <2>2 DEF Part
<1> QED BY Zenon, <1>1, <1>2, <1>3 DEF Right

\* The rotation of a sequence of characters.
LEMMA TranslatedIs ==
    ASSUME NEW s \in Seq(Nat)
    PROVE  /\ Translated(s) \in Seq(Nat) /\ Len(Translated(s)) = Len(s)
           /\ \A i \in 1 .. Len(s) : Translated(s)[i] = translate(s[i])
<1>1. ASSUME NEW c \in Nat PROVE translate(c) \in Nat
  <2>1. isalpha(c) => c >= 13
    BY DEF isalpha
  <2> QED BY <2>1 DEF translate, isalpha
<1>2. \A k \in 1 .. Len(s) : translate(s[k]) \in Nat
  <2>1. \A k \in 1 .. Len(s) : s[k] \in Nat
    OBVIOUS
  <2> QED BY Zenon, <1>1, <2>1
<1>3. [k \in 1 .. Len(s) |-> translate(s[k])] \in Seq(Nat)
  BY <1>2
<1> QED BY SMTT(40), <1>3 DEF Translated

\* What follows a header.
LEMMA Joined ==
    ASSUME NEW S, NEW h \in Seq(S), NEW s \in Seq(S)
    PROVE  h \o s \in Seq(S) /\ Len(h \o s) = Len(h) + Len(s)
  OBVIOUS

LEMMA Before ==
    ASSUME NEW S, NEW h \in Seq(S), NEW s \in Seq(S), NEW i \in 1 .. Len(h)
    PROVE  (h \o s)[i] = h[i]
  OBVIOUS

LEMMA Behind ==
    ASSUME NEW S, NEW h \in Seq(S), NEW s \in Seq(S), NEW i \in 1 .. Len(s)
    PROVE  (h \o s)[Len(h) + i] = s[i]
  OBVIOUS

\* What the output should be.
LEMMA ExpectedIs ==
    ASSUME source \in Seq(Nat)
    PROVE  /\ Expected \in Seq(Nat)
           /\ cprog = "print" => /\ Len(Expected) = 2 + Len(source) /\ Part(Header, Expected, 0)
                                 /\ \A i \in 1 .. Len(source) : Expected[2 + i] = source[i]
           /\ cprog \in {"rot13a", "rot13c2"} =>
                 Expected = Translated(source) /\ Len(Expected) = Len(source)
           /\ cprog \in {"nonblockw", "mcopy2"} => Expected = source
<1>1. Header \in Seq(Nat) /\ Len(Header) = 2
  BY DEF Header
<1>2. /\ Header \o source \in Seq(Nat) /\ Len(Header \o source) = 2 + Len(source)
      /\ \A i \in 1 .. 2 : (Header \o source)[i] = Header[i]
      /\ \A i \in 1 .. Len(source) : (Header \o source)[2 + i] = source[i]
  <2>0. Header \in Seq(Nat)
    BY Zenon, <1>1
  <2>1. Header \o source \in Seq(Nat) /\ Len(Header \o source) = Len(Header) + Len(source)
    BY Zenon, <2>0, Joined
  <2>2. \A i \in 1 .. Len(Header) : (Header \o source)[i] = Header[i]
    BY Zenon, <2>0, Before
  <2>3. \A i \in 1 .. Len(source) : (Header \o source)[Len(Header) + i] = source[i]
    BY Zenon, <2>0, Behind
  <2> QED BY Zenon, <1>1, <2>1, <2>2, <2>3
<1>3. Translated(source) \in Seq(Nat) /\ Len(Translated(source)) = Len(source)
  BY Zenon, TranslatedIs
<1>4. CASE cprog = "print"
  <2>1. Expected = Header \o source
    BY Zenon, <1>4 DEF Expected
  <2>2. Part(Header, Expected, 0)
    BY <1>1, <1>2, <2>1 DEF Part
  <2> QED BY SMTT(40), <1>4, <1>2, <2>1, <2>2
<1>5. CASE cprog \in {"rot13a", "rot13c2"}
  <2>1. Expected = Translated(source)
    BY Zenon, <1>5 DEF Expected
  <2> QED BY Zenon, <1>3, <1>5, <2>1
<1>6. CASE cprog \notin {"print", "rot13a", "rot13c2"}
  BY Zenon, <1>6 DEF Expected
<1> QED BY Zenon, <1>4, <1>5, <1>6

\* A block of the input.
LEMMA BlockIs ==
    ASSUME source \in Seq(Nat), NEW o \in Nat, o < Len(source)
    PROVE  /\ BlockAt(o) \in Seq(Nat) /\ Len(BlockAt(o)) \in 1 .. BSZ
           /\ o + Len(BlockAt(o)) <= Len(source)
           /\ Len(BlockAt(o)) = BSZ \/ o + Len(BlockAt(o)) = Len(source)
           /\ \A i \in 1 .. Len(BlockAt(o)) : BlockAt(o)[i] = source[o + i] /\ o + i \in 1 .. Len(source)
<1> DEFINE n == IF o + BSZ < Len(source) THEN o + BSZ ELSE Len(source)
<1>1. n \in Nat /\ n > o /\ n <= Len(source) /\ n <= o + BSZ /\ (n = o + BSZ \/ n = Len(source))
  BY CopiesAssumption
<1>2. BlockAt(o) = SubSeq(source, o + 1, n)
  BY Zenon DEF BlockAt
<1> HIDE DEF n
<1>3. /\ SubSeq(source, o + 1, n) \in Seq(Nat) /\ Len(SubSeq(source, o + 1, n)) = n - o
      /\ \A i \in 1 .. n - o : SubSeq(source, o + 1, n)[i] = source[o + i]
  BY <1>1
<1>4. /\ n - o \in 1 .. BSZ /\ o + (n - o) = n /\ (n - o = BSZ \/ n = Len(source))
      /\ \A i \in 1 .. n - o : o + i \in 1 .. Len(source)
  BY <1>1, CopiesAssumption
<1>5. o + (n - o) <= Len(source) /\ (n - o = BSZ \/ o + (n - o) = Len(source))
  BY Zenon, <1>1, <1>4
<1> QED BY Zenon, <1>2, <1>3, <1>4, <1>5

\* A block where it belongs in the output, for the programs that have blocks.
LEMMA BlockPart ==
    ASSUME source \in Seq(Nat), NEW o \in Nat, o < Len(source)
    PROVE  /\ cprog = "print" => Part(BlockAt(o), Expected, 2 + o)
           /\ cprog = "mcopy2" => Part(BlockAt(o), Expected, o)
           /\ cprog \in {"rot13a", "rot13c2"} =>
                 /\ Part(Translated(BlockAt(o)), Expected, o)
                 /\ Len(Translated(BlockAt(o))) = Len(BlockAt(o))
<1> DEFINE b == BlockAt(o)
<1>1. /\ b \in Seq(Nat) /\ o + Len(b) <= Len(source)
      /\ \A i \in 1 .. Len(b) : b[i] = source[o + i] /\ o + i \in 1 .. Len(source)
  BY Zenon, BlockIs
<1> HIDE DEF b
<1>2. CASE cprog = "print"
  <2>1. \A i \in 1 .. Len(b) : (2 + o) + i = 2 + (o + i)
    BY <1>1
  <2>2. /\ Len(Expected) = 2 + Len(source)
        /\ \A i \in 1 .. Len(source) : Expected[2 + i] = source[i]
    BY Zenon, <1>2, ExpectedIs
  <2>3. 2 + o \in Nat /\ (2 + o) + Len(b) <= Len(Expected)
    BY <1>1, <2>2
  <2>4. Part(b, Expected, 2 + o)
    BY Zenon, <1>1, <2>1, <2>2, <2>3 DEF Part
  <2> QED BY Zenon, <1>2, <2>4 DEF b
<1>3. CASE cprog = "mcopy2"
  <2>1. Expected = source
    BY Zenon, <1>3, ExpectedIs
  <2>2. Part(b, Expected, o)
    BY Zenon, <1>1, <2>1 DEF Part
  <2> QED BY Zenon, <1>3, <2>2 DEF b
<1>4. CASE cprog \in {"rot13a", "rot13c2"}
  <2>1. Expected = Translated(source) /\ Len(Expected) = Len(source)
    BY Zenon, <1>4, ExpectedIs
  <2>3. /\ Translated(b) \in Seq(Nat) /\ Len(Translated(b)) = Len(b)
        /\ \A i \in 1 .. Len(b) : Translated(b)[i] = translate(b[i])
    BY Zenon, <1>1, TranslatedIs
  <2>4. \A i \in 1 .. Len(b) : Translated(source)[o + i] = translate(source[o + i])
    BY Zenon, <1>1, TranslatedIs
  <2>5. Part(Translated(b), Expected, o)
    BY Zenon, <1>1, <2>1, <2>3, <2>4 DEF Part
  <2> QED BY Zenon, <1>4, <2>3, <2>5 DEF b
<1> QED BY Zenon, <1>2, <1>3, <1>4

(***************************************************************************)
(* The inductive invariant, a part for each kind of program.               *)
(***************************************************************************)
CopyTypes ==
    /\ cprog \in {"print", "rot13a", "rot13c2", "nonblockw", "mcopy2"}
    /\ source \in Seq(Nat) /\ roff \in Nat /\ Right(out, Expected)

\* print: the output is what was sent of the header and of the blocks read.
PrintInv ==
    cprog = "print" =>
        /\ cpat # "write"
        /\ cpat \in {"main", "connect"} => roff = 0 /\ DOMAIN out = 1 .. 0
        /\ cpat = "writen" => /\ left \in 0 .. Len(blk) /\ roff <= Len(source)
                              /\ Part(blk, Expected, 2 + roff - Len(blk))
                              /\ DOMAIN out = 1 .. 2 + roff - left
        /\ cpat = "read" => roff <= Len(source) /\ DOMAIN out = 1 .. 2 + roff
        /\ cpat \in {"readn", "exit 0"} => DOMAIN out = 1 .. 2 + Len(source)
        /\ cpat = "exit 0" => answer = "job ID"

\* nonblockw: the output is what is no longer left.
NonblockInv ==
    cprog = "nonblockw" =>
        /\ blk = source /\ left \in 0 .. Len(blk) /\ DOMAIN out = 1 .. 0 + Len(blk) - left
        /\ cpat = "exit 0" => left = 0

\* rot13a and mcopy2: the output is as long as what was read.
BlocksInv ==
    cprog \in {"rot13a", "mcopy2"} =>
        /\ cpat = "read" => roff <= Len(source) /\ DOMAIN out = 1 .. roff
        /\ cpat = "exit 0" => DOMAIN out = 1 .. Len(source)

\* rot13c2: the bytes that a buffer is for; what was asked for is in the
\* output or under way; a block was written whole before its buffer is free.
Of(r) == {k \in 1 .. Len(source) : k > r.offset /\ k <= r.offset + BSZ}

\* What submit_file keeps for a buffer.
AioBuffer ==
    [op : {"UNUSED", "READ_PENDING", "WRITE_PENDING"}, last : BOOLEAN, offset : Nat,
     data : Seq(Nat), status : {"none", "EINPROGRESS", "done", "error", "short"}]

\* The data of a buffer is its block, and translated before it is written.
BufferOk(r, done) ==
    /\ r.op = "UNUSED" => r.status # "EINPROGRESS"
    /\ r.op # "UNUSED" => r.offset < Len(source)
    /\ r.op = "READ_PENDING" /\ r.status \notin {"EINPROGRESS", "error"} => r.data = BlockAt(r.offset)
    /\ r.op = "WRITE_PENDING" => r.data = Translated(BlockAt(r.offset))
    /\ r.op = "WRITE_PENDING" /\ r.status \notin {"EINPROGRESS", "error", "short"} =>
          Of(r) \subseteq done

\* A byte that some buffer is for.
UnderWay(k) == \E b \in 0 .. NBUF - 1 : bufs[b].op # "UNUSED" /\ k \in Of(bufs[b])

\* A byte that was asked for is in the output or under way.
AioInv ==
    cprog = "rot13c2" =>
        /\ bufs \in [0 .. NBUF - 1 -> AioBuffer] /\ scan \in 0 .. NBUF
        /\ \A b \in 0 .. NBUF - 1 : BufferOk(bufs[b], DOMAIN out)
        /\ \A k \in 1 .. Len(source) : k <= roff => k \in DOMAIN out \/ UnderWay(k)
        /\ cpat = "exit 0" => 1 .. Len(source) \subseteq DOMAIN out

\* The inductive invariant.
CopyInv == CopyTypes /\ PrintInv /\ NonblockInv /\ BlocksInv /\ AioInv
\* What the output should be does not change.
LEMMA SameExpected == UNCHANGED <<cprog, source>> => Expected' = Expected
  BY Zenon DEF Expected, Translated, Header

\* A write in the middle of a block goes on where the last one ended.
LEMMA WritesOn ==
    ASSUME source \in Seq(Nat), Right(out, Expected), NEW base \in Nat, Part(blk, Expected, base),
           left \in 0 .. Len(blk), DOMAIN out = 1 .. base + Len(blk) - left,
           NEW k \in 1 .. left, WriteSome(k)
    PROVE  /\ Right(out', Expected) /\ left' \in 0 .. Len(blk)
           /\ DOMAIN out' = 1 .. base + Len(blk) - left'
<1> DEFINE n == base + Len(blk) - left
           a == Len(blk) - left
           b == Len(blk) - left + k
           s == SubSeq(blk, a + 1, b)
<1>1. Len(blk) \in Nat
  BY DEF Part
<1>2. /\ n \in Nat /\ a \in Nat /\ b \in Nat /\ a <= b /\ b <= Len(blk) /\ b - a = k /\ base + a = n
      /\ k \in Nat /\ n + k = base + Len(blk) - (left - k) /\ left - k \in 0 .. Len(blk)
  BY <1>1
<1>3. Cardinality(DOMAIN out) = n
  <2>1. ASSUME NEW m \in Nat PROVE Cardinality(1 .. m) = m
    <3>1. Cardinality(1 .. m) = IF 1 > m THEN 0 ELSE m - 1 + 1
      BY FS_Interval
    <3> QED BY <3>1
  <2> QED BY Zenon, <1>2, <2>1
<1>4. out' = PutAt(out, n, s) /\ left' = left - k
  BY Zenon, <1>3 DEF WriteSome
<1> HIDE DEF n, a, b
<1>5. Expected \in Seq(Nat)
  BY Zenon, ExpectedIs
<1>6. Part(s, Expected, base + a) /\ Len(s) = b - a
  <2>1. blk \in Seq(Nat)
    BY Zenon DEF Part
  <2>2. Part(s, Expected, base + a)
    BY Zenon, <1>2, <1>5, PartCut
  <2> QED BY Zenon, <1>2, <2>1, <2>2, CutLen
<1> HIDE DEF s
<1>7. Right(PutAt(out, n, s), Expected) /\ DOMAIN PutAt(out, n, s) = DOMAIN out \cup (n + 1 .. n + Len(s))
  <2>1. Part(s, Expected, n)
    BY Zenon, <1>2, <1>6
  <2> QED BY Zenon, <2>1, <1>5, PutKeeps, PutDomain
<1>8. DOMAIN out = 1 .. n
  BY Zenon DEF n
<1>9. DOMAIN out' = 1 .. n + k
  BY SMTT(40), <1>2, <1>4, <1>6, <1>7, <1>8
<1> QED BY Zenon, <1>2, <1>4, <1>7, <1>9

\* print, and nonblockw.
LEMMA PrintSteps ==
    ASSUME CopyTypes, PrintInv, cprog = "print", cprog' = cprog, source' = source,
           writen \/ PrintMain \/ PrintConnect \/ submit_file \/ ServerAnswers \/ readn
    PROVE  CopyTypes' /\ PrintInv'
<1>0. Expected' = Expected /\ Expected \in Seq(Nat) /\ source \in Seq(Nat) /\ Len(source) \in Nat
  BY ExpectedIs, SameExpected DEF CopyTypes
<1>1. ASSUME Right(out', Expected), roff' \in Nat PROVE CopyTypes'
  BY Zenon, <1>0, <1>1 DEF CopyTypes
<1>2. ASSUME UNCHANGED <<out, roff>> PROVE CopyTypes'
  BY Zenon, <1>1, <1>2 DEF CopyTypes
<1>3. CASE PrintMain \/ PrintConnect
  <2>1. /\ UNCHANGED <<out, roff>> /\ cpat \in {"main", "connect"}
        /\ \/ cpat' \in {"connect", "error"}
           \/ cpat' = "writen" /\ blk' = Header /\ left' = Len(Header)
    BY Zenon, <1>3 DEF PrintMain, PrintConnect
  <2>2. Part(Header, Expected, 0) /\ Len(Header) = 2
    BY Zenon, ExpectedIs DEF CopyTypes, Header
  <2>3. roff = 0 /\ DOMAIN out = 1 .. 0
    BY Zenon, <2>1 DEF PrintInv
  <2>4. PrintInv'
    <3>1. /\ 2 + roff' - Len(Header) = 0 /\ Len(Header) \in 0 .. Len(Header) /\ roff' <= Len(source)
          /\ 1 .. 2 + roff' - Len(Header) = 1 .. 0
      BY <1>0, <2>1, <2>2, <2>3
    <3>2. CASE cpat' \in {"connect", "error"}
      BY Zenon, <2>1, <2>3, <3>2 DEF PrintInv
    <3>3. CASE cpat' = "writen" /\ blk' = Header /\ left' = Len(Header)
      <4>1. /\ left' \in 0 .. Len(blk') /\ roff' <= Len(source')
            /\ Part(blk', Expected', 2 + roff' - Len(blk'))
            /\ DOMAIN out' = 1 .. 2 + roff' - left'
        BY Zenon, <1>0, <2>1, <2>2, <2>3, <3>1, <3>3
      <4> QED BY Zenon, <4>1, <3>3 DEF PrintInv
    <3> QED BY Zenon, <2>1, <3>2, <3>3
  <2> QED BY Zenon, <1>2, <2>1, <2>4
<1>4. CASE submit_file
  <2>1. cpat = "read" /\ UNCHANGED out /\ roff \in Nat /\ roff <= Len(source) /\ DOMAIN out = 1 .. 2 + roff
    BY Zenon, <1>4 DEF submit_file, PrintInv, CopyTypes
  <2>2. CASE roff < Len(source)
    <3>1. blk' = Block /\ left' = Len(Block) /\ roff' = roff + Len(Block) /\ cpat' = "writen"
      BY Zenon, <1>4, <2>2 DEF submit_file
    <3>2. Len(Block) \in Nat /\ roff + Len(Block) <= Len(source) /\ Part(Block, Expected, 2 + roff)
      <4>1. source \in Seq(Nat)
        BY Zenon DEF CopyTypes
      <4>2. Len(BlockAt(roff)) \in 1 .. BSZ /\ roff + Len(BlockAt(roff)) <= Len(source)
        BY Zenon, <2>1, <2>2, <4>1, BlockIs
      <4>3. Part(BlockAt(roff), Expected, 2 + roff)
        BY Zenon, <1>0, <2>1, <2>2, <4>1, BlockPart
      <4>4. Len(BlockAt(roff)) \in Nat
        BY <4>2
      <4> QED BY Zenon, <4>2, <4>3, <4>4 DEF Block
    <3>3. /\ roff' \in Nat /\ 2 + roff' - Len(blk') = 2 + roff /\ 2 + roff' - left' = 2 + roff
          /\ left' \in 0 .. Len(blk') /\ roff' <= Len(source)
      BY <2>1, <3>1, <3>2
    <3>4. PrintInv'
      BY Zenon, <1>0, <2>1, <3>1, <3>2, <3>3 DEF PrintInv
    <3>5. CopyTypes'
      BY Zenon, <1>1, <2>1, <3>3 DEF CopyTypes
    <3> QED BY Zenon, <3>4, <3>5
  <2>3. CASE ~(roff < Len(source))
    <3>1. cpat' = "readn" /\ UNCHANGED roff
      BY Zenon, <1>4, <2>3 DEF submit_file
    <3>2. PrintInv'
      BY <1>0, <2>1, <2>3, <3>1 DEF PrintInv
    <3> QED BY Zenon, <1>2, <2>1, <3>1, <3>2
  <2> QED BY Zenon, <2>2, <2>3
<1>5. CASE readn
  <2>1. /\ UNCHANGED <<out, roff, answer>> /\ cpat = "readn"
        /\ cpat' \in {"readn", "error", "exit 1"} \/ (cpat' = "exit 0" /\ answer = "job ID")
    BY Zenon, <1>5 DEF readn, ReadAnswer
  <2>2. PrintInv'
    BY Zenon, <1>0, <2>1 DEF PrintInv
  <2> QED BY Zenon, <1>2, <2>1, <2>2
<1>6. CASE ServerAnswers
  <2>1. UNCHANGED <<out, roff, cpat, blk, left>> /\ cpat # "exit 0"
    BY Zenon, <1>6 DEF ServerAnswers
  <2>2. PrintInv'
    BY Zenon, <1>0, <2>1 DEF PrintInv
  <2> QED BY Zenon, <1>2, <2>1, <2>2
<1>7. CASE writen
  <2>0. /\ cpat = "writen" /\ left \in 0 .. Len(blk) /\ roff <= Len(source) /\ roff \in Nat
        /\ Part(blk, Expected, 2 + roff - Len(blk)) /\ DOMAIN out = 1 .. 2 + roff - left
        /\ UNCHANGED <<blk, roff>>
    BY Zenon, <1>7 DEF writen, PrintInv, CopyTypes
  <2>1. CASE UNCHANGED <<out, left>> /\ (cpat' = "error" \/ (left = 0 /\ cpat' = "read"))
    <3>1. PrintInv'
      <4>1. left = 0 => 2 + roff - left = 2 + roff
        BY <2>0
      <4> QED BY Zenon, <1>0, <2>0, <2>1, <4>1 DEF PrintInv
    <3> QED BY Zenon, <1>2, <2>0, <2>1, <3>1
  <2>2. ASSUME NEW k \in 1 .. left, WriteSome(k), cpat' = cpat PROVE CopyTypes' /\ PrintInv'
    <3> DEFINE base == 2 + roff - Len(blk)
    <3>1. base \in Nat /\ Len(blk) \in Nat
      BY <2>0 DEF Part
    <3>2. base + Len(blk) - left = 2 + roff - left
      BY <2>0, <3>1
    <3>3. Part(blk, Expected, base) /\ DOMAIN out = 1 .. base + Len(blk) - left
      BY Zenon, <2>0, <3>2
    <3> HIDE DEF base
    <3>4. /\ Right(out', Expected) /\ left' \in 0 .. Len(blk)
          /\ DOMAIN out' = 1 .. base + Len(blk) - left'
      BY Zenon, <1>0, <2>0, <2>2, <3>1, <3>3, WritesOn DEF CopyTypes
    <3>5. base + Len(blk) - left' = 2 + roff - left'
      BY SMTT(40), <2>0, <3>1, <3>4 DEF base
    <3>6. PrintInv'
      BY <1>0, <2>0, <2>2, <3>4, <3>5 DEF PrintInv
    <3>7. CopyTypes'
      BY Zenon, <1>1, <2>0, <3>4
    <3> QED BY Zenon, <3>6, <3>7
  <2>3. \/ left = 0 /\ Sent(Len(blk)) /\ UNCHANGED <<out, left>>
        \/ \E k \in 1 .. left : WriteSome(k) /\ UNCHANGED cpat
        \/ left > 0 /\ Sent(IF left = Len(blk) THEN -1 ELSE Len(blk) - left) /\ UNCHANGED <<out, left>>
    BY Zenon, <1>7 DEF writen
  <2>4. ASSUME left > 0, Sent(IF left = Len(blk) THEN -1 ELSE Len(blk) - left) PROVE cpat' = "error"
    BY <2>0, <2>4 DEF Sent, Part
  <2>5. ASSUME Sent(Len(blk)) PROVE cpat' = "read"
    BY Zenon, <2>5 DEF Sent
  <2> QED BY Zenon, <2>1, <2>2, <2>3, <2>4, <2>5
<1> QED BY Zenon, <1>3, <1>4, <1>5, <1>6, <1>7

\* nonblockw keeps its part.
LEMMA NonblockSteps ==
    ASSUME CopyTypes, NonblockInv, nonblockw, cprog' = cprog, source' = source
    PROVE  CopyTypes' /\ NonblockInv'
<1>0. Expected' = Expected /\ Expected \in Seq(Nat) /\ source \in Seq(Nat) /\ cprog = "nonblockw"
  BY Zenon, ExpectedIs, SameExpected DEF CopyTypes, nonblockw
<1>1. Expected = source /\ Part(source, source, 0)
  BY <1>0, ExpectedIs DEF Part
<1>2. blk = source /\ left \in 0 .. Len(blk) /\ DOMAIN out = 1 .. 0 + Len(blk) - left /\ UNCHANGED <<blk, roff>>
  BY Zenon, <1>0 DEF NonblockInv, nonblockw
<1>3. CASE left = 0 /\ cpat' = "exit 0" /\ UNCHANGED <<out, left>>
  BY Zenon, <1>0, <1>2, <1>3 DEF CopyTypes, NonblockInv
<1>4. ASSUME NEW k \in 1 .. left, WriteSome(k), cpat' = cpat PROVE CopyTypes' /\ NonblockInv'
  <2>0. 0 \in Nat /\ Part(blk, Expected, 0)
    BY Zenon, <1>1, <1>2
  <2>1. Right(out', Expected) /\ left' \in 0 .. Len(blk) /\ DOMAIN out' = 1 .. 0 + Len(blk) - left'
    BY Zenon, <1>0, <1>2, <1>4, <2>0, WritesOn DEF CopyTypes
  <2>2. cpat # "exit 0"
    BY Zenon DEF nonblockw
  <2> QED BY Zenon, <1>0, <1>2, <1>4, <2>1, <2>2 DEF CopyTypes, NonblockInv
<1> QED BY Zenon, <1>3, <1>4 DEF nonblockw

\* rot13a and mcopy2 keep theirs.
LEMMA BlocksSteps ==
    ASSUME CopyTypes, BlocksInv, rot13a \/ mcopy2, cprog' = cprog, source' = source
    PROVE  CopyTypes' /\ BlocksInv'
<1>0. /\ Expected' = Expected /\ Expected \in Seq(Nat) /\ source \in Seq(Nat) /\ cprog \in {"rot13a", "mcopy2"}
      /\ cpat = "read" /\ roff \in Nat /\ roff <= Len(source) /\ DOMAIN out = 1 .. roff
      /\ Right(out, Expected) /\ Len(source) \in Nat
  <2>1. source \in Seq(Nat) /\ roff \in Nat /\ Right(out, Expected)
    BY Zenon DEF CopyTypes
  <2>2. cprog \in {"rot13a", "mcopy2"} /\ cpat = "read"
    BY Zenon DEF rot13a, mcopy2
  <2>3. Expected' = Expected /\ Expected \in Seq(Nat)
    BY Zenon, <2>1, ExpectedIs, SameExpected
  <2>4. roff <= Len(source) /\ DOMAIN out = 1 .. roff
    BY Zenon, <2>2 DEF BlocksInv
  <2>5. Len(source) \in Nat
    BY <2>1
  <2> QED BY Zenon, <2>1, <2>2, <2>3, <2>4, <2>5
<1>1. CASE UNCHANGED <<roff, out>> /\ (cpat' \in {"error", "cut short"} \/ (cpat' = "exit 0" /\ roff >= Len(source)))
  <2>0. roff >= Len(source) => roff = Len(source)
    BY <1>0
  <2>1. BlocksInv'
    BY Zenon, <1>0, <1>1, <2>0 DEF BlocksInv
  <2> QED BY Zenon, <1>0, <1>1, <2>1 DEF CopyTypes
<1>2. ASSUME roff < Len(source), roff' = roff + Len(Block), NEW s, Part(s, Expected, roff),
             out' = PutAt(out, roff, s), cpat' = "error" \/ (cpat' = "read" /\ Len(s) = Len(Block))
      PROVE  CopyTypes' /\ BlocksInv'
  <2>1. Len(Block) \in Nat /\ roff + Len(Block) <= Len(source) /\ Len(s) \in Nat
    <3>1. Len(BlockAt(roff)) \in 1 .. BSZ /\ roff + Len(BlockAt(roff)) <= Len(source)
      BY Zenon, <1>0, <1>2, BlockIs
    <3>2. Len(s) \in Nat
      BY <1>2 DEF Part
    <3> QED BY <3>1, <3>2, CopiesAssumption DEF Block
  <2>2. Right(out', Expected) /\ DOMAIN out' = DOMAIN out \cup (roff + 1 .. roff + Len(s))
    <3>1. /\ Right(PutAt(out, roff, s), Expected)
          /\ DOMAIN PutAt(out, roff, s) = DOMAIN out \cup (roff + 1 .. roff + Len(s))
      BY Zenon, <1>0, <1>2, PutKeeps, PutDomain
    <3> QED BY Zenon, <1>2, <3>1
  <2>3. roff' \in Nat /\ roff' <= Len(source)
    BY SMTT(40), <1>0, <1>2, <2>1
  <2>4. DOMAIN out' = 1 .. roff + Len(s)
    BY SMTT(40), <1>0, <2>1, <2>2
  <2>5. BlocksInv'
    BY Zenon, <1>0, <1>2, <2>3, <2>4 DEF BlocksInv
  <2> QED BY Zenon, <1>0, <2>2, <2>3, <2>5 DEF CopyTypes
<1>3. CASE rot13a
  <2>1. CASE /\ roff < Len(source) /\ roff' = roff + Len(Block)
             /\ \E k \in 0 .. Len(Block) :
                   /\ out' = PutAt(out, roff, SubSeq(Translated(Block), 1, k))
                   /\ cpat' = IF k = Len(Block) THEN "read" ELSE "error"
    <3>1. PICK k \in 0 .. Len(Block) : /\ out' = PutAt(out, roff, SubSeq(Translated(Block), 1, k))
                                       /\ cpat' = IF k = Len(Block) THEN "read" ELSE "error"
      BY Zenon, <2>1
    <3> DEFINE t == Translated(Block)
    <3>2. Part(t, Expected, roff) /\ Len(t) = Len(Block)
      <4>1. cprog = "rot13a"
        BY Zenon, <1>3 DEF rot13a
      <4> QED BY Zenon, <4>1, <1>0, <2>1, BlockPart DEF Block
    <3>3. out' = PutAt(out, roff, SubSeq(t, 1, k))
      BY Zenon, <3>1
    <3> HIDE DEF t
    <3>4. k \in Nat /\ k <= Len(t)
      BY <3>2 DEF Part
    <3>5. Part(SubSeq(t, 0 + 1, k), Expected, roff + 0) /\ Len(SubSeq(t, 0 + 1, k)) = k - 0
      <4>1. 0 \in Nat /\ 0 <= k
        BY <3>4
      <4>2. Part(SubSeq(t, 0 + 1, k), Expected, roff + 0)
        BY Zenon, <1>0, <3>2, <3>4, <4>1, PartCut
      <4>3. t \in Seq(Nat)
        BY Zenon, <3>2 DEF Part
      <4> QED BY ZenonT(40), <4>1, <4>2, <4>3, <3>4, CutLen
    <3>6. 0 + 1 = 1 /\ roff + 0 = roff /\ k - 0 = k
      BY <1>0, <3>4
    <3>7. Part(SubSeq(t, 1, k), Expected, roff) /\ Len(SubSeq(t, 1, k)) = k
      BY Zenon, <3>5, <3>6
    <3> QED BY Zenon, <1>2, <2>1, <3>1, <3>3, <3>7
  <2>2. CASE UNCHANGED <<roff, out>> /\ ((roff = Len(source) /\ cpat' = "exit 0") \/ cpat' = "cut short")
    <3>1. roff = Len(source) => roff >= Len(source)
      BY Zenon, <1>0
    <3> QED BY Zenon, <1>1, <2>2, <3>1
  <2> QED BY Zenon, <1>3, <2>1, <2>2 DEF rot13a
<1>4. CASE mcopy2
  <2>1. CASE roff < Len(source) /\ roff' = roff + Len(Block) /\ out' = PutAt(out, roff, Block) /\ cpat' = cpat
    <3>1. Part(Block, Expected, roff)
      <4>1. cprog = "mcopy2"
        BY Zenon, <1>4 DEF mcopy2
      <4> QED BY Zenon, <4>1, <1>0, <2>1, BlockPart DEF Block
    <3> QED BY Zenon, <1>0, <1>2, <2>1, <3>1
  <2>2. CASE UNCHANGED <<roff, out>> /\ (cpat' = "error" \/ (roff >= Len(source) /\ cpat' = "exit 0"))
    BY Zenon, <1>1, <2>2
  <2> QED BY Zenon, <1>4, <2>1, <2>2 DEF mcopy2
<1> QED BY Zenon, <1>3, <1>4
\* A step that changes one buffer: it must be right, and the bytes that it was
\* for, and those asked for now, must be written or under way in it.
LEMMA OneBuffer ==
    ASSUME CopyTypes, AioInv, cprog = "rot13c2", UNCHANGED <<cprog, source>>, cpat = "read", cpat' = "read",
           scan' \in 0 .. NBUF, NEW b \in 0 .. NBUF - 1, NEW r \in AioBuffer, bufs' = [bufs EXCEPT ![b] = r],
           roff' \in Nat, Right(out', Expected), DOMAIN out \subseteq DOMAIN out',
           BufferOk(r, DOMAIN out'),
           \A k \in 1 .. Len(source) : k <= roff' => k <= roff \/ (r.op # "UNUSED" /\ k \in Of(r)),
           bufs[b].op # "UNUSED" =>
               \A k \in Of(bufs[b]) : k \in DOMAIN out' \/ (r.op # "UNUSED" /\ k \in Of(r))
    PROVE  CopyTypes' /\ AioInv'
<1>0. /\ bufs \in [0 .. NBUF - 1 -> AioBuffer]
      /\ \A c \in 0 .. NBUF - 1 : BufferOk(bufs[c], DOMAIN out)
      /\ \A k \in 1 .. Len(source) : k <= roff => k \in DOMAIN out \/ UnderWay(k)
  BY Zenon DEF AioInv
<1>1. Expected' = Expected
  BY Zenon, SameExpected
<1>2. CopyTypes'
  BY Zenon, <1>1 DEF CopyTypes
<1>3. /\ bufs' \in [0 .. NBUF - 1 -> AioBuffer] /\ bufs'[b] = r
      /\ \A c \in 0 .. NBUF - 1 : c # b => bufs'[c] = bufs[c]
  BY Zenon, <1>0
<1>4. \A q : Of(q)' = Of(q)
  BY Zenon DEF Of
<1>5. ASSUME NEW c \in 0 .. NBUF - 1 PROVE BufferOk(bufs[c], DOMAIN out)'
  <2>2. BufferOk(bufs'[c], DOMAIN out')
    <3>1. CASE c = b
      BY Zenon, <1>3, <3>1
    <3>2. CASE c # b
      <4>1. BufferOk(bufs[c], DOMAIN out) /\ bufs'[c] = bufs[c]
        BY Zenon, <1>0, <1>3, <3>2
      <4>2. BufferOk(bufs[c], DOMAIN out')
        BY Zenon, <4>1 DEF BufferOk
      <4> QED BY Zenon, <4>1, <4>2
    <3> QED BY Zenon, <3>1, <3>2
  <2>3. Of(bufs[c])' = Of(bufs'[c])
    BY Zenon DEF Of
  <2>4. BlockAt(bufs[c].offset)' = BlockAt(bufs'[c].offset)
    BY SMT DEF BlockAt
  <2>5. Translated(BlockAt(bufs[c].offset))' = Translated(BlockAt(bufs'[c].offset))
    <3>1. Translated(BlockAt(bufs[c].offset))' = Translated(BlockAt(bufs[c].offset)')
      BY Zenon DEF Translated
    <3> QED BY Zenon, <2>4, <3>1
  <2> QED BY Zenon, <2>2, <2>3, <2>4, <2>5 DEF BufferOk
<1>6. ASSUME NEW k \in 1 .. Len(source), k <= roff' PROVE k \in DOMAIN out' \/ UnderWay(k)'
  <2>1. ASSUME r.op # "UNUSED", k \in Of(r) PROVE UnderWay(k)'
    BY Zenon, <1>3, <1>4, <2>1 DEF UnderWay, Of
  <2>2. ASSUME NEW c \in 0 .. NBUF - 1, bufs[c].op # "UNUSED", k \in Of(bufs[c]), c # b
        PROVE  UnderWay(k)'
    BY Zenon, <1>3, <2>2 DEF UnderWay, Of
  <2>3. CASE k <= roff
    <3>1. CASE k \in DOMAIN out
      BY Zenon, <3>1
    <3>2. CASE UnderWay(k)
      <4>1. PICK c \in 0 .. NBUF - 1 : bufs[c].op # "UNUSED" /\ k \in Of(bufs[c])
        BY Zenon, <3>2 DEF UnderWay
      <4>2. CASE c = b
        BY Zenon, <2>1, <4>1, <4>2
      <4> QED BY Zenon, <2>2, <4>1, <4>2
    <3> QED BY Zenon, <1>0, <2>3, <3>1, <3>2
  <2> QED BY Zenon, <1>6, <2>1, <2>3
<1>7. cpat' # "exit 0" /\ cprog' = "rot13c2" /\ source' = source
  BY Zenon
<1>8. AioInv'
  BY Zenon, <1>3, <1>5, <1>6, <1>7 DEF AioInv
<1> QED BY Zenon, <1>2, <1>8

\* A step that changes no buffer.
LEMMA NoBuffer ==
    ASSUME CopyTypes, AioInv, cprog = "rot13c2", UNCHANGED <<cprog, source, roff, out, bufs>>,
           scan' \in 0 .. NBUF, cpat = "read", cpat' # "exit 0" \/ 1 .. Len(source) \subseteq DOMAIN out
    PROVE  CopyTypes' /\ AioInv'
<1>1. Expected' = Expected
  BY Zenon, SameExpected
<1>2. CopyTypes'
  BY Zenon, <1>1 DEF CopyTypes
<1>3. AioInv'
  BY ZenonT(40) DEF AioInv, BufferOk, UnderWay, Of, BlockAt, Translated
<1> QED BY Zenon, <1>2, <1>3

\* What a buffer is for depends only on its offset.
LEMMA SameOf == ASSUME NEW q, NEW r, q.offset = r.offset PROVE Of(q) = Of(r)
  BY Zenon DEF Of

\* The steps of the loop over the buffers.
LEMMA ScanSteps ==
    ASSUME CopyTypes, AioInv, ScanBuffers
    PROVE  CopyTypes' /\ AioInv'
<1> DEFINE b == scan
           q == bufs[b]
<1>0. /\ cprog = "rot13c2" /\ UNCHANGED <<cprog, source>> /\ cpat = "read"
      /\ source \in Seq(Nat) /\ roff \in Nat /\ Right(out, Expected) /\ Len(source) \in Nat
      /\ bufs \in [0 .. NBUF - 1 -> AioBuffer]
      /\ \A c \in 0 .. NBUF - 1 : BufferOk(bufs[c], DOMAIN out)
  <2>1. cprog = "rot13c2" /\ UNCHANGED <<cprog, source>> /\ cpat = "read"
    BY Zenon DEF ScanBuffers
  <2>2. source \in Seq(Nat) /\ roff \in Nat /\ Right(out, Expected)
    BY Zenon DEF CopyTypes
  <2>3. Len(source) \in Nat
    BY <2>2
  <2> QED BY Zenon, <2>1, <2>2, <2>3 DEF AioInv
<1>1. b \in 0 .. NBUF - 1 /\ scan' \in 0 .. NBUF
  BY <1>0, CopiesAssumption DEF ScanBuffers, AioInv
<1>2. q \in AioBuffer /\ BufferOk(q, DOMAIN out)
  BY Zenon, <1>0, <1>1
<1> HIDE DEF q
<1>3. CASE cpat' # "exit 0" /\ UNCHANGED <<roff, out, bufs>>
  BY Zenon, <1>0, <1>1, <1>3, NoBuffer
<1>4. ASSUME NEW r \in AioBuffer, bufs' = [bufs EXCEPT ![b] = r], cpat' = cpat,
             roff' \in Nat, UNCHANGED out, BufferOk(r, DOMAIN out),
             \A k \in 1 .. Len(source) : k <= roff' => k <= roff \/ (r.op # "UNUSED" /\ k \in Of(r)),
             q.op # "UNUSED" => \A k \in Of(q) : k \in DOMAIN out \/ (r.op # "UNUSED" /\ k \in Of(r))
      PROVE  CopyTypes' /\ AioInv'
  <2>1. /\ Right(out', Expected) /\ DOMAIN out \subseteq DOMAIN out' /\ BufferOk(r, DOMAIN out')
        /\ cpat = "read" /\ cpat' = "read"
    BY Zenon, <1>0, <1>4
  <2>2. bufs[b].op # "UNUSED" => \A k \in Of(bufs[b]) : k \in DOMAIN out' \/ (r.op # "UNUSED" /\ k \in Of(r))
    BY Zenon, <1>4 DEF q
  <2> QED BY Zenon, <1>0, <1>1, <1>4, <2>1, <2>2, OneBuffer
<1>5. CASE AioReadStart(b)
  <2>1. q.op = "UNUSED" /\ UNCHANGED <<cpat, out>>
    BY Zenon, <1>5 DEF AioReadStart, q
  <2>2. CASE roff < Len(source)
    <3> DEFINE r == [q EXCEPT !.op = "READ_PENDING", !.offset = roff, !.status = "EINPROGRESS",
                              !.last = q.last \/ roff + BSZ >= Len(source)]
    <3>1. roff' = roff + BSZ /\ bufs' = [bufs EXCEPT ![b] = r]
      BY Zenon, <1>5, <2>2 DEF AioReadStart, q
    <3>3. r \in AioBuffer /\ r.op = "READ_PENDING" /\ r.offset = roff /\ r.status = "EINPROGRESS"
      BY Zenon, <1>0, <1>2 DEF AioBuffer
    <3> HIDE DEF r
    <3>4. BufferOk(r, DOMAIN out)
      BY Zenon, <2>2, <3>3 DEF BufferOk
    <3>5. roff' \in Nat /\ \A k \in 1 .. Len(source) : k <= roff' => k <= roff \/ (k > roff /\ k <= roff + BSZ)
      BY <1>0, <3>1, CopiesAssumption
    <3>6. \A k \in 1 .. Len(source) : k <= roff' => k <= roff \/ k \in Of(r)
      BY Zenon, <3>3, <3>5 DEF Of
    <3> QED BY Zenon, <1>4, <2>1, <3>1, <3>3, <3>4, <3>5, <3>6
  <2>3. CASE ~(roff < Len(source))
    BY Zenon, <1>0, <1>3, <1>5, <2>1, <2>3 DEF AioReadStart
  <2> QED BY Zenon, <2>2, <2>3
<1>6. CASE AioWriteStart(b)
  <2>1. q.op = "READ_PENDING" /\ UNCHANGED <<roff, out>>
    BY Zenon, <1>6 DEF AioWriteStart, q
  <2>2. CASE UNCHANGED bufs
    <3>1. cpat' \in {cpat, "error"}
      BY Zenon, <1>6 DEF AioWriteStart
    <3> QED BY Zenon, <1>0, <1>3, <2>1, <2>2, <3>1
  <2>3. CASE ~UNCHANGED bufs
    <3> DEFINE r == [q EXCEPT !.op = "WRITE_PENDING", !.status = "EINPROGRESS", !.data = Translated(q.data)]
    <3>1. bufs' = [bufs EXCEPT ![b] = r] /\ cpat' = cpat /\ q.status \notin {"EINPROGRESS", "error"}
      BY Zenon, <1>6, <2>3 DEF AioWriteStart, q
    <3>2. q.data = BlockAt(q.offset) /\ q.offset < Len(source)
      BY Zenon, <1>2, <2>1, <3>1 DEF BufferOk
    <3>3. q.data \in Seq(Nat)
      BY Zenon, <1>2 DEF AioBuffer
    <3>4. Translated(q.data) \in Seq(Nat)
      BY Zenon, <3>3, TranslatedIs
    <3>5. /\ r \in AioBuffer /\ r.op = "WRITE_PENDING" /\ r.offset = q.offset /\ r.status = "EINPROGRESS"
          /\ r.data = Translated(q.data)
      BY Zenon, <1>2, <3>4 DEF AioBuffer
    <3> HIDE DEF r
    <3>6. BufferOk(r, DOMAIN out)
      BY Zenon, <3>2, <3>5 DEF BufferOk
    <3>7. Of(q) = Of(r)
      BY Zenon, <3>5, SameOf
    <3> QED BY Zenon, <1>0, <1>4, <2>1, <3>1, <3>5, <3>6, <3>7
  <2> QED BY Zenon, <2>2, <2>3
<1>7. CASE AioWriteEnd(b)
  <2>1. q.op = "WRITE_PENDING" /\ UNCHANGED <<roff, out>>
    BY Zenon, <1>7 DEF AioWriteEnd, q
  <2>2. CASE UNCHANGED bufs
    <3>1. cpat' \in {cpat, "error"}
      BY Zenon, <1>7 DEF AioWriteEnd
    <3> QED BY Zenon, <1>0, <1>3, <2>1, <2>2, <3>1
  <2>3. CASE ~UNCHANGED bufs
    <3> DEFINE r == [q EXCEPT !.op = "UNUSED"]
    <3>1. /\ bufs' = [bufs EXCEPT ![b] = r] /\ cpat' = cpat
          /\ q.status \notin {"EINPROGRESS", "error", "short"}
      BY Zenon, <1>7, <2>3 DEF AioWriteEnd, q
    <3>2. Of(q) \subseteq DOMAIN out
      BY Zenon, <1>2, <2>1, <3>1 DEF BufferOk
    <3>3. r \in AioBuffer /\ r.op = "UNUSED" /\ r.status = q.status
      BY Zenon, <1>2 DEF AioBuffer
    <3> HIDE DEF r
    <3>4. BufferOk(r, DOMAIN out)
      BY Zenon, <3>1, <3>3 DEF BufferOk
    <3> QED BY Zenon, <1>0, <1>4, <2>1, <3>1, <3>2, <3>3, <3>4
  <2> QED BY Zenon, <2>2, <2>3
<1> QED BY Zenon, <1>5, <1>6, <1>7 DEF ScanBuffers

\* The end of a round: nothing under way and all asked for is all written.
LEMMA SuspendSteps ==
    ASSUME CopyTypes, AioInv, aio_suspend
    PROVE  CopyTypes' /\ AioInv'
<1>0. /\ cprog = "rot13c2" /\ UNCHANGED <<cprog, source, roff, out, bufs>> /\ cpat = "read"
      /\ source \in Seq(Nat) /\ roff \in Nat /\ scan' = 0
      /\ bufs \in [0 .. NBUF - 1 -> AioBuffer]
      /\ \A k \in 1 .. Len(source) : k <= roff => k \in DOMAIN out \/ UnderWay(k)
  BY Zenon DEF aio_suspend, CopyTypes, AioInv
<1>1. 0 \in 0 .. NBUF
  BY CopiesAssumption
<1>2. CASE cpat' = "exit 0"
  <2>1. numop = 0 /\ roff >= Len(source)
    BY Zenon, <1>0, <1>2 DEF aio_suspend
  <2> DEFINE U == {b \in DOMAIN bufs : bufs[b].op # "UNUSED"}
  <2>2. IsFiniteSet(0 .. NBUF - 1) /\ DOMAIN bufs = 0 .. NBUF - 1
    BY <1>0, FS_Interval, CopiesAssumption
  <2>3. U \in SUBSET (0 .. NBUF - 1)
    BY Zenon, <2>2
  <2>4. Cardinality(U) = 0
    BY Zenon, <2>1 DEF numop
  <2>5. U = {}
    <3> HIDE DEF U
    <3>1. IsFiniteSet(U)
      BY Zenon, <2>2, <2>3, FS_Subset
    <3> QED BY Zenon, <2>4, <3>1, FS_EmptySet
  <2>6. \A k : ~UnderWay(k)
    BY Zenon, <2>2, <2>5 DEF UnderWay
  <2>7. \A k \in 1 .. Len(source) : k <= roff
    BY <1>0, <2>1
  <2>8. 1 .. Len(source) \subseteq DOMAIN out
    BY Zenon, <1>0, <2>6, <2>7
  <2> QED BY Zenon, <1>0, <1>1, <2>8, NoBuffer
<1> QED BY Zenon, <1>0, <1>1, <1>2, NoBuffer

\* A request is finished by the kernel.
LEMMA DoneSteps ==
    ASSUME CopyTypes, AioInv, NEW b \in DOMAIN bufs, AioDone(b)
    PROVE  CopyTypes' /\ AioInv'
<1> DEFINE q == bufs[b]
<1>0. /\ cprog = "rot13c2" /\ UNCHANGED <<cprog, source, cpat, roff, scan>> /\ cpat = "read"
      /\ source \in Seq(Nat) /\ roff \in Nat /\ Right(out, Expected) /\ scan \in 0 .. NBUF
      /\ bufs \in [0 .. NBUF - 1 -> AioBuffer] /\ q.status = "EINPROGRESS"
      /\ \A c \in 0 .. NBUF - 1 : BufferOk(bufs[c], DOMAIN out)
  BY Zenon DEF AioDone, CopyTypes, AioInv
<1>1. b \in 0 .. NBUF - 1
  BY Zenon, <1>0
<1>2. q \in AioBuffer /\ BufferOk(q, DOMAIN out)
  BY Zenon, <1>0, <1>1
<1> HIDE DEF q
<1>3. q.op # "UNUSED" /\ q.offset < Len(source) /\ q.offset \in Nat
  BY Zenon, <1>0, <1>2 DEF BufferOk, AioBuffer
<1>4. ASSUME NEW r \in AioBuffer, bufs' = [bufs EXCEPT ![b] = r], r.op = q.op, r.offset = q.offset,
             Right(out', Expected), DOMAIN out \subseteq DOMAIN out', BufferOk(r, DOMAIN out')
      PROVE  CopyTypes' /\ AioInv'
  <2>1. Of(q) = Of(r)
    BY Zenon, <1>4, SameOf
  <2>2. \A k \in Of(bufs[b]) : k \in DOMAIN out' \/ (r.op # "UNUSED" /\ k \in Of(r))
    BY Zenon, <1>3, <1>4, <2>1 DEF q
  <2>3. roff' \in Nat /\ cpat' = "read" /\ scan' \in 0 .. NBUF /\ roff' = roff
    BY Zenon, <1>0
  <2>4. \A k \in 1 .. Len(source) : k <= roff' => k <= roff \/ (r.op # "UNUSED" /\ k \in Of(r))
    BY Zenon, <2>3
  <2> QED BY ZenonT(40), <1>0, <1>1, <1>4, <2>2, <2>3, <2>4, OneBuffer
<1>5. CASE bufs' = [bufs EXCEPT ![b].status = "error"] /\ UNCHANGED out
  <2> DEFINE r == [q EXCEPT !.status = "error"]
  <2>1. bufs' = [bufs EXCEPT ![b] = r]
    BY Zenon, <1>5 DEF q
  <2>2. r \in AioBuffer /\ r.op = q.op /\ r.offset = q.offset /\ r.status = "error" /\ r.data = q.data
    BY SMTT(40), <1>2 DEF AioBuffer
  <2> HIDE DEF r
  <2>3. BufferOk(r, DOMAIN out)
    BY Zenon, <1>2, <1>3, <2>2 DEF BufferOk
  <2> QED BY ZenonT(40), <1>0, <1>4, <1>5, <2>1, <2>2, <2>3
<1>6. CASE /\ q.op = "READ_PENDING" /\ UNCHANGED out
           /\ bufs' = [bufs EXCEPT ![b] = [@ EXCEPT !.status = "done", !.data = BlockAt(q.offset)]]
  <2> DEFINE r == [q EXCEPT !.status = "done", !.data = BlockAt(q.offset)]
  <2>1. bufs' = [bufs EXCEPT ![b] = r]
    BY Zenon, <1>6 DEF q
  <2>2. BlockAt(q.offset) \in Seq(Nat)
    BY Zenon, <1>0, <1>3, BlockIs
  <2>3. /\ r \in AioBuffer /\ r.op = q.op /\ r.offset = q.offset /\ r.status = "done"
        /\ r.data = BlockAt(q.offset)
    BY Zenon, <1>2, <2>2 DEF AioBuffer
  <2> HIDE DEF r
  <2>4. BufferOk(r, DOMAIN out)
    BY Zenon, <1>3, <1>6, <2>3 DEF BufferOk
  <2> QED BY Zenon, <1>0, <1>4, <1>6, <2>1, <2>3, <2>4
<1>7. ASSUME q.op = "WRITE_PENDING", NEW k \in 0 .. Len(q.data), out' = PutAt(out, q.offset, SubSeq(q.data, 1, k)),
             bufs' = [bufs EXCEPT ![b].status = IF k = Len(q.data) THEN "done" ELSE "short"]
      PROVE  CopyTypes' /\ AioInv'
  <2> DEFINE d == q.data
             o == q.offset
             st == IF k = Len(q.data) THEN "done" ELSE "short"
             r == [q EXCEPT !.status = st]
             s == SubSeq(d, 0 + 1, k)
  <2>1. /\ d = Translated(BlockAt(o)) /\ o < Len(source) /\ o \in Nat
    BY Zenon, <1>2, <1>3, <1>7 DEF BufferOk
  <2>2. Part(d, Expected, o) /\ Len(d) = Len(BlockAt(o))
    BY Zenon, <1>0, <2>1, BlockPart
  <2>3. bufs' = [bufs EXCEPT ![b] = r] /\ out' = PutAt(out, o, SubSeq(d, 1, k))
    BY Zenon, <1>7 DEF q
  <2>4. r \in AioBuffer /\ r.op = "WRITE_PENDING" /\ r.offset = o /\ r.status = st /\ r.data = d
    BY Zenon, <1>2, <1>7 DEF AioBuffer
  <2>5. st \in {"done", "short"} /\ (st = "done" => k = Len(d)) /\ k \in Nat /\ k <= Len(d) /\ 0 \in Nat /\ 0 <= k
    BY <2>2 DEF Part
  <2> HIDE DEF d, o, st, r
  <2>6. Expected \in Seq(Nat)
    BY Zenon, <1>0, ExpectedIs
  <2>7. d \in Seq(Nat)
    BY Zenon, <2>2 DEF Part
  <2>8. Part(s, Expected, o + 0) /\ Len(s) = k - 0
    <3>1. Part(s, Expected, o + 0)
      BY Zenon, <2>2, <2>5, <2>6, PartCut
    <3> QED BY Zenon, <2>5, <2>7, <3>1, CutLen
  <2>9. 0 + 1 = 1 /\ o + 0 = o /\ k - 0 = k
    BY <2>1, <2>5
  <2>10. Part(s, Expected, o) /\ Len(s) = k /\ out' = PutAt(out, o, s)
    BY Zenon, <2>3, <2>8, <2>9
  <2> HIDE DEF s
  <2>11. Right(out', Expected) /\ DOMAIN out' = DOMAIN out \cup (o + 1 .. o + k)
    BY Zenon, <1>0, <2>6, <2>10, PutKeeps, PutDomain
  <2>12. ASSUME st = "done" PROVE Of(r) \subseteq DOMAIN out'
    <3>1. Len(d) \in 1 .. BSZ /\ (Len(d) = BSZ \/ o + Len(d) = Len(source))
      BY Zenon, <1>0, <2>1, <2>2, BlockIs
    <3>2. ASSUME NEW i \in 1 .. Len(source), i > o, i <= o + BSZ PROVE i \in o + 1 .. o + k
      BY SMTT(40), <2>1, <2>5, <2>12, <3>1, <3>2, CopiesAssumption
    <3> QED BY Zenon, <2>4, <2>11, <3>2 DEF Of
  <2>13. BufferOk(r, DOMAIN out')
    BY Zenon, <2>1, <2>4, <2>5, <2>12 DEF BufferOk
  <2>14. r.op = q.op /\ r.offset = q.offset
    BY Zenon, <1>7, <2>4 DEF o
  <2> QED BY Zenon, <1>4, <2>3, <2>4, <2>11, <2>13, <2>14
<1> QED BY Zenon, <1>5, <1>6, <1>7 DEF AioDone, q

\* Every step keeps the invariant.
LEMMA CopySteps == CopyInv /\ [cpNext]_cpvars => CopyInv'
<1> SUFFICES ASSUME CopyInv, [cpNext]_cpvars PROVE CopyInv'
  BY Zenon
<1>0. CopyTypes /\ PrintInv /\ NonblockInv /\ BlocksInv /\ AioInv
  BY Zenon DEF CopyInv
<1>1. CASE writen \/ PrintMain \/ PrintConnect \/ submit_file \/ ServerAnswers \/ readn
  <2>1. cprog = "print" /\ UNCHANGED <<cprog, source>>
    BY Zenon, <1>1 DEF writen, PrintMain, PrintConnect, submit_file, ServerAnswers, readn
  <2>2. CopyTypes' /\ PrintInv'
    BY Zenon, <1>0, <1>1, <2>1, PrintSteps
  <2>3. NonblockInv' /\ BlocksInv' /\ AioInv'
    BY Zenon, <2>1 DEF NonblockInv, BlocksInv, AioInv
  <2> QED BY Zenon, <2>2, <2>3 DEF CopyInv
<1>2. CASE nonblockw
  <2>1. cprog = "nonblockw" /\ UNCHANGED <<cprog, source>>
    BY Zenon, <1>2 DEF nonblockw
  <2>2. CopyTypes' /\ NonblockInv'
    BY Zenon, <1>0, <1>2, <2>1, NonblockSteps
  <2>3. PrintInv' /\ BlocksInv' /\ AioInv'
    BY Zenon, <2>1 DEF PrintInv, BlocksInv, AioInv
  <2> QED BY Zenon, <2>2, <2>3 DEF CopyInv
<1>3. CASE rot13a \/ mcopy2
  <2>1. cprog \in {"rot13a", "mcopy2"} /\ UNCHANGED <<cprog, source>>
    BY Zenon, <1>3 DEF rot13a, mcopy2
  <2>2. CopyTypes' /\ BlocksInv'
    BY Zenon, <1>0, <1>3, <2>1, BlocksSteps
  <2>3. PrintInv' /\ NonblockInv' /\ AioInv'
    BY Zenon, <2>1 DEF PrintInv, NonblockInv, AioInv
  <2> QED BY Zenon, <2>2, <2>3 DEF CopyInv
<1>4. CASE ScanBuffers \/ aio_suspend \/ \E b \in DOMAIN bufs : AioDone(b)
  <2>1. cprog = "rot13c2" /\ UNCHANGED <<cprog, source>>
    BY Zenon, <1>4 DEF ScanBuffers, aio_suspend, AioDone
  <2>2. CopyTypes' /\ AioInv'
    BY Zenon, <1>0, <1>4, ScanSteps, SuspendSteps, DoneSteps
  <2>3. PrintInv' /\ NonblockInv' /\ BlocksInv'
    BY Zenon, <2>1 DEF PrintInv, NonblockInv, BlocksInv
  <2> QED BY Zenon, <2>2, <2>3 DEF CopyInv
<1>5. CASE UNCHANGED cpvars
  <2>1. /\ UNCHANGED <<cprog, source, cpat, roff, blk, left, out>>
        /\ UNCHANGED <<bufs, scan, answer>>
    BY Zenon, <1>5 DEF cpvars
  <2>2. Expected' = Expected
    BY Zenon, <2>1, SameExpected
  <2>3. CopyTypes' /\ NonblockInv' /\ BlocksInv'
    BY Zenon, <1>0, <2>1, <2>2 DEF CopyTypes, NonblockInv, BlocksInv
  <2>4. PrintInv'
    BY Zenon, <1>0, <2>1, <2>2 DEF PrintInv
  <2>5. AioInv'
    BY ZenonT(40), <1>0, <2>1 DEF AioInv, BufferOk, UnderWay, Of, BlockAt, Translated
  <2> QED BY Zenon, <2>3, <2>4, <2>5 DEF CopyInv
<1> QED BY Zenon, <1>1, <1>2, <1>3, <1>4, <1>5 DEF cpNext

\* The initial states.
LEMMA CopyBegins == cpInit => CopyInv
<1> SUFFICES ASSUME cpInit PROVE CopyInv
  BY Zenon
<1> DEFINE progs == {"print", "rot13a", "rot13c2", "nonblockw", "mcopy2"}
<1>1. cprog \in progs /\ roff = 0 /\ out = << >> /\ cpat = Begin(cprog)
  BY Zenon DEF cpInit, cpInitOf
<1>2. source \in Seq(Nat)
  <2>1. PICK n \in 0 .. Len(InputData) : source = SubSeq(InputData, 1, n)
    BY Zenon DEF cpInit, cpInitOf
  <2>2. InputData \in Seq(0 .. 255)
    BY Zenon, CopiesAssumption
  <2>3. InputData \in Seq(Nat)
    <3>1. ASSUME NEW S, NEW T, S \subseteq T, NEW s \in Seq(S) PROVE s \in Seq(T)
      BY <3>1
    <3>2. 0 .. 255 \subseteq Nat
      OBVIOUS
    <3> QED BY ZenonT(40), <2>2, <3>1, <3>2
  <2>4. ASSUME NEW S, NEW s \in Seq(S), NEW m \in 0 .. Len(s) PROVE SubSeq(s, 1, m) \in Seq(S)
    OBVIOUS
  <2> QED BY Zenon, <2>1, <2>3, <2>4
<1>3. DOMAIN out = {} /\ DOMAIN out = 1 .. 0 /\ Len(source) \in Nat
  BY <1>1, <1>2
<1>4. CopyTypes
  BY Zenon, <1>1, <1>2, <1>3 DEF CopyTypes, Right
<1>5. PrintInv
  <2>1. cprog = "print" => cpat = "main"
    BY Zenon, <1>1 DEF Begin
  <2> QED BY Zenon, <1>1, <1>3, <2>1 DEF PrintInv
<1>6. NonblockInv
  <2>1. cprog = "nonblockw" => cpat = "write" /\ blk = source /\ left = Len(blk)
    BY Zenon, <1>1 DEF Begin, cpInit, cpInitOf
  <2> QED BY <1>3, <2>1 DEF NonblockInv
<1>7. cprog \notin {"print", "nonblockw"} => cpat = "read"
  BY Zenon, <1>1 DEF Begin
<1>8. BlocksInv
  <2>1. roff <= Len(source) /\ DOMAIN out = 1 .. roff
    BY <1>1, <1>3
  <2> QED BY Zenon, <1>7, <2>1 DEF BlocksInv
<1>9. AioInv
  <2>1. << >> \in Seq(Nat)
    OBVIOUS
  <2>2. UnusedBuf \in AioBuffer /\ UnusedBuf.op = "UNUSED" /\ UnusedBuf.status = "none"
    BY Zenon, <2>1 DEF UnusedBuf, AioBuffer
  <2>3. /\ bufs \in [0 .. NBUF - 1 -> AioBuffer] /\ scan = 0
        /\ \A b \in 0 .. NBUF - 1 : bufs[b] = UnusedBuf
    BY Zenon, <2>2 DEF cpInit, cpInitOf
  <2>4. BufferOk(UnusedBuf, DOMAIN out)
    BY Zenon, <2>2 DEF BufferOk
  <2>5. scan \in 0 .. NBUF /\ \A k \in 1 .. Len(source) : ~(k <= roff)
    BY SMTT(40), <1>1, <1>2, <2>3, CopiesAssumption
  <2> QED BY Zenon, <1>7, <2>3, <2>4, <2>5 DEF AioInv
<1> QED BY Zenon, <1>4, <1>5, <1>6, <1>8, <1>9 DEF CopyInv

\* Every byte of the output is right at every moment, and the output is
\* complete when a program exits with status 0, for every input, size of the
\* buffers and number of requests under way, and in whatever order, in whatever
\* parts and with whatever errors the kernel finishes them.
THEOREM CopiesAreExact == cpSpec => []CopyIsExact
<1>1. CopyInv => CopyIsExact
  <2> SUFFICES ASSUME CopyInv PROVE CopyIsExact
    BY Zenon
  <2>0. CopyTypes /\ PrintInv /\ NonblockInv /\ BlocksInv /\ AioInv
    BY Zenon DEF CopyInv
  <2>1. Expected \in Seq(Nat) /\ source \in Seq(Nat)
    BY Zenon, <2>0, ExpectedIs DEF CopyTypes
  <2>2. /\ cprog = "print" => Len(Expected) = 2 + Len(source)
        /\ cprog \in {"rot13a", "rot13c2"} => Len(Expected) = Len(source)
        /\ cprog \in {"nonblockw", "mcopy2"} => Expected = source
    BY Zenon, <2>1, ExpectedIs
  <2>3. DOMAIN Expected = 1 .. Len(Expected) /\ Len(source) \in Nat
    BY <2>1
  <2>4. \A k \in DOMAIN out : k \in 1 .. Len(Expected) /\ out[k] = Expected[k]
    BY Zenon, <2>0 DEF CopyTypes, Right
  <2>5. ASSUME cpat = "exit 0" PROVE DOMAIN out = 1 .. Len(Expected) /\ (cprog = "print" => answer = "job ID")
    <3>1. CASE cprog = "print"
      BY Zenon, <2>0, <2>2, <2>5, <3>1 DEF PrintInv
    <3>2. CASE cprog = "nonblockw"
      <4>1. blk = source /\ DOMAIN out = 1 .. 0 + Len(blk) - left /\ left = 0 /\ Expected = source
        BY Zenon, <2>0, <2>2, <2>5, <3>2 DEF NonblockInv
      <4>2. 0 + Len(source) - 0 = Len(source)
        BY <2>3
      <4> QED BY Zenon, <3>2, <4>1, <4>2
    <3>3. CASE cprog \in {"rot13a", "mcopy2"}
      BY Zenon, <2>0, <2>2, <2>5, <3>3 DEF BlocksInv
    <3>4. CASE cprog = "rot13c2"
      <4>1. 1 .. Len(source) \subseteq DOMAIN out /\ Len(Expected) = Len(source)
        BY Zenon, <2>0, <2>2, <2>5, <3>4 DEF AioInv
      <4>2. DOMAIN out \subseteq 1 .. Len(Expected)
        BY Zenon, <2>4
      <4>3. DOMAIN out = 1 .. Len(Expected)
        BY Zenon, <4>1, <4>2
      <4> QED BY Zenon, <3>4, <4>3
    <3> QED BY Zenon, <2>0, <3>1, <3>2, <3>3, <3>4 DEF CopyTypes
  <2>6. \A k \in DOMAIN out : k <= Len(Expected)
    BY <2>1, <2>4
  <2> QED BY Zenon, <2>3, <2>4, <2>5, <2>6 DEF CopyIsExact
<1> QED BY <1>1, CopyBegins, CopySteps, PTL DEF cpSpec

-----------------------------------------------------------------------------
\* What a program writes on a pseudo terminal (pty) and what the programs that
\* copy write (print, nonblockw, mcopy2, rot13a, rot13c2) is kept, for any
\* input, any sizes of the buffers and any number of them: no byte is lost,
\* doubled or out of its place.
THEOREM OutputKept == ptSpec /\ cpSpec => []OutputIsKept
BY PtyKeepsOutput, CopiesAreExact, PTL DEF OutputIsKept

\* pty, tty_raw and tty_cbreak leave the terminal as they found it, on an error
\* and on a signal as well.
THEOREM TerminalKept == ptSpec /\ ttSpec => []TerminalIsKept
BY PtyRestoresTerminal, RawLeavesTerminal, PTL DEF TerminalIsKept
=============================================================================
