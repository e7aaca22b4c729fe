--------------------------- MODULE ProgramProofs ----------------------------
(***************************************************************************)
(* Proofs about four programs, for any number of copies, threads, edits,   *)
(* signals and names, any clock and every set of sizes, types and bytes:   *)
(* OneDaemon (Daemons), RetryIsTimely and EnvironmentIsOwn (ThreadCtl),    *)
(* HupIsHonoured (PrintSignals) and StreamIsFile (MemStream).              *)
(***************************************************************************)
EXTENDS Daemons, ThreadCtl, PrintSignals, MemStream, TLAPS

-----------------------------------------------------------------------------
(***************************************************************************)
(* Daemons: the calls a program has made say what it has.                  *)
(***************************************************************************)
(***************************************************************************)
(* The calls a program has made say what it has and what it has given up:  *)
(* its terminal after setsid (2), the lead of its session after the second *)
(* fork (4), its descriptors (7), the lock (9) and the file (11).          *)
(***************************************************************************)
Has(d) ==
    /\ gen[d] >= 1
    /\ done[d] >= 2 => ~ctty[d]
    /\ done[d] >= 4 => ~leader[d]
    /\ done[d] >= 7 => dfds[d] = "/dev/null"
    /\ done[d] >= 9 => locker = Self(d)
    /\ done[d] >= 11 => pidfile = Self(d)

\* The types of the variables.
DaemonTypes ==
    /\ done \in [Copy -> Off .. Len(Main)] /\ gen \in [Copy -> Nat]
    /\ leader \in [Copy -> BOOLEAN] /\ ctty \in [Copy -> BOOLEAN]
    /\ dfds \in [Copy -> {"inherited", "closed", "/dev/null"}]

\* The inductive invariant.
DaemonInv == DaemonTypes /\ \A d \in Copy : done[d] # Off => Has(d)

\* The calls the two programs make.
Call == {"fork", "setsid", "ignore HUP", "chdir", "close all", "attach", "open", "lockfile",
         "ftruncate", "write", "default HUP", "block all", "create thread", "catch TERM", "catch HUP"}

\* One list of calls after another.
LEMMA Concat ==
    ASSUME NEW s \in Seq(Call), NEW t \in Seq(Call)
    PROVE  /\ s \o t \in Seq(Call) /\ Len(s \o t) = Len(s) + Len(t)
           /\ \A i \in 1 .. Len(s) : (s \o t)[i] = s[i]
           /\ \A i \in 1 .. Len(t) : (s \o t)[Len(s) + i] = t[i]
  OBVIOUS

\* The lists of calls are lists.
LEMMA Lists ==
    /\ daemonize \in Seq(Call) /\ already_running \in Seq(Call)
    /\ daemonize \o already_running \in Seq(Call)
    /\ <<"default HUP", "block all", "create thread">> \in Seq(Call)
    /\ <<"catch TERM", "catch HUP">> \in Seq(Call)
  <1>1. daemonize \in Seq(Call) /\ already_running \in Seq(Call)
    BY DEF daemonize, already_running, Call
  <1>2. /\ <<"default HUP", "block all", "create thread">> \in Seq(Call)
        /\ <<"catch TERM", "catch HUP">> \in Seq(Call)
    BY DEF Call
  <1> QED BY Zenon, <1>1, <1>2, Concat

\* Places of a list of at most 14 calls.
LEMMA Places ==
    /\ 1 .. 7 = {1, 2, 3, 4, 5, 6, 7}
    /\ 1 .. 4 = {1, 2, 3, 4} /\ 1 .. 3 = {1, 2, 3} /\ 1 .. 2 = {1, 2}
    /\ 1 .. 11 = {1, 2, 3, 4, 5, 6, 7, 8, 9, 10, 11}
    /\ 7 + 1 = 8 /\ 7 + 2 = 9 /\ 7 + 3 = 10 /\ 7 + 4 = 11
  OBVIOUS

\* daemonize and already_running, call by call.
LEMMA FirstCalls ==
    LET m == daemonize \o already_running
    IN  /\ Len(m) = 11
        /\ m[1] = "fork" /\ m[2] = "setsid" /\ m[3] = "ignore HUP" /\ m[4] = "fork"
        /\ m[5] = "chdir" /\ m[6] = "close all" /\ m[7] = "attach"
        /\ m[8] = "open" /\ m[9] = "lockfile" /\ m[10] = "ftruncate" /\ m[11] = "write"
  <1> DEFINE m == daemonize \o already_running
  <1>1. Len(daemonize) = 7 /\ Len(already_running) = 4
    BY Zenon DEF daemonize, already_running
  <1>2. /\ daemonize[1] = "fork" /\ daemonize[2] = "setsid" /\ daemonize[3] = "ignore HUP"
        /\ daemonize[4] = "fork" /\ daemonize[5] = "chdir" /\ daemonize[6] = "close all"
        /\ daemonize[7] = "attach"
    BY Zenon DEF daemonize
  <1>3. /\ already_running[1] = "open" /\ already_running[2] = "lockfile"
        /\ already_running[3] = "ftruncate" /\ already_running[4] = "write"
    BY Zenon DEF already_running
  <1>4. /\ Len(m) = Len(daemonize) + Len(already_running)
        /\ \A i \in 1 .. Len(daemonize) : m[i] = daemonize[i]
        /\ \A i \in 1 .. Len(already_running) : m[Len(daemonize) + i] = already_running[i]
    BY Zenon, Lists, Concat
  <1> HIDE DEF m
  <1>5. /\ Len(m) = 11
        /\ \A i \in 1 .. 7 : m[i] = daemonize[i]
        /\ \A i \in 1 .. 4 : m[7 + i] = already_running[i]
    BY <1>1, <1>4
  <1>6. /\ m[1] = "fork" /\ m[2] = "setsid" /\ m[3] = "ignore HUP" /\ m[4] = "fork"
        /\ m[5] = "chdir" /\ m[6] = "close all" /\ m[7] = "attach"
    BY Zenon, <1>2, <1>5, Places
  <1>7. m[8] = "open" /\ m[9] = "lockfile" /\ m[10] = "ftruncate" /\ m[11] = "write"
    BY ZenonT(40), <1>3, <1>5, Places
  <1>8. Len(m) = 11
    BY Zenon, <1>5
  <1> QED BY Zenon, <1>6, <1>7, <1>8 DEF m

\* What a program does after the first eleven calls.
LastCalls == {"default HUP", "block all", "create thread", "catch TERM", "catch HUP"}

\* The calls of main, which differ only after the first eleven.
LEMMA MainCalls ==
    /\ Len(Main) \in {13, 14}
    /\ Main[1] = "fork" /\ Main[2] = "setsid" /\ Main[3] = "ignore HUP" /\ Main[4] = "fork"
    /\ Main[5] = "chdir" /\ Main[6] = "close all" /\ Main[7] = "attach"
    /\ Main[8] = "open" /\ Main[9] = "lockfile" /\ Main[10] = "ftruncate" /\ Main[11] = "write"
    /\ \A i \in 12 .. Len(Main) : Main[i] \in LastCalls
  <1> DEFINE first == daemonize \o already_running
             last1 == <<"default HUP", "block all", "create thread">>
             last2 == <<"catch TERM", "catch HUP">>
             m == Main
  <1>1. PICK last :
           /\ last \in {last1, last2} /\ last \in Seq(Call)
           /\ Main = first \o last
    BY Zenon, Lists DEF Main, reread_main, reread2_main
  <1>2. Len(last1) = 3 /\ Len(last2) = 2 /\ last1[1] \in LastCalls /\ last1[2] \in LastCalls
        /\ last1[3] \in LastCalls /\ last2[1] \in LastCalls /\ last2[2] \in LastCalls
    BY Zenon DEF LastCalls
  <1>3. Len(first) = 11
    BY Zenon, FirstCalls
  <1>4. /\ first[1] = "fork" /\ first[2] = "setsid" /\ first[3] = "ignore HUP" /\ first[4] = "fork"
        /\ first[5] = "chdir" /\ first[6] = "close all" /\ first[7] = "attach"
        /\ first[8] = "open" /\ first[9] = "lockfile" /\ first[10] = "ftruncate" /\ first[11] = "write"
    BY Zenon, FirstCalls
  <1>a. first \in Seq(Call)
    BY Zenon, Lists
  <1> HIDE DEF first, last1, last2, m
  <1>5. /\ Len(m) = Len(first) + Len(last)
        /\ \A i \in 1 .. Len(first) : m[i] = first[i]
        /\ \A i \in 1 .. Len(last) : m[Len(first) + i] = last[i]
    BY Zenon, <1>1, <1>a, Concat DEF m
  <1>6. \A i \in 1 .. Len(last) : last[i] \in LastCalls
    BY ZenonT(40), <1>1, <1>2, Places
  <1>7. Len(last) \in {2, 3}
    BY Zenon, <1>1, <1>2
  <1>8. /\ Len(m) = 11 + Len(last)
        /\ \A i \in 1 .. 11 : m[i] = first[i]
        /\ \A i \in 1 .. Len(last) : m[11 + i] = last[i]
    BY Zenon, <1>3, <1>5
  <1>9. Len(m) \in {13, 14} /\ Len(m) = 11 + Len(last)
    <2>1. Len(m) = 11 + Len(last)
      BY Zenon, <1>8
    <2>2. \A n \in {2, 3} : 11 + n \in {13, 14}
      OBVIOUS
    <2> QED BY Zenon, <1>7, <2>1, <2>2
  <1>10. \A i \in 12 .. Len(m) : i - 11 \in 1 .. Len(last) /\ i = 11 + (i - 11)
    BY <1>7, <1>9
  <1>11. \A i \in 12 .. Len(m) : m[i] \in LastCalls
    BY Zenon, <1>6, <1>8, <1>10
  <1>12. /\ m[1] = "fork" /\ m[2] = "setsid" /\ m[3] = "ignore HUP" /\ m[4] = "fork"
         /\ m[5] = "chdir" /\ m[6] = "close all" /\ m[7] = "attach"
         /\ m[8] = "open" /\ m[9] = "lockfile" /\ m[10] = "ftruncate" /\ m[11] = "write"
    BY ZenonT(40), <1>4, <1>8, Places
  <1> QED BY Zenon, <1>9, <1>11, <1>12 DEF m

\* Where each call is in the two programs.
LEMMA Order ==
    ASSUME NEW d
    PROVE  /\ Calls(d, "fork") => done[d] \in {0, 3}
           /\ Calls(d, "setsid") => done[d] = 1
           /\ Calls(d, "ignore HUP") => done[d] = 2
           /\ Calls(d, "chdir") => done[d] = 4
           /\ Calls(d, "close all") => done[d] = 5
           /\ Calls(d, "attach") => done[d] = 6
           /\ Calls(d, "open") => done[d] = 7
           /\ Calls(d, "lockfile") => done[d] = 8
           /\ Calls(d, "ftruncate") => done[d] = 9
           /\ Calls(d, "write") => done[d] = 10
           /\ \A c \in LastCalls : Calls(d, c) => done[d] >= 11
  <1>1. \A c : Calls(d, c) => done[d] \in 0 .. Len(Main) - 1 /\ Main[done[d] + 1] = c
    BY Zenon DEF Calls
  <1>2. Len(Main) \in {13, 14}
    BY Zenon, MainCalls
  <1>3. done[d] \in 0 .. Len(Main) - 1 =>
           \/ done[d] = 0 \/ done[d] = 1 \/ done[d] = 2 \/ done[d] = 3 \/ done[d] = 4 \/ done[d] = 5
           \/ done[d] = 6 \/ done[d] = 7 \/ done[d] = 8 \/ done[d] = 9 \/ done[d] = 10
           \/ (done[d] >= 11 /\ done[d] + 1 \in 12 .. Len(Main))
    BY SMTT(40), <1>2
  <1>4. /\ 0 + 1 = 1 /\ 1 + 1 = 2 /\ 2 + 1 = 3 /\ 3 + 1 = 4 /\ 4 + 1 = 5 /\ 5 + 1 = 6
        /\ 6 + 1 = 7 /\ 7 + 1 = 8 /\ 8 + 1 = 9 /\ 9 + 1 = 10 /\ 10 + 1 = 11
    OBVIOUS
  <1>5. ASSUME NEW c, Calls(d, c)
        PROVE  \/ c = "fork" /\ done[d] \in {0, 3}
               \/ c = "setsid" /\ done[d] = 1
               \/ c = "ignore HUP" /\ done[d] = 2
               \/ c = "chdir" /\ done[d] = 4
               \/ c = "close all" /\ done[d] = 5
               \/ c = "attach" /\ done[d] = 6
               \/ c = "open" /\ done[d] = 7
               \/ c = "lockfile" /\ done[d] = 8
               \/ c = "ftruncate" /\ done[d] = 9
               \/ c = "write" /\ done[d] = 10
               \/ c \in LastCalls /\ done[d] >= 11
    <2> DEFINE n == done[d]
    <2>1. n \in 0 .. Len(Main) - 1 /\ c = Main[n + 1]
      BY Zenon, <1>1, <1>5
    <2>2. CASE n \in {0, 1, 2, 3, 4, 5}
      BY ZenonT(40), <1>4, <2>1, <2>2, MainCalls
    <2>3. CASE n \in {6, 7, 8, 9, 10}
      BY ZenonT(40), <1>4, <2>1, <2>3, MainCalls
    <2>4. CASE n >= 11 /\ n + 1 \in 12 .. Len(Main)
      BY Zenon, <2>1, <2>4, MainCalls
    <2> QED BY ZenonT(40), <1>3, <2>1, <2>2, <2>3, <2>4
  <1>6. \A c \in LastCalls : c \notin {"fork", "setsid", "ignore HUP", "chdir", "close all", "attach",
                                       "open", "lockfile", "ftruncate", "write"}
    BY Zenon DEF LastCalls
  <1>7. /\ Calls(d, "fork") => done[d] \in {0, 3}
        /\ Calls(d, "setsid") => done[d] = 1
        /\ Calls(d, "ignore HUP") => done[d] = 2
        /\ Calls(d, "chdir") => done[d] = 4
    BY Zenon, <1>5, <1>6
  <1>8. /\ Calls(d, "close all") => done[d] = 5
        /\ Calls(d, "attach") => done[d] = 6
        /\ Calls(d, "open") => done[d] = 7
        /\ Calls(d, "lockfile") => done[d] = 8
    BY Zenon, <1>5, <1>6
  <1>9. /\ Calls(d, "ftruncate") => done[d] = 9
        /\ Calls(d, "write") => done[d] = 10
        /\ \A c \in LastCalls : Calls(d, c) => done[d] >= 11
    BY Zenon, <1>5, <1>6
  <1> QED BY Zenon, <1>7, <1>8, <1>9
\* The other copies are as they were, and with them the lock, unless it is
\* free or belongs to this copy, and the file, unless this copy has the lock.
Alone(d) ==
    /\ \A e \in Copy \ {d} : /\ done'[e] = done[e] /\ gen'[e] = gen[e]
                             /\ leader'[e] = leader[e] /\ ctty'[e] = ctty[e] /\ dfds'[e] = dfds[e]
    /\ locker' = locker \/ locker \in {NoProc, Self(d)}
    /\ pidfile' = pidfile \/ locker = Self(d)

\* A step of one copy takes nothing from the others.
LEMMA OthersKeep ==
    ASSUME DaemonInv, NEW d \in Copy, Alone(d), NEW e \in Copy \ {d}, done'[e] # Off
    PROVE  Has(e)'
  <1>1. done[e] # Off /\ Has(e)
    BY Zenon DEF DaemonInv, Alone
  <1>2. Self(e)' = Self(e) /\ Self(e) # Self(d)
    BY Zenon DEF Alone, Self
  <1>3. Self(e) # NoProc
    BY <1>1 DEF Self, NoProc, Has
  <1>4. done[e] >= 9 => locker' = locker
    BY Zenon, <1>1, <1>2, <1>3 DEF Has, Alone
  <1>5. done[e] >= 11 => done[e] >= 9
    BY DEF DaemonInv, DaemonTypes
  <1>6. done[e] >= 11 => pidfile' = pidfile
    BY Zenon, <1>1, <1>2, <1>3, <1>5 DEF Has, Alone
  <1> QED BY Zenon, <1>1, <1>2, <1>4, <1>6 DEF Has, Alone

\* So an invariant step is one that keeps the types and what its own copy has.
LEMMA OneStep ==
    ASSUME DaemonInv, NEW d \in Copy, Alone(d), DaemonTypes', done'[d] # Off => Has(d)'
    PROVE  DaemonInv'
  BY Zenon, OthersKeep DEF DaemonInv

\* The end of a copy.
LEMMA EndStep ==
    ASSUME DaemonInv, NEW d \in Copy, dmEnds(d)
    PROVE  DaemonInv'
  <1>1. /\ done' = [done EXCEPT ![d] = Off] /\ locker' = IF locker = Self(d) THEN NoProc ELSE locker
        /\ UNCHANGED <<dmprog, gen, leader, ctty, dfds, pidfile>>
    BY Zenon DEF dmEnds, Unlocked, session
  <1>2. Len(Main)' = Len(Main) /\ Len(Main) \in {13, 14}
    BY Zenon, <1>1, MainCalls DEF Main
  <1>3. DaemonTypes'
    BY <1>1, <1>2 DEF DaemonInv, DaemonTypes, Off
  <1>4. Alone(d)
    BY Zenon, <1>1 DEF DaemonInv, DaemonTypes, Alone
  <1>5. done'[d] = Off
    BY Zenon, <1>1 DEF DaemonInv, DaemonTypes
  <1> QED BY Zenon, <1>3, <1>4, <1>5, OneStep

\* The start of a copy.
LEMMA StartStep ==
    ASSUME DaemonInv, NEW d \in Copy, Start(d)
    PROVE  DaemonInv'
  <1>1. /\ done' = [done EXCEPT ![d] = 0] /\ gen' = [gen EXCEPT ![d] = @ + 1]
        /\ leader' = [leader EXCEPT ![d] = FALSE] /\ ctty' = [ctty EXCEPT ![d] = TRUE]
        /\ dfds' = [dfds EXCEPT ![d] = "inherited"]
        /\ UNCHANGED <<dmprog, locker, pidfile>>
    BY Zenon DEF Start
  <1>2. Len(Main)' = Len(Main) /\ Len(Main) \in {13, 14}
    BY Zenon, <1>1, MainCalls DEF Main
  <1>3. DaemonTypes'
    BY <1>1, <1>2 DEF DaemonInv, DaemonTypes, Off
  <1>4. Alone(d)
    BY Zenon, <1>1 DEF DaemonInv, DaemonTypes, Alone
  <1>5. done'[d] = 0 /\ gen'[d] >= 1
    BY <1>1 DEF DaemonInv, DaemonTypes
  <1>6. Has(d)'
    BY <1>5 DEF Has
  <1> QED BY Zenon, <1>3, <1>4, <1>6, OneStep

\* The count of the calls goes up by one.
LEMMA CallStep ==
    ASSUME DaemonInv, NEW d \in Copy, NEW c, Calls(d, c), Called(d), UNCHANGED dmprog
    PROVE  /\ done[d] \in Nat /\ done'[d] = done[d] + 1 /\ Has(d)
           /\ done' \in [Copy -> Off .. Len(Main)] /\ Len(Main)' = Len(Main)
           /\ \A e \in Copy \ {d} : done'[e] = done[e]
  <1>1. Len(Main)' = Len(Main) /\ Len(Main) \in {13, 14}
    BY Zenon, MainCalls DEF Main
  <1>2. done[d] \in 0 .. Len(Main) - 1 /\ done' = [done EXCEPT ![d] = @ + 1]
    BY Zenon DEF Calls, Called
  <1>3. done[d] \in Nat /\ done[d] + 1 \in Off .. Len(Main) /\ done[d] # Off
    BY <1>1, <1>2 DEF Off
  <1>4. done \in [Copy -> Off .. Len(Main)]
    BY Zenon DEF DaemonInv, DaemonTypes
  <1>5. Has(d)
    BY Zenon, <1>3 DEF DaemonInv
  <1> QED BY Zenon, <1>1, <1>2, <1>3, <1>4, <1>5

\* A call that leaves the terminal, the session, the lock and the file alone.
LEMMA OtherCall ==
    ASSUME DaemonInv, NEW d \in Copy, NEW c, Calls(d, c), Called(d),
           done[d] \in {2, 4, 7} \/ done[d] >= 11,
           UNCHANGED <<dmprog, gen, leader, ctty, dfds, locker, pidfile>>
    PROVE  DaemonInv'
  <1>1. /\ done[d] \in Nat /\ done'[d] = done[d] + 1 /\ Has(d)
        /\ done' \in [Copy -> Off .. Len(Main)] /\ Len(Main)' = Len(Main)
        /\ \A e \in Copy \ {d} : done'[e] = done[e]
    BY Zenon, CallStep
  <1>2. DaemonTypes'
    BY Zenon, <1>1 DEF DaemonInv, DaemonTypes
  <1>3. Alone(d)
    BY Zenon, <1>1 DEF Alone
  <1>4. Has(d)'
    BY SMTT(30), <1>1 DEF Has, Self
  <1> QED BY Zenon, <1>2, <1>3, <1>4, OneStep

\* The calls of daemonize that change the process: both forks, setsid, and
\* what is done to the descriptors.
LEMMA DaemonizeStep ==
    ASSUME DaemonInv, NEW d \in Copy,
           Forks(d) \/ SetSid(d) \/ CloseAll(d) \/ Attach(d)
    PROVE  DaemonInv'
  <1> USE DEF session
  <1>1. PICK c : Calls(d, c) /\ Called(d) /\ UNCHANGED <<dmprog, pidfile>>
    BY Zenon DEF Forks, SetSid, CloseAll, Attach
  <1>2. /\ done[d] \in Nat /\ done'[d] = done[d] + 1 /\ Has(d)
        /\ done' \in [Copy -> Off .. Len(Main)] /\ Len(Main)' = Len(Main)
        /\ \A e \in Copy \ {d} : done'[e] = done[e]
    BY Zenon, <1>1, CallStep
  <1>3. /\ locker' = locker \/ locker = Self(d)
        /\ gen' = gen \/ gen' = [gen EXCEPT ![d] = @ + 1]
        /\ leader' = leader \/ leader' = [leader EXCEPT ![d] = TRUE] \/ leader' = [leader EXCEPT ![d] = FALSE]
        /\ ctty' = ctty \/ ctty' = [ctty EXCEPT ![d] = FALSE]
        /\ dfds' = dfds \/ dfds' = [dfds EXCEPT ![d] = "closed"] \/ dfds' = [dfds EXCEPT ![d] = "/dev/null"]
    BY Zenon DEF Forks, SetSid, CloseAll, Attach, Unlocked
  <1>4. DaemonTypes'
    <2>1. leader' \in [Copy -> BOOLEAN] /\ ctty' \in [Copy -> BOOLEAN]
      BY Zenon, <1>3 DEF DaemonInv, DaemonTypes
    <2>2. gen' \in [Copy -> Nat]
      BY SMTT(40), <1>3 DEF DaemonInv, DaemonTypes
    <2>3. dfds' \in [Copy -> {"inherited", "closed", "/dev/null"}]
      BY Zenon, <1>3 DEF DaemonInv, DaemonTypes
    <2> QED BY Zenon, <1>2, <2>1, <2>2, <2>3 DEF DaemonTypes
  <1>5. Alone(d)
    BY <1>1, <1>2, <1>3 DEF DaemonInv, DaemonTypes, Alone
  <1>6. gen'[d] >= 1
    BY <1>2, <1>3 DEF DaemonInv, DaemonTypes, Has
  <1>7. Has(d)'
    <2>1. CASE Forks(d)
      <3>1. done[d] \in {0, 3} /\ leader'[d] = FALSE /\ ctty' = ctty
        BY ZenonT(30), <2>1, Order DEF Forks, DaemonInv, DaemonTypes
      <3> QED BY <1>2, <1>6, <3>1 DEF Has
    <2>2. CASE SetSid(d)
      <3>1. done[d] = 1 /\ ctty'[d] = FALSE
        BY Zenon, <2>2, Order DEF SetSid, DaemonInv, DaemonTypes
      <3> QED BY <1>2, <1>6, <3>1 DEF Has
    <2>3. CASE CloseAll(d)
      <3>1. done[d] = 5 /\ leader' = leader /\ ctty' = ctty
        BY Zenon, <2>3, Order DEF CloseAll
      <3> QED BY <1>2, <1>6, <3>1 DEF Has
    <2>4. CASE Attach(d)
      <3>1. done[d] = 6 /\ leader' = leader /\ ctty' = ctty /\ dfds'[d] = "/dev/null"
        BY Zenon, <2>4, Order DEF Attach, DaemonInv, DaemonTypes
      <3> QED BY <1>2, <1>6, <3>1 DEF Has
    <2> QED BY ZenonT(30), <2>1, <2>2, <2>3, <2>4
  <1> QED BY Zenon, <1>4, <1>5, <1>7, OneStep

\* The calls of already_running after it has opened the file.
LEMMA RunningStep ==
    ASSUME DaemonInv, NEW d \in Copy, lockfile(d) \/ Truncate(d) \/ WritePid(d)
    PROVE  DaemonInv'
  <1> USE DEF session
  <1>1. CASE ~ Called(d)
    BY Zenon, <1>1, EndStep DEF lockfile, Truncate, WritePid
  <1>2. CASE Called(d)
    <2>1. PICK c : Calls(d, c)
      BY Zenon DEF lockfile, Truncate, WritePid
    <2>a. done'[d] # Off
      <3>1. done[d] \in {8, 9, 10}
        BY Zenon, Order DEF lockfile, Truncate, WritePid
      <3> QED BY <3>1, <1>2 DEF Called, DaemonInv, DaemonTypes, Off
    <2>2. UNCHANGED <<dmprog, gen, leader, ctty, dfds>>
      BY Zenon DEF lockfile, Truncate, WritePid, dmEnds
    <2>3. /\ done[d] \in Nat /\ done'[d] = done[d] + 1 /\ Has(d)
          /\ done' \in [Copy -> Off .. Len(Main)] /\ Len(Main)' = Len(Main)
          /\ \A e \in Copy \ {d} : done'[e] = done[e]
      BY Zenon, <1>2, <2>1, <2>2, CallStep
    <2>4. DaemonTypes'
      BY Zenon, <2>2, <2>3 DEF DaemonInv, DaemonTypes
    <2>5. Self(d)' = Self(d)
      BY Zenon, <2>2 DEF Self
    <2>6. CASE lockfile(d)
      <3>1. done[d] = 8
        BY Zenon, <2>6, Order DEF lockfile
      <3>2. locker = NoProc /\ locker' = Self(d) /\ pidfile' = pidfile
        BY Zenon, <2>6, <2>a DEF lockfile, dmEnds, DaemonInv, DaemonTypes
      <3> QED BY <2>2, <2>3, <2>4, <2>5, <3>1, <3>2, OneStep DEF Has, Alone
    <2>7. CASE Truncate(d)
      <3>1. done[d] = 9 /\ locker' = locker
        BY ZenonT(30), <2>7, Order DEF Truncate
      <3> QED BY SMTT(60), <2>2, <2>3, <2>4, <2>5, <3>1, OneStep DEF Has, Alone
    <2>8. CASE WritePid(d)
      <3>1. done[d] = 10 /\ locker' = locker /\ pidfile' = Self(d)
        BY Zenon, <2>8, Order DEF WritePid
      <3> QED BY <2>2, <2>3, <2>4, <2>5, <3>1, OneStep DEF Has, Alone
    <2> QED BY Zenon, <2>6, <2>7, <2>8
  <1> QED BY Zenon, <1>1, <1>2

\* Every step keeps the invariant.
LEMMA DaemonSteps == DaemonInv /\ [dmNext]_dmvars => DaemonInv'
  <1> SUFFICES ASSUME DaemonInv, [dmNext]_dmvars PROVE DaemonInv'
    BY Zenon
  <1> USE DEF session, signals
  <1>0. ASSUME UNCHANGED <<dmprog, done, gen, leader, ctty, dfds, locker, pidfile>>
        PROVE  DaemonInv'
    BY Zenon, <1>0 DEF DaemonInv, DaemonTypes, Has, Self, Main
  <1>1. CASE UNCHANGED dmvars
    BY Zenon, <1>0, <1>1 DEF dmvars
  <1>2. ASSUME NEW d \in Copy, dmStep(d) PROVE DaemonInv'
    <2>1. CASE Forks(d) \/ SetSid(d) \/ CloseAll(d) \/ Attach(d)
      BY Zenon, <2>1, DaemonizeStep
    <2>2. CASE lockfile(d) \/ Truncate(d) \/ WritePid(d)
      BY Zenon, <2>2, RunningStep
    <2>3. CASE IgnoreHup(d) \/ ChangeDir(d) \/ OpenLockfile(d)
      <3>1. done[d] \in {2, 4, 7} /\ Called(d)
            /\ UNCHANGED <<dmprog, gen, leader, ctty, dfds, locker, pidfile>>
        BY Zenon, <2>3, Order DEF IgnoreHup, ChangeDir, OpenLockfile
      <3>2. \E c : Calls(d, c)
        BY Zenon, <2>3 DEF IgnoreHup, ChangeDir, OpenLockfile
      <3> QED BY Zenon, <3>1, <3>2, OtherCall
    <2>4. CASE DefaultHup(d) \/ BlockAll(d) \/ CreateThread(d) \/ CatchTerm(d) \/ CatchHup(d)
      <3>1. \E c \in LastCalls : Calls(d, c)
        BY Zenon, <2>4 DEF DefaultHup, BlockAll, CreateThread, CatchTerm, CatchHup, LastCalls
      <3>2. done[d] >= 11
        BY Zenon, <3>1, Order
      <3>3. Called(d) /\ UNCHANGED <<dmprog, gen, leader, ctty, dfds, locker, pidfile>>
        BY Zenon, <2>4 DEF DefaultHup, BlockAll, CreateThread, CatchTerm, CatchHup
      <3> QED BY Zenon, <3>1, <3>2, <3>3, OtherCall
    <2> QED BY Zenon, <1>2, <2>1, <2>2, <2>3, <2>4 DEF dmStep
  <1>3. ASSUME NEW d \in Copy, Start(d) PROVE DaemonInv'
    BY Zenon, <1>3, StartStep
  <1>4. ASSUME NEW d \in Copy, ForkFails(d) \/ Finish(d) PROVE DaemonInv'
    BY Zenon, <1>4, EndStep DEF ForkFails, Finish
  <1>5. ASSUME NEW d \in Copy, thr_fn(d) \/ Take(d) PROVE DaemonInv'
    BY Zenon, <1>0, <1>5, EndStep DEF thr_fn, Take
  <1>6. ASSUME NEW d \in Copy, NEW s \in {"HUP", "TERM"}, Signal(d, s) PROVE DaemonInv'
    BY Zenon, <1>0, <1>6 DEF Signal
  <1> QED BY Zenon, <1>1, <1>2, <1>3, <1>4, <1>5, <1>6 DEF dmNext

\* Only one copy of the daemon serves, however many are started, killed and
\* started again: it has the lock, the file names it, and it has lost its
\* terminal for good.
THEOREM DaemonIsAlone == dmSpec => []OneDaemon
  <1>1. dmInit => DaemonInv
    <2> SUFFICES ASSUME dmInit PROVE DaemonInv
      BY Zenon
    <2>1. Len(Main) \in {13, 14}
      BY Zenon, MainCalls
    <2>2. /\ done = [d \in Copy |-> Off] /\ gen = [d \in Copy |-> 0]
          /\ leader = [d \in Copy |-> FALSE] /\ ctty = [d \in Copy |-> TRUE]
          /\ dfds = [d \in Copy |-> "inherited"]
      BY Zenon DEF dmInit, dmInitOf
    <2>3. done \in [Copy -> Off .. Len(Main)]
      BY <2>1, <2>2 DEF Off
    <2> QED BY Zenon, <2>2, <2>3 DEF DaemonInv, DaemonTypes
  <1>2. DaemonInv => OneDaemon
    <2> SUFFICES ASSUME DaemonInv, NEW d \in Copy, Serving(d)
                 PROVE  /\ locker = Self(d) /\ pidfile = Self(d)
                        /\ ~ctty[d] /\ ~leader[d] /\ dfds[d] = "/dev/null"
                        /\ \A e \in Copy \ {d} : ~Serving(e)
      BY Zenon DEF OneDaemon
    <2>1. ASSUME NEW e \in Copy, Serving(e)
          PROVE  Has(e) /\ done[e] >= 11 /\ done[e] >= 9 /\ done[e] >= 7 /\ done[e] >= 4 /\ done[e] >= 2
      <3>1. Len(Main) \in {13, 14}
        BY Zenon, MainCalls
      <3>2. done[e] \in {13, 14}
        BY Zenon, <2>1, <3>1 DEF Serving
      <3>3. done[e] # Off /\ done[e] >= 11 /\ done[e] >= 9 /\ done[e] >= 7 /\ done[e] >= 4 /\ done[e] >= 2
        BY <3>2 DEF Off
      <3> QED BY Zenon, <3>3 DEF DaemonInv
    <2>2. ASSUME NEW e \in Copy \ {d}, Serving(e) PROVE FALSE
      BY <2>1, <2>2 DEF Has, Self
    <2> QED BY Zenon, <2>1, <2>2 DEF Has
  <1> QED BY <1>1, <1>2, DaemonSteps, PTL DEF dmSpec

-----------------------------------------------------------------------------
(***************************************************************************)
(* ThreadCtl: the arithmetic of struct timespec, the recursive mutex of    *)
(* timeout.c, and the buffers of getenv.                                   *)
(***************************************************************************)
\* A struct timespec in its normal form, and the time it stands for.
Normal(w) == w.sec \in Nat /\ w.nsec \in 0 .. (SECTONSEC - 1)
\* The nanoseconds it stands for.
Ticks(w) == (w.sec * SECTONSEC) + w.nsec

\* Division with a remainder.
LEMMA DivMod ==
    ASSUME NEW n \in Nat, NEW d \in Nat \ {0}
    PROVE  n \div d \in Nat /\ n % d \in 0 .. (d - 1) /\ n = ((n \div d) * d) + (n % d)
OBVIOUS

\* A second more is SECTONSEC nanoseconds more.
LEMMA MoreSeconds ==
    ASSUME NEW a \in Nat, NEW b \in Nat, NEW d \in Nat, a < b
    PROVE  (a * d) + d <= b * d
<1> DEFINE k == b - a - 1
<1>1. k \in Nat /\ b = a + 1 + k
  OBVIOUS
<1> HIDE DEF k
<1>2. b * d = (a * d) + d + (k * d)
  BY <1>1
<1>3. k * d \in Nat
  BY <1>1
<1>4. a * d \in Nat
  OBVIOUS
<1> QED BY <1>2, <1>3, <1>4

\* A time is converted to a normal form of itself.
LEMMA TimespecOf ==
    ASSUME NEW n \in Nat
    PROVE  Normal(Timespec(n)) /\ Ticks(Timespec(n)) = n
BY Zenon, DivMod, CtlAssumption DEF Normal, Ticks, Timespec

\* The comparison in timeout() compares the times.
LEMMA LaterIs ==
    ASSUME NEW a, NEW b, Normal(a), Normal(b)
    PROVE  Later(a, b) <=> Ticks(a) > Ticks(b)
<1> DEFINE x == a.sec * SECTONSEC
           y == b.sec * SECTONSEC
<1>1. x \in Nat /\ y \in Nat /\ SECTONSEC \in Nat
  BY CtlAssumption DEF Normal
<1>2. a.sec > b.sec => y + SECTONSEC <= x
  BY Zenon, MoreSeconds, CtlAssumption DEF Normal
<1>3. a.sec < b.sec => x + SECTONSEC <= y
  BY Zenon, MoreSeconds, CtlAssumption DEF Normal
<1>4. a.sec = b.sec => x = y
  BY Zenon
<1> HIDE DEF x, y
<1>5. a.sec > b.sec \/ a.sec < b.sec \/ a.sec = b.sec
  BY DEF Normal
<1>6. Ticks(a) = x + a.nsec /\ Ticks(b) = y + b.nsec
  BY Zenon DEF Ticks, x, y
<1> QED BY <1>1, <1>2, <1>3, <1>4, <1>5, <1>6 DEF Normal, Later

\* The borrow in timeout() makes the difference of the times.
LEMMA SleepsUntil ==
    ASSUME NEW w, NEW n, Normal(w), Normal(n)
    PROVE  Sleeps(ToWait(w, n)) = Ticks(w) - Ticks(n)
<1> DEFINE S == SECTONSEC
<1>0. S \in Nat /\ S > 0 /\ w.sec \in Nat /\ n.sec \in Nat /\ w.nsec \in 0 .. (S - 1) /\ n.nsec \in 0 .. (S - 1)
  BY CtlAssumption DEF Normal
<1> DEFINE d == w.sec - n.sec
<1>1. d \in Int /\ d * S = (w.sec * S) - (n.sec * S)
  BY <1>0
<1>2. (d - 1) * S = (w.sec * S) - (n.sec * S) - S
  BY <1>0
<1>3. w.sec * S \in Nat /\ n.sec * S \in Nat
  BY <1>0
<1>4. CASE w.nsec >= n.nsec
  <2>1. ToWait(w, n) = [sec |-> d, nsec |-> w.nsec - n.nsec]
    BY Zenon, <1>4 DEF ToWait
  <2>2. w.nsec - n.nsec \in 0 .. (S - 1)
    BY <1>0, <1>4
  <2>3. Sleeps(ToWait(w, n)) = (d * S) + (w.nsec - n.nsec)
    BY <2>1, <2>2 DEF Sleeps
  <2> QED BY <1>0, <1>1, <1>3, <2>3 DEF Ticks
<1>5. CASE ~ (w.nsec >= n.nsec)
  <2>1. ToWait(w, n) = [sec |-> d - 1, nsec |-> S - n.nsec + w.nsec]
    BY Zenon, <1>5 DEF ToWait
  <2>2. S - n.nsec + w.nsec \in 0 .. (S - 1)
    BY <1>0, <1>5
  <2>3. Sleeps(ToWait(w, n)) = ((d - 1) * S) + (S - n.nsec + w.nsec)
    BY <2>1, <2>2 DEF Sleeps
  <2> QED BY <1>0, <1>2, <1>3, <2>3 DEF Ticks
<1> QED BY Zenon, <1>4, <1>5

\* The threads of the small programs.
Threads == {"main", "thr"} \cup Caller

\* The mutex of timeout.c: who holds it, how often, and where it is.
CtlMutex ==
    /\ owner \in {NoOne, "main", "thr"} /\ depth \in Nat
    /\ owner = NoOne => depth = 0
    /\ tpc["main"] \in {"timeout", "retry", "unlock"} => owner = "main" /\ depth = 1
    /\ AtT("main", "retrying") => owner = "main" /\ depth = 2
    /\ AtT("thr", "retrying") => owner = "thr" /\ depth = 1
    /\ owner = "main" => tpc["main"] \in {"timeout", "retry", "retrying", "unlock"}
    /\ owner = "thr" => AtT("thr", "retrying")

\* The time the helper has been given is the one main asked for, and it has
\* come before retry is called.
CtlTimes ==
    /\ clock \in Nat
    /\ AtT("main", "timeout") => \E n \in Nat : when = Timespec(n)
    /\ tpc["thr"] \in {"sleep", "retry", "retrying"} =>
          /\ tpc["main"] \in {"unlock", "unlocked"}
          /\ to_wait \in Nat /\ when = Timespec(to_wait)
    /\ tpc["thr"] \in {"retry", "retrying"} => clock >= to_wait

\* The inductive invariant.
CtlInv ==
    /\ tpc = [t \in Threads |-> tpc[t]]
    /\ CtlMutex /\ CtlTimes
    /\ envbuf \in [Caller \cup {"shared"} -> Name \cup {NoName}]
    /\ wanted \in [Caller -> Name \cup {NoName}]
    /\ EnvironmentIsOwn

\* The invariant holds at the start.
LEMMA CtlInitOK == ctlInit => CtlInv
<1> SUFFICES ASSUME ctlInit PROVE CtlInv
  BY Zenon
<1>1. \A t \in Threads : tpc[t] = "start"
  BY Zenon DEF ctlInit, Threads
<1>2. tpc = [t \in Threads |-> tpc[t]]
  BY Zenon DEF ctlInit, Threads
<1>3. owner = NoOne /\ depth = 0 /\ clock = 0
  BY Zenon DEF ctlInit
<1>4. "main" \in Threads /\ "thr" \in Threads /\ Caller \subseteq Threads
  BY Zenon DEF Threads
<1>5. CtlMutex /\ CtlTimes
  BY Zenon, <1>1, <1>3, <1>4 DEF CtlMutex, CtlTimes, AtT, NoOne
<1>6. EnvironmentIsOwn
  BY Zenon, <1>1, <1>4 DEF EnvironmentIsOwn, AtT
<1>7. /\ envbuf \in [Caller \cup {"shared"} -> Name \cup {NoName}]
      /\ wanted \in [Caller -> Name \cup {NoName}]
  BY Zenon DEF ctlInit
<1> QED BY Zenon, <1>2, <1>5, <1>6, <1>7 DEF CtlInv

\* The mutex and the times of timeout.c depend on where main and the helper
\* are, the environment on where its callers are.
LEMMA CallersStep ==
    ASSUME CtlInv, tpc' = [t \in Threads |-> tpc'[t]], tpc'["main"] = tpc["main"],
           tpc'["thr"] = tpc["thr"], UNCHANGED <<tprog, mutexvars, timevars>>
    PROVE  CtlMutex' /\ CtlTimes'
BY Zenon DEF CtlInv, CtlMutex, CtlTimes, AtT, mutexvars, timevars

\* A step that is not in getenv leaves the environment alone.
LEMMA OthersStep ==
    ASSUME CtlInv, tpc' = [t \in Threads |-> tpc'[t]],
           \A c \in Caller : tpc'[c] = tpc[c] \/ tpc'[c] # "use",
           UNCHANGED <<tprog, envvars>>
    PROVE  /\ envbuf' \in [Caller \cup {"shared"} -> Name \cup {NoName}]
           /\ wanted' \in [Caller -> Name \cup {NoName}]
           /\ EnvironmentIsOwn'
<1>1. UNCHANGED <<tprog, envbuf, wanted>>
  BY Zenon DEF envvars
<1>2. \A c \in Caller : BufferOf(c)' = BufferOf(c)
  BY Zenon, <1>1 DEF BufferOf
<1> QED BY Zenon, <1>1, <1>2 DEF CtlInv, EnvironmentIsOwn, AtT

\* main and the helper of timeout.c.
LEMMA TimeoutSteps ==
    ASSUME CtlInv,
           \/ Tick \/ CheckCondition \/ timeout \/ timeout_now \/ timeout_helper \/ MainUnlock \/ MainExit
           \/ \E t \in {"main", "thr"} : retry(t) \/ RetryDone(t)
    PROVE  CtlInv'
<1>0. /\ tpc = [t \in Threads |-> tpc[t]] /\ CtlMutex /\ CtlTimes
      /\ "main" \in Threads /\ "thr" \in Threads
      /\ \A c \in Caller : c \in Threads /\ c # "main" /\ c # "thr"
  BY Zenon, CtlAssumption DEF CtlInv, Threads
<1>a. /\ SECTONSEC \in Nat /\ WaitSecs \in Nat /\ clock \in Nat
      /\ clock + (WaitSecs * SECTONSEC) \in Nat
  BY <1>0, CtlAssumption DEF CtlTimes
<1>1. /\ tpc' = [t \in Threads |-> tpc'[t]]
      /\ \A c \in Caller : tpc'[c] = tpc[c]
      /\ UNCHANGED <<tprog, envvars>>
  <2>1. CASE Tick
    BY Zenon, <1>0, <2>1 DEF Tick
  <2>2. CASE CheckCondition
    BY Zenon, <1>0, <2>2 DEF CheckCondition, GoT
  <2>3. CASE timeout
    BY Zenon, <1>0, <2>3 DEF timeout
  <2>4. CASE timeout_now \/ timeout_helper \/ MainUnlock
    BY Zenon, <1>0, <2>4 DEF timeout_now, timeout_helper, MainUnlock, GoT
  <2>5. CASE MainExit
    BY Zenon, <1>0, <2>5 DEF MainExit
  <2>6. CASE \E t \in {"main", "thr"} : retry(t) \/ RetryDone(t)
    BY Zenon, <1>0, <2>6 DEF retry, RetryDone, GoT
  <2> QED BY Zenon, <2>1, <2>2, <2>3, <2>4, <2>5, <2>6
<1>2. CtlMutex' /\ CtlTimes'
  <2> USE DEF CtlMutex, CtlTimes, AtT, NoOne
  <2>1. CASE Tick
    BY <1>0, <1>a, <2>1 DEF Tick, mutexvars
  <2>2. CASE CheckCondition
    BY <1>0, <1>a, <2>2 DEF CheckCondition, Lock, GoT
  <2>3. CASE timeout
    <3>1. PICK n \in Nat : when = Timespec(n)
      BY Zenon, <1>0, <2>3 DEF timeout
    <3>2. Normal(when) /\ Ticks(when) = n
      BY Zenon, <3>1, TimespecOf
    <3>3. Normal(Timespec(clock)) /\ Ticks(Timespec(clock)) = clock
      BY Zenon, <1>a, TimespecOf
    <3>4. Sleeps(ToWait(when, Timespec(clock))) = n - clock
      BY Zenon, <3>2, <3>3, SleepsUntil
    <3>5. to_wait' = n
      BY <1>a, <2>3, <3>4 DEF timeout
    <3> QED BY <1>0, <1>a, <2>3, <3>1, <3>5 DEF timeout, mutexvars
  <2>4. CASE timeout_now
    BY Zenon, <1>0, <2>4 DEF timeout_now, GoT, mutexvars, timevars
  <2>5. CASE timeout_helper
    BY Zenon, <1>0, <2>5 DEF timeout_helper, GoT, mutexvars, timevars
  <2>6. CASE MainUnlock
    BY <1>0, <2>6 DEF MainUnlock, Unlock, GoT, timevars
  <2>7. CASE MainExit
    BY ZenonT(30), <1>0, <2>7 DEF MainExit, timevars
  <2>8. CASE retry("main") \/ RetryDone("main")
    BY <1>0, <2>8 DEF retry, RetryDone, Lock, Unlock, GoT, timevars
  <2>9. CASE retry("thr") \/ RetryDone("thr")
    BY <1>0, <2>9 DEF retry, RetryDone, Lock, Unlock, GoT, timevars
  <2> QED BY ZenonT(30), <2>1, <2>2, <2>3, <2>4, <2>5, <2>6, <2>7, <2>8, <2>9
<1> QED BY Zenon, <1>1, <1>2, OthersStep DEF CtlInv

\* suspend.c and condvar.c, which have neither a time nor a name.
LEMMA QueueSteps ==
    ASSUME CtlInv,
           \/ SigWait \/ SignalMain \/ WaitQuit \/ ResetMask \/ EnqueueSignal \/ enqueue_msg
           \/ \E s \in {"SIGINT", "SIGQUIT"} : Raise(s)
           \/ \E c \in Caller : process_msg(c)
           \/ \E t \in {"main"} \cup Caller : SpuriousT(t)
    PROVE  CtlInv'
<1>0. /\ tpc = [t \in Threads |-> tpc[t]] /\ CtlMutex /\ CtlTimes
      /\ "main" \in Threads /\ "thr" \in Threads
      /\ \A c \in Caller : c \in Threads /\ c # "main" /\ c # "thr"
  BY Zenon, CtlAssumption DEF CtlInv, Threads
<1> DEFINE Away == {"start", "signal", "asleep", "woken", "reset", "end", "killed"}
<1>1. /\ tpc' = [t \in Threads |-> tpc'[t]]
      /\ \A c \in Caller : tpc'[c] = tpc[c] \/ tpc'[c] # "use"
      /\ UNCHANGED <<tprog, envvars, mutexvars, timevars>>
      /\ tpc'["main"] = tpc["main"] \/ {tpc["main"], tpc'["main"]} \subseteq Away
      /\ tpc'["thr"] = tpc["thr"] \/ {tpc["thr"], tpc'["thr"]} \subseteq Away
                                  \/ (AtT("main", "reset") /\ AtT("thr", "end")')
  <2>1. CASE SigWait
    BY Zenon, <1>0, <2>1 DEF SigWait, GoT, AtT
  <2>2. CASE SignalMain
    BY Zenon, <1>0, <2>2 DEF SignalMain, AtT
  <2>3. CASE WaitQuit
    BY Zenon, <1>0, <2>3 DEF WaitQuit, GoT, AtT
  <2>4. CASE ResetMask
    BY Zenon, <1>0, <2>4 DEF ResetMask, AtT
  <2>5. CASE EnqueueSignal
    <3>1. \/ tpc' = [tpc EXCEPT !["main"] = "start"]
          \/ \E c \in Caller : tpc' = [[tpc EXCEPT !["main"] = "start"] EXCEPT ![c] = "woken"]
      BY Zenon, <2>5 DEF EnqueueSignal
    <3> QED BY Zenon, <1>0, <2>5, <3>1 DEF EnqueueSignal, AtT
  <2>6. CASE enqueue_msg
    BY Zenon, <1>0, <2>6 DEF enqueue_msg, GoT, AtT
  <2>7. CASE \E s \in {"SIGINT", "SIGQUIT"} : Raise(s)
    BY Zenon, <1>0, <2>7 DEF Raise
  <2>8. CASE \E c \in Caller : process_msg(c)
    BY Zenon, <1>0, <2>8 DEF process_msg, GoT, AtT
  <2>9. CASE \E t \in {"main"} \cup Caller : SpuriousT(t)
    BY Zenon, <1>0, <2>9 DEF SpuriousT, GoT, AtT
  <2> QED BY ZenonT(30), <2>1, <2>2, <2>3, <2>4, <2>5, <2>6, <2>7, <2>8, <2>9
<1>2. CtlMutex'
  <2>1. owner' = owner /\ depth' = depth
    BY Zenon, <1>1 DEF mutexvars
  <2>2. \A pc \in {"timeout", "retry", "unlock", "retrying"} : tpc'["main"] = pc <=> tpc["main"] = pc
    BY Zenon, <1>1
  <2>3. tpc'["thr"] = "retrying" <=> tpc["thr"] = "retrying"
    BY Zenon, <1>0, <1>1 DEF CtlTimes, AtT
  <2> QED BY Zenon, <1>0, <2>1, <2>2, <2>3 DEF CtlMutex, AtT
<1>3. CtlTimes'
  BY Zenon, <1>0, <1>1 DEF CtlTimes, AtT, timevars
<1> QED BY Zenon, <1>1, <1>2, <1>3, OthersStep DEF CtlInv

\* getenv: a caller writes its own buffer and no other, except in getenv1.c.
LEMMA GetenvSteps ==
    ASSUME CtlInv, NEW c \in Caller, getenv_r(c) \/ getenv(c) \/ UseValue(c)
    PROVE  CtlInv'
<1>0. /\ tpc = [t \in Threads |-> tpc[t]] /\ EnvironmentIsOwn
      /\ c \in Threads /\ c # "main" /\ c # "thr" /\ "main" \in Threads /\ "thr" \in Threads
      /\ envbuf \in [Caller \cup {"shared"} -> Name \cup {NoName}]
      /\ wanted \in [Caller -> Name \cup {NoName}]
  BY Zenon, CtlAssumption DEF CtlInv, Threads
<1>1. /\ UNCHANGED <<tprog, mutexvars, timevars>>
      /\ tpc' = [tpc EXCEPT ![c] = "use"] \/ (UseValue(c) /\ tpc' = [tpc EXCEPT ![c] = "start"])
  BY Zenon DEF getenv_r, getenv, UseValue, GoT
<1>2. /\ tpc' = [t \in Threads |-> tpc'[t]] /\ tpc'["main"] = tpc["main"] /\ tpc'["thr"] = tpc["thr"]
  BY Zenon, <1>0, <1>1
<1>3. CtlMutex' /\ CtlTimes'
  BY Zenon, <1>1, <1>2, CallersStep
<1>4. CASE UseValue(c)
  <2>1. tpc' = [tpc EXCEPT ![c] = "start"] /\ UNCHANGED envvars
    BY Zenon, <1>4 DEF UseValue, GoT
  <2>2. \A d \in Caller : tpc'[d] = tpc[d] \/ tpc'[d] # "use"
    BY <1>0, <2>1
  <2> QED BY Zenon, <1>1, <1>2, <1>3, <2>1, <2>2, OthersStep DEF CtlInv
<1>5. ASSUME NEW n \in Name, tpc' = [tpc EXCEPT ![c] = "use"],
             \/ wanted' = [wanted EXCEPT ![c] = n] /\ envbuf' = [envbuf EXCEPT ![BufferOf(c)] = n]
             \/ wanted' = [wanted EXCEPT ![c] = NoName] /\ UNCHANGED envbuf
      PROVE  CtlInv'
  <2>1. /\ envbuf' \in [Caller \cup {"shared"} -> Name \cup {NoName}]
        /\ wanted' \in [Caller -> Name \cup {NoName}]
    BY <1>0, <1>5
  <2>2. EnvironmentIsOwn'
    BY SMTT(30), <1>0, <1>1, <1>5 DEF EnvironmentIsOwn, BufferOf, AtT, Threads
  <2> QED BY ZenonT(30), <1>2, <1>3, <2>1, <2>2 DEF CtlInv
<1>6. CASE getenv_r(c) \/ getenv(c)
  BY Zenon, <1>5, <1>6 DEF getenv_r, getenv, GoT
<1> QED BY Zenon, <1>4, <1>6

\* Every step of every program keeps the invariant.
LEMMA CtlSteps == CtlInv /\ [ctlNext]_ctlvars => CtlInv'
<1> SUFFICES ASSUME CtlInv, [ctlNext]_ctlvars PROVE CtlInv'
  BY Zenon
<1>1. CASE UNCHANGED ctlvars
  <2>1. UNCHANGED <<tprog, tpc, mutexvars, timevars, envvars>>
    BY Zenon, <1>1 DEF ctlvars, mutexvars, timevars, envvars
  <2>2. tpc' = [t \in Threads |-> tpc'[t]]
    BY Zenon, <2>1 DEF CtlInv
  <2> QED BY Zenon, <2>1, <2>2, CallersStep, OthersStep DEF CtlInv
<1>2. CASE ctlNext
  BY Zenon, <1>2, TimeoutSteps, QueueSteps, GetenvSteps DEF ctlNext, MainT, ThrT, CallerT
<1> QED BY Zenon, <1>1, <1>2

\* The helper of timeout.c calls retry at the time main asked for or later,
\* whatever the length of a second and the time on the clock, and never while
\* main is between its check and the end of its call of timeout.
THEOREM TimeoutIsTimely == ctlSpec => []RetryIsTimely
<1>1. ASSUME CtlInv PROVE RetryIsTimely
  <2>1. ASSUME tpc["thr"] \in {"retry", "retrying"} PROVE ~Later(when, Timespec(clock))
    <3>1. clock \in Nat /\ to_wait \in Nat /\ when = Timespec(to_wait) /\ clock >= to_wait
      BY Zenon, <1>1, <2>1 DEF CtlInv, CtlTimes
    <3>2. Normal(Timespec(to_wait)) /\ Ticks(Timespec(to_wait)) = to_wait
      BY Zenon, <3>1, TimespecOf
    <3>3. Normal(Timespec(clock)) /\ Ticks(Timespec(clock)) = clock
      BY Zenon, <3>1, TimespecOf
    <3>4. ~ (to_wait > clock)
      BY <3>1
    <3>5. Later(when, Timespec(clock)) <=> to_wait > clock
      BY Zenon, <3>1, <3>2, <3>3, LaterIs
    <3> QED BY Zenon, <3>4, <3>5
  <2>2. AtT("thr", "retrying") => tpc["main"] \notin {"timeout", "retry", "retrying", "unlock"}
    BY Zenon, <1>1 DEF CtlInv, CtlMutex, AtT
  <2> QED BY Zenon, <2>1, <2>2 DEF RetryIsTimely
<1>2. CtlInv => RetryIsTimely
  BY ZenonT(30), <1>1
<1> QED BY CtlInitOK, CtlSteps, <1>2, PTL DEF ctlSpec

\* With getenv2.c and getenv3.c what a thread uses is what it asked for, for
\* any number of threads and variables.
THEOREM GetenvIsOwn == ctlSpec => []EnvironmentIsOwn
<1>1. CtlInv => EnvironmentIsOwn
  BY ZenonT(40) DEF CtlInv
<1> QED BY CtlInitOK, CtlSteps, <1>1, PTL DEF ctlSpec

-----------------------------------------------------------------------------
(***************************************************************************)
(* PrintSignals: a SIGHUP may come while the printer thread reads the      *)
(* file.                                                                   *)
(***************************************************************************)
\* Where the printer thread is in its turn, and how recent what it has read
\* is.  Between the two reads of the flag a SIGHUP sets it again, so what the
\* thread has found may be too old only while reread is set.
HupInv ==
    /\ conf \in Nat /\ asked \in Nat /\ asked <= conf /\ reread \in BOOLEAN
    /\ pt \in {"check", "init", "lookup", "send"}
    /\ found \in Nat /\ (pt \in {"check", "send"} => printer \in Nat)
    /\ pt = "lookup" /\ ~ reread => found >= asked
    /\ pt \in {"check", "send"} /\ ~ reread => printer >= asked

\* A SIGHUP asks for a reread, an edit makes the file newer, and every step of
\* the printer thread keeps track of what it has read.
LEMMA HupSteps == HupInv /\ [Next]_vars => HupInv'
<1> SUFFICES ASSUME HupInv, [Next]_vars PROVE HupInv'
  BY Zenon
<1> USE DEF HupInv
<1>1. CASE UNCHANGED config
  BY Zenon, <1>1 DEF config
<1>2. CASE SigHup
  BY <1>2 DEF SigHup
<1>3. CASE CheckReread \/ NoReread
  BY Zenon, <1>3 DEF CheckReread, NoReread
<1>4. CASE get_printaddr
  BY Zenon, <1>4 DEF get_printaddr
<1>5. CASE init_printer
  BY Zenon, <1>5 DEF init_printer
<1>6. CASE Send
  BY Zenon, <1>6 DEF Send
<1>7. CASE Edit
  BY <1>7 DEF Edit
<1>8. \/ UNCHANGED config
      \/ SigHup \/ CheckReread \/ NoReread \/ get_printaddr \/ init_printer \/ Send \/ Edit
  <2>1. CASE \E t \in Thread : add_worker(t) \/ client_cleanup(t)
    BY Zenon, <2>1 DEF add_worker, client_cleanup
  <2>2. CASE kill_workers \/ Exit \/ NoAddress
    BY Zenon, <2>2 DEF kill_workers, Exit, NoAddress
  <2>3. CASE UNCHANGED vars
    BY Zenon, <2>3 DEF vars
  <2> QED BY Zenon, <2>1, <2>2, <2>3 DEF Next
<1> QED BY <1>1, <1>2, <1>3, <1>4, <1>5, <1>6, <1>7, <1>8

\* No SIGHUP is lost, however often the file is edited and whenever the
\* signal comes in a turn of printer_thread.
THEOREM NoHupLost == Spec => []HupIsHonoured
<1>1. Init => HupInv
  <2> SUFFICES ASSUME Init PROVE HupInv
    BY Zenon
  <2>1. conf = 0 /\ asked = 0 /\ reread = FALSE /\ printer = 0 /\ found = 0 /\ pt = "check"
    BY Zenon DEF Init
  <2>2. 0 \in Nat /\ 0 <= 0 /\ 0 >= 0
    OBVIOUS
  <2> QED BY <2>1, <2>2, Zenon DEF HupInv
<1>2. HupInv => HupIsHonoured
  BY Zenon DEF HupInv, HupIsHonoured
<1> QED BY <1>1, <1>2, HupSteps, PTL DEF Spec

-----------------------------------------------------------------------------
(***************************************************************************)
(* MemStream: the buffer of a stream and its three positions.              *)
(***************************************************************************)
\* A stream has the four components of struct memstream.
IsStream(m) == m = [rsize |-> m.rsize, vsize |-> m.vsize, curpos |-> m.curpos, flags |-> m.flags]

\* The invariant: the types, and the property itself.
MemInv == msTypeOK /\ StreamIsFile /\ IsStream(ms)

\* The initial states.
LEMMA MemInitOK == msInit => MemInv
<1> SUFFICES ASSUME msInit PROVE MemInv
  BY Zenon
<1>1. ~isopen /\ isopen \in BOOLEAN
  BY Zenon DEF msInit
<1>2. ms.rsize \in Nat /\ ms.vsize \in Nat /\ ms.curpos \in Nat /\ IsStream(ms)
  BY ZenonT(30) DEF msInit, NoStream, IsStream
<1> QED BY Zenon, <1>1, <1>2 DEF MemInv, msTypeOK, StreamIsFile

\* A new stream: all of its data are in its buffer.
LEMMA OpenOK ==
    ASSUME MemInv, NEW size \in Sizes, NEW type \in Types, NEW own \in BOOLEAN,
           fmemopen(size, type, own)
    PROVE  MemInv'
<1> DEFINE flags == type_to_flags(type)
<1>1. PICK b \in [0 .. size - 1 -> Bytes], pos \in 0 .. size :
         /\ buf' = b
         /\ ms' = [rsize |-> size, vsize |-> NewSize(flags, size, pos), curpos |-> pos, flags |-> flags]
         /\ file' = [k \in 0 .. NewSize(flags, size, pos) - 1 |-> b[k]]
         /\ ~("APPEND" \in flags) => pos = 0
  BY ZenonT(30) DEF fmemopen
<1>2. size \in Nat /\ isopen' = TRUE
  BY Zenon, MemAssumption DEF fmemopen
<1> HIDE DEF flags
<1>3. NewSize(flags, size, pos) \in pos .. size
  BY <1>1, <1>2 DEF NewSize
<1> QED BY <1>1, <1>2, <1>3 DEF MemInv, msTypeOK, StreamIsFile, IsStream

\* Reading and seeking move the position, but not beyond the data.
LEMMA ReadOK ==
    ASSUME MemInv, NEW n \in 0 .. MaxWrite, mstream_read(n)
    PROVE  MemInv'
<1>1. n \in Nat
  BY MemAssumption
<1> DEFINE p == ms.curpos + MIN(n, ms.vsize - ms.curpos)
<1>2. /\ isopen /\ ms.curpos < ms.vsize
      /\ ms' = [ms EXCEPT !.curpos = p] /\ UNCHANGED <<isopen, buf, file>>
  BY Zenon DEF mstream_read
<1>3. p \in 0 .. ms.vsize
  BY <1>1, <1>2 DEF MemInv, msTypeOK, StreamIsFile, MIN
<1> HIDE DEF p
<1>4. /\ ms'.curpos = p /\ ms'.rsize = ms.rsize /\ ms'.vsize = ms.vsize /\ ms'.flags = ms.flags
      /\ IsStream(ms)'
  BY Zenon, <1>2 DEF MemInv, IsStream
<1> QED BY <1>2, <1>3, <1>4 DEF MemInv, msTypeOK, StreamIsFile

\* Seeking, from the start, the end or the position.
LEMMA SeekOK ==
    ASSUME MemInv, NEW pos \in -MaxWrite .. MaxWrite, NEW whence \in {"SET", "END", "CUR"}, mstream_seek(pos, whence)
    PROVE  MemInv'
<1> DEFINE off == CASE whence = "SET" -> pos
                    [] whence = "END" -> ms.vsize + pos
                    [] whence = "CUR" -> ms.curpos + pos
<1>1. /\ isopen /\ off >= 0 /\ off <= ms.vsize
      /\ ms' = [ms EXCEPT !.curpos = off]
      /\ UNCHANGED <<isopen, buf, file>>
  BY Zenon DEF mstream_seek
<1> HIDE DEF off
<1>2. /\ ms'.curpos = off /\ ms'.rsize = ms.rsize /\ ms'.vsize = ms.vsize /\ ms'.flags = ms.flags
      /\ IsStream(ms)'
  BY Zenon, <1>1 DEF MemInv, IsStream
<1>3. off \in Int
  BY MemAssumption DEF MemInv, msTypeOK, off
<1> QED BY <1>1, <1>2, <1>3 DEF MemInv, msTypeOK, StreamIsFile

\* A write: the bytes that can be read afterwards are those of the file, as
\* the null bytes that are added are at vsize or, in a stream that cannot be
\* read, anywhere.
LEMMA WriteOK ==
    ASSUME MemInv, NEW data \in Data, mstream_write(data)
    PROVE  MemInv'
<1> DEFINE off == IF "APPEND" \in ms.flags THEN ms.vsize ELSE ms.curpos
           nw == MIN(Len(data), ms.rsize - off)
           end == IF off + nw > ms.vsize THEN off + nw ELSE ms.vsize
           m == [ms EXCEPT !.curpos = off + nw, !.vsize = end]
           b == Written(buf, ms.rsize, off, data, nw)
           f == Written(file, ms.vsize, off, data, nw)
<1>1. /\ isopen /\ isopen' = isopen
      /\ ms' = m /\ buf' = NullsAfter(b, m) /\ file' = f
  BY Zenon DEF mstream_write
<1>2. /\ ms.rsize \in Nat /\ ms.vsize \in Nat /\ ms.curpos \in Nat
      /\ ms.curpos <= ms.vsize /\ ms.vsize <= ms.rsize
      /\ buf \in [0 .. ms.rsize - 1 -> Bytes] /\ file \in [0 .. ms.vsize - 1 -> Bytes]
  BY Zenon, <1>1 DEF MemInv, msTypeOK, StreamIsFile
<1>3. Len(data) \in Nat
  BY MemAssumption DEF Data
<1>4. /\ off \in 0 .. ms.vsize /\ nw \in 0 .. Len(data) /\ off + nw <= ms.rsize
  BY SMTT(40), <1>2, <1>3 DEF MIN
<1>e. end \in 0 .. ms.rsize /\ off + nw <= end /\ ms.vsize <= end /\ end \in {off + nw, ms.vsize}
  BY SMTT(40), <1>2, <1>3, <1>4
<1> HIDE DEF off, nw, end
<1>5. /\ m.curpos = off + nw /\ m.vsize = end
      /\ m.rsize = ms.rsize /\ m.flags = ms.flags /\ IsStream(m)
  <2>1. IsStream(ms) /\ m = [ms EXCEPT !.curpos = off + nw, !.vsize = end]
    BY Zenon DEF MemInv
  <2> HIDE DEF m
  <2>2. PICK rsize, vsize, curpos, flags :
           ms = [rsize |-> rsize, vsize |-> vsize, curpos |-> curpos, flags |-> flags]
    BY Zenon, <2>1 DEF IsStream
  <2>3. m = [rsize |-> rsize, vsize |-> end, curpos |-> off + nw, flags |-> flags]
    BY ZenonT(30), <2>1, <2>2
  <2> QED BY Zenon, <2>2, <2>3 DEF IsStream
<1>b. \A k \in 1 .. nw : data[k] \in Bytes
  <2>1. PICK n \in 0 .. MaxWrite : data \in [1 .. n -> Bytes]
    BY Zenon DEF Data
  <2> QED BY <2>1, <1>3, <1>4, MemAssumption
<1>6. b \in [0 .. ms.rsize - 1 -> Bytes]
  BY <1>2, <1>3, <1>4, <1>b, SMTT(30) DEF Written
<1>7. f \in [0 .. m.vsize - 1 -> Bytes]
  BY SMTT(40), <1>2, <1>3, <1>4, <1>5, <1>b, <1>e DEF Written, end
<1> HIDE DEF m
<1>8. buf' \in [0 .. ms.rsize - 1 -> Bytes]
  BY ZenonT(30), <1>1, <1>6, MemAssumption DEF NullsAfter
<1>9. ASSUME "READ" \in ms.flags, NEW k \in 0 .. m.vsize - 1
      PROVE  buf'[k] = f[k]
  <2>1. k \in 0 .. ms.rsize - 1
    BY SMTT(30), <1>2, <1>4, <1>5, <1>e, <1>9
  <2>2. buf'[k] = b[k]
    BY SMTT(40), <1>1, <1>2, <1>4, <1>5, <1>e, <1>6, <1>9, <2>1 DEF NullsAfter, WriteOnly
  <2>3. CASE k \in off .. off + nw - 1
    BY SMTT(40), <2>1, <2>2, <2>3, <1>2, <1>4, <1>5, <1>e, <1>9 DEF Written
  <2>4. CASE k \notin off .. off + nw - 1
    <3>1. k \in 0 .. ms.vsize - 1
      BY SMTT(40), <2>4, <1>2, <1>4, <1>5, <1>e, <1>9
    <3>2. b[k] = buf[k] /\ f[k] = file[k]
      BY SMTT(40), <2>1, <2>4, <3>1, <1>2, <1>4 DEF Written
    <3>3. buf[k] = file[k]
      BY Zenon, <3>1, <1>1, <1>9 DEF MemInv, StreamIsFile
    <3> QED BY Zenon, <2>2, <3>2, <3>3
  <2> QED BY Zenon, <2>3, <2>4
<1> HIDE DEF b, f
<1>10. msTypeOK'
  BY SMTT(30), <1>1, <1>2, <1>4, <1>5, <1>e, <1>7, <1>8 DEF MemInv, msTypeOK
<1>11. StreamIsFile'
  BY Zenon, <1>1, <1>2, <1>4, <1>5, <1>e, <1>9 DEF StreamIsFile
<1> QED BY Zenon, <1>1, <1>5, <1>10, <1>11 DEF MemInv

\* Closing: nothing is left of the stream.
LEMMA CloseOK == MemInv /\ mstream_close => MemInv'
<1> SUFFICES ASSUME mstream_close PROVE MemInv'
  BY Zenon
<1>1. ~isopen' /\ isopen' \in BOOLEAN
  BY Zenon DEF mstream_close
<1>2. ms'.rsize \in Nat /\ ms'.vsize \in Nat /\ ms'.curpos \in Nat /\ IsStream(ms)'
  BY Zenon DEF mstream_close, NoStream, IsStream
<1> QED BY Zenon, <1>1, <1>2 DEF MemInv, msTypeOK, StreamIsFile

\* For every buffer size, type and sequence of calls: the position, the data
\* and the buffer of a memory stream enclose each other, and what
\* mstream_read can return is what a file would hold.
THEOREM MemStreamIsFile == msSpec => []StreamIsFile
<1>1. msInit => MemInv
  BY Zenon, MemInitOK
<1>2. MemInv /\ [msNext]_msvars => MemInv'
  <2> SUFFICES ASSUME MemInv, [msNext]_msvars PROVE MemInv'
    BY Zenon
  <2>1. ASSUME NEW size \in Sizes, NEW type \in Types, NEW own \in BOOLEAN, fmemopen(size, type, own)
        PROVE  MemInv'
    BY Zenon, <2>1, OpenOK
  <2>2. ASSUME NEW n \in 0 .. MaxWrite, mstream_read(n)
        PROVE  MemInv'
    BY Zenon, <2>2, ReadOK
  <2>3. ASSUME NEW data \in Data, mstream_write(data)
        PROVE  MemInv'
    BY Zenon, <2>3, WriteOK
  <2>4. ASSUME NEW pos \in -MaxWrite .. MaxWrite, NEW whence \in {"SET", "END", "CUR"},
               mstream_seek(pos, whence)
        PROVE  MemInv'
    BY Zenon, <2>4, SeekOK
  <2>5. CASE mstream_close
    BY Zenon, <2>5, CloseOK
  <2>6. CASE UNCHANGED msvars
    BY Zenon, <2>6 DEF msvars, MemInv, msTypeOK, StreamIsFile, IsStream
  <2> QED BY <2>1, <2>2, <2>3, <2>4, <2>5, <2>6 DEF msNext
<1>3. MemInv => StreamIsFile
  BY Zenon DEF MemInv
<1> QED BY <1>1, <1>2, <1>3, PTL DEF msSpec
=============================================================================
