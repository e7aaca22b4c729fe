---------------------------- MODULE ApueDbProofs ----------------------------
(***************************************************************************)
(* Proofs about ApueDb, for any number of processes, keys, data strings,   *)
(* hash chains and records.  First what one step does to the locks, what it*)
(* leaves alone, that every variable keeps its type, and the conjuncts of  *)
(* Inv about the files and their pointers; then the processes, that Inv is *)
(* an inductive invariant, and what follows from it.                       *)
(***************************************************************************)
EXTENDS ApueDbInv, TLAPS

-----------------------------------------------------------------------------
(***************************************************************************)
(* Locks.                                                                  *)
(***************************************************************************)
\* The lock tables, and that write locks are exclusive.
LockInv ==
    /\ rlk \in [Lock -> SUBSET Proc] /\ wlk \in [Lock -> SUBSET Proc]
    /\ LocksExclusive

\* What lock_reg does to the lock tables keeps write locks exclusive.
LEMMA ReadLock ==
    ASSUME LockInv, NEW p \in Proc, NEW l \in Lock, readw_lock(p, l) PROVE LockInv'
  BY DEF LockInv, LocksExclusive, readw_lock

\* The same for writew_lock.
LEMMA WriteLock ==
    ASSUME LockInv, NEW p \in Proc, NEW L, writew_lock(p, L) PROVE LockInv'
  BY DEF LockInv, LocksExclusive, writew_lock

\* The same for un_lock.
LEMMA Unlock ==
    ASSUME LockInv, NEW p \in Proc, NEW L, un_lock(p, L) PROVE LockInv'
  BY DEF LockInv, LocksExclusive, un_lock

\* What a caller may ask for names a key, and a hash chain to lock.
LEMMA MenuKey ==
    ASSUME NEW p \in Proc, NEW r \in Menu[p]
    PROVE  r \in Request /\ r.key \in Key /\ Hash[r.key] \in Chain
  <1>1. r \in Request
    BY Zenon, ValueAssumption
  <1>2. r.key \in Key
    BY Zenon, <1>1 DEF Request
  <1> QED
    BY Zenon, <1>1, <1>2, ValueAssumption

\* Every step keeps write locks exclusive.
LEMMA LockInvStep ==
    ASSUME LockInv, NEW p \in Proc, Step(p) \/ Call(p) PROVE LockInv'
  <1>1. ASSUME UNCHANGED locks PROVE LockInv'
    BY Zenon, <1>1 DEF LockInv, LocksExclusive, locks
  <1>2. CASE Open(p)
    BY Zenon, <1>1, <1>2, WriteLock, Unlock
    DEF Open, OpenCreateDat, OpenLock, OpenInit, OpenUnlock
  <1>3. CASE Find(p)
    BY Zenon, <1>1, <1>3 DEF Find, FindHead, FindNext, FindHit, FindMiss, FetchDat
  <1>4. CASE db_dodelete(p)
    BY Zenon, <1>1, <1>4, WriteLock, Unlock
    DEF db_dodelete, DelDat, DelFree, DelIdx, DelHead, DelUnlink
  <1>5. CASE db_findfree(p)
    BY Zenon, <1>1, <1>5, WriteLock, Unlock
    DEF db_findfree, FreeLock, FreeHead, FreeNext, FreeHit, FreeTake, FreeMiss
  <1>6. CASE Store(p)
    BY Zenon, <1>1, <1>6, Unlock
    DEF Store, StoreHead, ReuseDat, ReuseIdx, Overwrite, Link, LinkQuit, Die
  <1>7. CASE AppendRec(p)
    BY Zenon, <1>1, <1>7, WriteLock, Unlock
    DEF AppendRec, DatSeek, DatWrite, IdxSeek, IdxWrite
  <1>8. CASE Scan(p) \/ Return(p) \/ err_dump(p)
    BY Zenon, <1>1, <1>8, Unlock
    DEF Scan, NextSkip, NextIdx, NextEOF, NextDat, Return, err_dump, Die
  <1>9. CASE Call(p)
    <2>1. FREE_OFF \in Lock
      BY Zenon DEF Lock, IdxLock
    <2>2. ASSUME NEW r \in Menu[p] PROVE Hash[r.key] \in Lock
      BY Zenon, MenuKey DEF Lock, IdxLock
    <2> QED
      BY <1>1, <1>9, <2>1, <2>2, ReadLock, WriteLock, ZenonT(30)
      DEF Call, OpenExisting, OpenCreateIdx, db_close, Restart, db_fetch,
          db_delete, db_store, db_rewind, db_nextrec
  <1> QED
    BY Zenon, <1>2, <1>3, <1>4, <1>5, <1>6, <1>7, <1>8, <1>9 DEF Step

-----------------------------------------------------------------------------
(***************************************************************************)
(* What a step leaves alone.                                               *)
(***************************************************************************)
\* A process changes nothing of the others, and drops none of their locks.
Frame(p) ==
    \A q \in Proc \ {p} :
        /\ pc'[q] = pc[q] /\ h'[q] = h[q] /\ req'[q] = req[q]
        /\ \A l \in Lock : q \in wlk'[l] <=> q \in wlk[l]

\* A step of one process leaves the others' variables alone.
LEMMA FrameStep ==
    ASSUME TypeOK, NEW p \in Proc, Step(p) \/ Call(p) PROVE Frame(p)
  <1> USE DEF TypeOK, Goto, locks, call, Frame
  <1>2. CASE Open(p)
    BY <1>2 DEF Open, OpenCreateDat, OpenLock, OpenInit, OpenUnlock, writew_lock,
                un_lock
  <1>3. CASE Find(p)
    BY ZenonT(40), <1>3 DEF Find, FindHead, FindNext, FindHit, FindMiss, FetchDat, Answers
  <1>4. CASE db_dodelete(p)
    BY <1>4 DEF db_dodelete, DelDat, DelFree, DelIdx, DelHead, DelUnlink, Answers,
                writew_lock, un_lock
  <1>5. CASE db_findfree(p)
    BY <1>5 DEF db_findfree, FreeLock, FreeHead, FreeNext, FreeHit, FreeTake,
                FreeMiss, writew_lock, un_lock
  <1>6. CASE Store(p)
    BY <1>6 DEF Store, StoreHead, ReuseDat, ReuseIdx, Overwrite, Link, LinkQuit,
                Die, Answers, un_lock
  <1>7. CASE AppendRec(p)
    <2>1. CASE DatSeek(p)
      BY Zenon, <2>1 DEF DatSeek, writew_lock
    <2>2. CASE IdxSeek(p)
      BY Zenon, <2>2 DEF IdxSeek, writew_lock
    <2>3. CASE DatWrite(p) \/ IdxWrite(p)
      BY SMTT(30), <2>3 DEF DatWrite, IdxWrite, un_lock
    <2> QED
      BY Zenon, <1>7, <2>1, <2>2, <2>3 DEF AppendRec
  <1>8. CASE Scan(p) \/ Return(p) \/ err_dump(p)
    BY <1>8 DEF Scan, NextSkip, NextIdx, NextEOF, NextDat, Return, err_dump, Die,
                un_lock
  <1>9. CASE OpenExisting(p) \/ OpenCreateIdx(p) \/ db_close(p) \/ Restart(p)
    BY Zenon, <1>9 DEF OpenExisting, OpenCreateIdx, db_close, Restart
  <1>10. CASE db_rewind(p) \/ db_nextrec(p)
    BY Zenon, <1>10 DEF db_rewind, db_nextrec, readw_lock
  <1>11. ASSUME NEW r \in Menu[p], db_fetch(p, r) \/ db_delete(p, r) \/ db_store(p, r)
         PROVE Frame(p)
    BY <1>11 DEF db_fetch, db_delete, db_store, Begin, readw_lock, writew_lock
  <1> QED
    BY Zenon, <1>2, <1>3, <1>4, <1>5, <1>6, <1>7, <1>8, <1>9, <1>10, <1>11
    DEF Step, Call

\* The files only grow, and what is in them keeps its length and its place.
Grows ==
    /\ nidx =< nidx' /\ ndat =< ndat'
    /\ \A r \in 1 .. nidx :
          /\ idx'[r].klen = idx[r].klen
          /\ idx'[r].datoff = idx[r].datoff
          /\ idx'[r].datlen = idx[r].datlen
    /\ \A s \in 1 .. ndat : dat'[s].len = dat[s].len

\* The steps that write nothing.
Reads(p) ==
    \/ OpenLock(p) \/ OpenUnlock(p) \/ Find(p) \/ DelFree(p) \/ FreeLock(p)
    \/ FreeHead(p) \/ FreeNext(p) \/ FreeHit(p) \/ FreeMiss(p) \/ StoreHead(p)
    \/ LinkQuit(p) \/ DatSeek(p) \/ IdxSeek(p) \/ Scan(p) \/ Return(p)
    \/ err_dump(p) \/ (Call(p) /\ ~ OpenCreateIdx(p))

\* A step that only reads leaves the files alone.
LEMMA ReadsFiles == ASSUME NEW p \in Proc, Reads(p) PROVE UNCHANGED files
  BY ZenonT(30)
  DEF Reads, OpenLock, OpenUnlock, Find, FindHead, FindNext, FindHit, FindMiss,
         FetchDat, DelFree, FreeLock, FreeHead, FreeNext, FreeHit, FreeMiss,
         StoreHead, LinkQuit, DatSeek, IdxSeek, Scan, NextSkip, NextIdx, NextEOF,
         NextDat, Return, err_dump, Call, OpenExisting, db_close, Restart,
         db_fetch, db_delete, db_store, Begin, db_rewind, db_nextrec

\* Every step but a creation makes the files longer or leaves their length.
LEMMA GrowsStep ==
    ASSUME Inv, NEW p \in Proc, Step(p) \/ Call(p),
           ~ OpenCreateIdx(p), ~ OpenCreateDat(p)
    PROVE  Grows
  <1> USE SizeAssumption DEF Grows, TypeOK
  <1>1. TypeOK /\ HandleOK(p) /\ AppendOK(p) /\ RecordsOK
    BY Zenon DEF Inv
  <1>8. ASSUME UNCHANGED <<idx, nidx, dat, ndat>> PROVE Grows
    BY <1>1, <1>8
  <1>2. CASE Reads(p)
    BY <1>2, <1>8, ReadsFiles, ZenonT(30) DEF files, idxfile, datfile
  <1>3. CASE OpenInit(p) \/ DelHead(p) \/ DelUnlink(p) \/ FreeTake(p) \/ Link(p)
    BY <1>3, <1>8, ZenonT(30)
    DEF OpenInit, DelHead, DelUnlink, FreeTake, Link, db_writeptr, datfile
  <1>4. CASE DelDat(p) \/ ReuseDat(p) \/ Overwrite(p)
    <2>1. /\ h[p].datoff \in 1 .. ndat
          /\ h[p].datlen = dat[h[p].datoff].len
          /\ ~ DelDat(p) => h[p].datlen = DataLen[req[p].data]
      BY Zenon, <1>1, <1>4 DEF DelDat, ReuseDat, Overwrite, Goto, HandleOK, AtRecord,
                        Deleting, RecordsOK
    <2>2. CASE DelDat(p)
      BY SMTT(40), <1>1, <2>1, <2>2 DEF DelDat, db_writedat, idxfile
    <2>3. CASE ReuseDat(p) \/ Overwrite(p)
      <3>1. db_writedat(h[p].datoff, req[p].data, h[p].datlen) /\ UNCHANGED idxfile
        BY <1>4, <2>1, <2>3, ZenonT(30) DEF DelDat, ReuseDat, Overwrite, Goto
      <3> QED
        BY SMTT(40), <1>1, <2>1, <3>1 DEF db_writedat, idxfile
    <2> QED
      BY Zenon, <1>4, <2>2, <2>3
  <1>5. CASE DelIdx(p) \/ ReuseIdx(p)
    <2>1. /\ h[p].idxoff \in 1 .. nidx
          /\ h[p].klen = idx[h[p].idxoff].klen
          /\ h[p].datoff = idx[h[p].idxoff].datoff
          /\ h[p].datlen = idx[h[p].idxoff].datlen
          /\ ReuseIdx(p) => h[p].klen = KeyLen[req[p].key]
      BY Zenon, <1>1, <1>5 DEF DelIdx, ReuseIdx, Goto, HandleOK, AtRecord, Deleting
    <2>2. PICK k, v : db_writeidx(p, k, h[p].klen, h[p].idxoff, v) /\ UNCHANGED datfile
      BY Zenon, <1>5, <2>1 DEF DelIdx, ReuseIdx
    <2>3. /\ idx \in [Pos -> IdxRec] /\ nidx \in 0 .. MaxIdx /\ ndat \in 0 .. MaxDat
          /\ h[p].idxoff \in Pos
      BY SMTT(40), <1>1, <2>1 DEF Pos
    <2> DEFINE rec == idx'[h[p].idxoff]
    <2>4. nidx' = nidx /\ ndat' = ndat /\ dat' = dat
      <3>1. ndat' = ndat /\ dat' = dat
        BY ZenonT(40), <2>2 DEF datfile
      <3> QED
        BY SMTT(30), <2>1, <2>2, <2>3, <3>1 DEF db_writeidx
    <2>5. \A r \in 1 .. nidx : r # h[p].idxoff => idx'[r] = idx[r]
      BY SMTT(30), <2>1, <2>2, <2>3 DEF db_writeidx
    <2>6. rec.klen = h[p].klen /\ rec.datoff = h[p].datoff /\ rec.datlen = h[p].datlen
      BY Zenon, <2>1, <2>2, <2>3 DEF db_writeidx
    <2> QED
      BY <2>1, <2>3, <2>4, <2>5, <2>6
  <1>6. CASE DatWrite(p)
    BY SMTT(40), <1>1, <1>6 DEF DatWrite, Goto, db_writedat, idxfile, AppendOK
  <1>7. CASE IdxWrite(p)
    BY SMTT(40), <1>1, <1>7 DEF IdxWrite, Goto, db_writeidx, datfile, AppendOK, Pos
  <1> QED
    BY Zenon, <1>2, <1>3, <1>4, <1>5, <1>6, <1>7
    DEF Step, Reads, Open, db_dodelete, db_findfree, Store, AppendRec

-----------------------------------------------------------------------------
(***************************************************************************)
(* Types.                                                                  *)
(***************************************************************************)
FileTypes ==
    /\ hdr \in BOOLEAN
    /\ ptr \in [Loc -> 0 .. MaxIdx]
    /\ idx \in [Pos -> IdxRec] /\ nidx \in 0 .. MaxIdx
    /\ dat \in [1 .. MaxDat -> DatRec] /\ ndat \in 0 .. MaxDat

\* The request of a process that stores has a key and data.
LEMMA StoreRequest ==
    ASSUME NEW p \in Proc, RequestOK(p), pc[p] \in StoreOnly
    PROVE  /\ req[p].key \in Key /\ KeyLen[req[p].key] \in Nat
           /\ req[p].data \in Data /\ DataLen[req[p].data] \in Nat
  <1>1. req[p] \in Request /\ req[p].op = "store"
    BY Zenon DEF RequestOK, StoreOnly, InOp
  <1>2. req[p].key \in Key /\ req[p].data \in Data
    BY Zenon, <1>1 DEF Request
  <1> QED
    BY Zenon, <1>2, ValueAssumption

\* What is known of the DB structure where it is used to write a record.
LEMMA WriterHandle ==
    ASSUME Inv, NEW p \in Proc
    PROVE  /\ pc[p] \in AtRecord \cup {"link"} => h[p].idxoff \in 1 .. nidx
           /\ pc[p] \in AtRecord \cup HasData =>
                 /\ h[p].datoff \in 1 .. ndat
                 /\ h[p].datlen = dat[h[p].datoff].len
           /\ nidx \in 0 .. MaxIdx /\ ndat \in 0 .. MaxDat
           /\ h[p] \in Handle
  <1>1. HandleOK(p) /\ RecordsOK /\ AppendOK(p) /\ TypeOK
    BY Zenon DEF Inv
  <1>2. nidx \in 0 .. MaxIdx /\ ndat \in 0 .. MaxDat /\ h[p] \in Handle
    BY Zenon, <1>1 DEF TypeOK
  <1>3. pc[p] \in AtRecord =>
           /\ h[p].idxoff \in 1 .. nidx
           /\ h[p].datoff = idx[h[p].idxoff].datoff
           /\ h[p].datlen = idx[h[p].idxoff].datlen
    BY Zenon, <1>1 DEF HandleOK
  <1>4. pc[p] = "link" => h[p].idxoff \in 1 .. nidx
    BY Zenon, <1>1 DEF HandleOK
  <1>5. pc[p] \in AtRecord => /\ h[p].datoff \in 1 .. ndat
                              /\ h[p].datlen = dat[h[p].datoff].len
    BY Zenon, <1>1, <1>3 DEF RecordsOK
  <1>6. pc[p] \in HasData => /\ h[p].datoff \in 1 .. ndat
                             /\ h[p].datlen = dat[h[p].datoff].len
    BY Zenon, <1>1 DEF AppendOK
  <1> QED
    BY Zenon, <1>2, <1>3, <1>4, <1>5, <1>6

\* Every step keeps the types of the files.
LEMMA FileTypesStep ==
    ASSUME Inv, NEW p \in Proc, Step(p) \/ Call(p) PROVE FileTypes'
  <1>1. FileTypes /\ h[p] \in Handle /\ RequestOK(p) /\ HandleOK(p) /\ AppendOK(p)
    BY Zenon DEF Inv, TypeOK, FileTypes
  <1>2. CASE Reads(p)
    BY Zenon, <1>1, <1>2, ReadsFiles DEF files, idxfile, datfile, FileTypes
  <1>3. CASE OpenCreateIdx(p)
    <2>1. NoIdx \in IdxRec
      BY SizeAssumption DEF NoIdx, IdxRec
    <2>2. idx' \in [Pos -> IdxRec]
      BY Zenon, <1>3, <2>1 DEF OpenCreateIdx
    <2>3. ptr' \in [Loc -> 0 .. MaxIdx] /\ nidx' \in 0 .. MaxIdx
      BY <1>3, SizeAssumption DEF OpenCreateIdx
    <2> QED
      BY <1>1, <1>3, <2>2, <2>3, ZenonT(30) DEF FileTypes, OpenCreateIdx, datfile
  <1>12. CASE OpenInit(p)
    BY <1>1, <1>12, SizeAssumption DEF FileTypes, OpenInit, datfile
  <1>4. CASE OpenCreateDat(p)
    BY <1>1, <1>4, SizeAssumption DEF FileTypes, OpenCreateDat, idxfile, NoDat, DatRec
  <1>5. ASSUME NEW l, NEW v \in 0 .. MaxIdx, db_writeptr(p, l, v), UNCHANGED datfile
        PROVE  FileTypes'
    BY <1>1, <1>5, ZenonT(30) DEF FileTypes, db_writeptr, datfile
  <1>6. CASE DelHead(p) \/ Link(p)
    <2>1. h[p].idxoff \in 0 .. MaxIdx
      BY SMTT(30), <1>6, WriterHandle, SizeAssumption
      DEF DelHead, Link, Goto, AtRecord, Deleting
    <2> QED
      BY Zenon, <1>5, <1>6, <2>1 DEF DelHead, Link
  <1>7. CASE DelUnlink(p) \/ FreeTake(p)
    <2>1. h[p].saveptr \in 0 .. MaxIdx /\ h[p].ptrval \in 0 .. MaxIdx
      BY Zenon, <1>1 DEF Handle
    <2> QED
      BY Zenon, <1>5, <1>7, <2>1 DEF DelUnlink, FreeTake
  <1>8. ASSUME NEW s \in 1 .. MaxDat, NEW v \in Data \cup {Blank}, NEW n \in Nat,
               db_writedat(s, v, n), UNCHANGED idxfile
        PROVE  FileTypes'
    <2>1. [val |-> v, len |-> n] \in DatRec
      BY Zenon DEF DatRec
    <2> QED
      BY <1>1, <1>8, <2>1, SizeAssumption DEF FileTypes, db_writedat, idxfile
  <1>9. CASE DelDat(p) \/ ReuseDat(p) \/ Overwrite(p) \/ DatWrite(p)
    <2>1. h[p].datlen \in Nat
      BY Zenon, <1>1 DEF Handle
    <2>2. h[p].datoff \in 1 .. MaxDat
      BY <1>1, <1>9, WriterHandle, SizeAssumption
      DEF DelDat, ReuseDat, Overwrite, DatWrite, Goto, AtRecord, Deleting, AppendOK
    <2>3. ~ DelDat(p) => req[p].data \in Data /\ DataLen[req[p].data] \in Nat
      BY Zenon, <1>1, <1>9, StoreRequest DEF ReuseDat, Overwrite, DatWrite, Goto, StoreOnly
    <2> QED
      BY Zenon, <1>8, <1>9, <2>1, <2>2, <2>3 DEF DelDat, ReuseDat, Overwrite, DatWrite
  <1>10. ASSUME NEW r \in Pos, NEW k \in Key \cup {Blank}, NEW n \in Nat,
                NEW v \in 0 .. MaxIdx, h[p].datoff \in 0 .. MaxDat,
                db_writeidx(p, k, n, r, v), UNCHANGED datfile
         PROVE  FileTypes'
    <2>1. [key |-> k, klen |-> n, datoff |-> h[p].datoff, datlen |-> h[p].datlen] \in IdxRec
      BY Zenon, <1>1, <1>10 DEF Handle, IdxRec
    <2>2. idx' \in [Pos -> IdxRec]
      BY Zenon, <1>1, <1>10, <2>1 DEF FileTypes, db_writeidx
    <2>3. nidx' \in 0 .. MaxIdx
      BY <1>1, <1>10, SizeAssumption DEF FileTypes, db_writeidx, Pos
    <2> QED
      BY <1>1, <1>10, <2>2, <2>3, ZenonT(30) DEF FileTypes, db_writeidx, datfile
  <1>11. CASE DelIdx(p) \/ ReuseIdx(p) \/ IdxWrite(p)
    <2>1. h[p].klen \in Nat /\ h[p].freeptr \in 0 .. MaxIdx /\ h[p].head \in 0 .. MaxIdx
      BY Zenon, <1>1 DEF Handle
    <2>2. h[p].idxoff \in Pos
      BY <1>1, <1>11, WriterHandle, SizeAssumption
      DEF DelIdx, ReuseIdx, IdxWrite, Goto, AtRecord, Deleting, AppendOK, Pos
    <2>3. h[p].datoff \in 0 .. MaxDat
      BY <1>11, WriterHandle, SizeAssumption
      DEF DelIdx, ReuseIdx, IdxWrite, Goto, AtRecord, Deleting, HasData
    <2>4. ~ DelIdx(p) => req[p].key \in Key /\ KeyLen[req[p].key] \in Nat
      BY Zenon, <1>1, <1>11, StoreRequest DEF ReuseIdx, IdxWrite, Goto, StoreOnly
    <2> QED
      BY Zenon, <1>10, <1>11, <2>1, <2>2, <2>3, <2>4 DEF DelIdx, ReuseIdx, IdxWrite
  <1> QED
    BY Zenon, <1>2, <1>3, <1>4, <1>6, <1>7, <1>9, <1>11, <1>12
    DEF Step, Reads, Open, db_dodelete, db_findfree, Store, AppendRec

\* Every step leads to a place of the program.
LEMMA PcStep ==
    ASSUME TypeOK, NEW p \in Proc, Step(p) \/ Call(p)
    PROVE  (pc \in [Proc -> {"idle"} \cup Away \cup Creating \cup InOp \cup Scanning])'
  <1> DEFINE Places == {"idle"} \cup Away \cup Creating \cup InOp \cup Scanning
  <1>1. pc \in [Proc -> Places]
    BY Zenon DEF TypeOK
  <1>2. ASSUME NEW to \in Places, pc' = [pc EXCEPT ![p] = to] PROVE pc' \in [Proc -> Places]
    BY Zenon, <1>1, <1>2
  <1>3. /\ {"idle", "closed", "dumped", "quit"} \subseteq Places
        /\ Creating \subseteq Places /\ InOp \subseteq Places /\ Scanning \subseteq Places
    BY Zenon DEF Away
  <1> SUFFICES pc' \in [Proc -> Places]
    BY Zenon
  <1> HIDE DEF Places
  <1> USE DEF Goto
  <1>4. CASE Open(p)
    BY Zenon, <1>2, <1>3, <1>4
    DEF Open, OpenCreateDat, OpenLock, OpenInit, OpenUnlock, Creating
  <1>5. CASE Find(p)
    BY Zenon, <1>2, <1>3, <1>5 DEF Find, FindHead, FindNext, FindHit, FindMiss, FetchDat, InOp
  <1>6. CASE db_dodelete(p)
    BY Zenon, <1>2, <1>3, <1>6 DEF db_dodelete, DelDat, DelFree, DelIdx, DelHead, DelUnlink, InOp
  <1>7. CASE db_findfree(p)
    BY Zenon, <1>2, <1>3, <1>7
    DEF db_findfree, FreeLock, FreeHead, FreeNext, FreeHit, FreeTake, FreeMiss, InOp
  <1>8. CASE Store(p)
    BY Zenon, <1>2, <1>3, <1>8
    DEF Store, StoreHead, ReuseDat, ReuseIdx, Overwrite, Link, LinkQuit, Die, InOp
  <1>9. CASE AppendRec(p)
    BY <1>2, <1>3, <1>9, ZenonT(30)
    DEF AppendRec, DatSeek, DatWrite, IdxSeek, IdxWrite, InOp
  <1>10. CASE Scan(p) \/ Return(p) \/ err_dump(p)
    BY Zenon, <1>2, <1>3, <1>10
    DEF Scan, NextSkip, NextIdx, NextEOF, NextDat, Return, err_dump, Die, Scanning
  <1>11. CASE OpenExisting(p) \/ OpenCreateIdx(p) \/ db_close(p) \/ Restart(p)
    BY Zenon, <1>2, <1>3, <1>11 DEF OpenExisting, OpenCreateIdx, db_close, Restart, Creating
  <1>12. CASE db_rewind(p) \/ db_nextrec(p)
    BY Zenon, <1>1, <1>2, <1>3, <1>12 DEF db_rewind, db_nextrec, Scanning
  <1>13. ASSUME NEW r, Begin(p, r) PROVE pc' \in [Proc -> Places]
    BY <1>2, <1>3, <1>13, ZenonT(30) DEF Begin, InOp
  <1> QED
    BY <1>4, <1>5, <1>6, <1>7, <1>8, <1>9, <1>10, <1>11, <1>12, <1>13, ZenonT(30)
    DEF Step, Call, db_fetch, db_delete, db_store

\* The types of the requests and the answers.
CallTypes == req \in [Proc -> Request \cup {NoReq}] /\ ret \in [Proc -> Answer]

\* Every step keeps them.
LEMMA CallStep == ASSUME TypeOK, NEW p \in Proc, Step(p) \/ Call(p) PROVE CallTypes'
  <1>1. CallTypes
    BY Zenon DEF TypeOK, CallTypes
  <1>2. {Pending, NoData, -1, 0, 1} \subseteq Answer
    BY Zenon DEF Answer
  <1>3. ASSUME UNCHANGED call PROVE CallTypes'
    BY Zenon, <1>1, <1>3 DEF CallTypes, call
  <1>4. ASSUME NEW a \in Answer, Answers(p, a) PROVE CallTypes'
    BY Zenon, <1>1, <1>4 DEF CallTypes, Answers
  <1>5. ASSUME req' = [req EXCEPT ![p] = NoReq], ret' = [ret EXCEPT ![p] = Pending]
        PROVE  CallTypes'
    BY Zenon, <1>1, <1>2, <1>5 DEF CallTypes
  <1> USE <1>2, <1>3, <1>4, <1>5
  <1>6. CASE Open(p)
    BY <1>6, ZenonT(30) DEF Open, OpenCreateDat, OpenLock, OpenInit, OpenUnlock
  <1>7. CASE FetchDat(p)
    <2>1. h[p].datoff \in 1 .. ndat /\ ndat \in 0 .. MaxDat /\ Answers(p, dat[h[p].datoff].val)
      BY <1>7, ZenonT(30) DEF FetchDat, TypeOK
    <2>2. dat[h[p].datoff] \in DatRec
      BY SMTT(30), <2>1, SizeAssumption DEF TypeOK
    <2>3. dat[h[p].datoff].val \in Answer
      BY Zenon, <2>2 DEF DatRec, Answer
    <2> QED
      BY Zenon, <2>1, <2>3
  <1>8. CASE Find(p) /\ ~ FetchDat(p)
    BY <1>8, ZenonT(30) DEF Find, FindHead, FindNext, FindHit, FindMiss
  <1>9. CASE db_dodelete(p)
    BY <1>9, ZenonT(30) DEF db_dodelete, DelDat, DelFree, DelIdx, DelHead, DelUnlink
  <1>10. CASE db_findfree(p)
    BY <1>10, ZenonT(30)
    DEF db_findfree, FreeLock, FreeHead, FreeNext, FreeHit, FreeTake, FreeMiss
  <1>11. CASE Store(p)
    BY <1>11, ZenonT(30)
    DEF Store, StoreHead, ReuseDat, ReuseIdx, Overwrite, Link, LinkQuit, Die
  <1>12. CASE AppendRec(p)
    BY <1>12, ZenonT(30) DEF AppendRec, DatSeek, DatWrite, IdxSeek, IdxWrite
  <1>13. CASE Scan(p) \/ Return(p) \/ err_dump(p)
    BY <1>13, ZenonT(30)
    DEF Scan, NextSkip, NextIdx, NextEOF, NextDat, Return, err_dump, Die
  <1>14. ASSUME NEW r \in Menu[p], Begin(p, r) PROVE CallTypes'
    BY Zenon, <1>1, <1>14, MenuKey DEF Begin, CallTypes
  <1>15. CASE Call(p)
    BY <1>14, <1>15, ZenonT(30)
    DEF Call, OpenExisting, OpenCreateIdx, db_close, Restart, db_fetch, db_delete,
        db_store, db_rewind, db_nextrec
  <1> QED
    BY <1>6, <1>7, <1>8, <1>9, <1>10, <1>11, <1>12, <1>13, <1>15, ZenonT(30) DEF Step

\* The DB structure that _db_readidx fills in.
LEMMA ReadIdxType ==
    ASSUME TypeOK, NEW p \in Proc, NEW r \in 1 .. nidx PROVE db_readidx(p, r) \in Handle
  <1>1. r \in Pos /\ r \in Loc
    BY SizeAssumption DEF TypeOK, Pos, Loc
  <1>2. h[p] \in Handle /\ idx[r] \in IdxRec /\ ptr[r] \in 0 .. MaxIdx
    BY Zenon, <1>1 DEF TypeOK
  <1>3. /\ r \in 0 .. MaxIdx + 1 /\ idx[r].klen \in Nat /\ idx[r].datlen \in Nat
        /\ idx[r].datoff \in 0 .. MaxDat + 1
    BY SMTT(30), <1>1, <1>2, SizeAssumption DEF IdxRec, Pos
  <1> QED
    BY <1>2, <1>3, ZenonT(30) DEF Handle, db_readidx

\* A closed database has a DB structure of the type.
LEMMA NoHandleType == NoHandle \in Handle
  BY SMTT(30), SizeAssumption DEF NoHandle, Handle, Loc

\* Every step keeps the types of the DB structures.
LEMMA HandleStep ==
    ASSUME Inv, NEW p \in Proc, Step(p) \/ Call(p) PROVE (h \in [Proc -> Handle])'
  <1>1. /\ h \in [Proc -> Handle] /\ h[p] \in Handle
        /\ ptr \in [Loc -> 0 .. MaxIdx] /\ nidx \in 0 .. MaxIdx /\ ndat \in 0 .. MaxDat
    BY Zenon DEF Inv, TypeOK
  <1>2. ASSUME NEW x \in Handle, h' = [h EXCEPT ![p] = x] PROVE (h \in [Proc -> Handle])'
    BY Zenon, <1>1, <1>2
  <1>3. ASSUME UNCHANGED h PROVE (h \in [Proc -> Handle])'
    BY Zenon, <1>1, <1>3
  <1>4. CASE Open(p)
    BY <1>3, <1>4, ZenonT(30) DEF Open, OpenCreateDat, OpenLock, OpenInit, OpenUnlock
  <1>5. CASE Return(p) \/ NextDat(p) \/ err_dump(p) \/ LinkQuit(p)
    BY Zenon, <1>2, <1>5, NoHandleType DEF Return, NextDat, err_dump, LinkQuit, Die
  <1>6. ASSUME NEW r \in 1 .. nidx
        PROVE  /\ db_readidx(p, r) \in Handle
               /\ [db_readidx(p, r) EXCEPT !.ptroff = r, !.offset = ptr[r]] \in Handle
               /\ [db_readidx(p, r) EXCEPT !.saveoffset = r, !.offset = ptr[r]] \in Handle
               /\ [db_readidx(p, r) EXCEPT !.found = TRUE] \in Handle
    <2>1. r \in Loc /\ ptr[r] \in 0 .. MaxIdx
      BY <1>1, SizeAssumption DEF Loc, Pos
    <2>2. db_readidx(p, r) \in Handle
      BY Zenon, ReadIdxType DEF Inv
    <2> QED
      BY <2>1, <2>2, ZenonT(30) DEF Handle
  <1>7. CASE FindNext(p) \/ FindHit(p) \/ FreeNext(p) \/ FreeHit(p) \/ NextIdx(p)
    BY <1>2, <1>6, <1>7, ZenonT(30) DEF FindNext, FindHit, FreeNext, FreeHit, NextIdx
  <1>8. CASE FindHead(p) \/ DelFree(p) \/ StoreHead(p) \/ FreeHead(p)
    <2>1. h[p].ptroff \in Loc /\ h[p].chainoff \in Loc /\ FREE_OFF \in Loc
          /\ h[p].ptrval \in 0 .. MaxIdx
      BY Zenon, <1>1 DEF Handle, Loc
    <2>2. ASSUME NEW v \in 0 .. MaxIdx
          PROVE  /\ [h[p] EXCEPT !.offset = v] \in Handle
                 /\ [h[p] EXCEPT !.freeptr = v, !.saveptr = h[p].ptrval] \in Handle
                 /\ [h[p] EXCEPT !.head = v] \in Handle
                 /\ [h[p] EXCEPT !.saveoffset = FREE_OFF, !.offset = v] \in Handle
      BY <1>1, <2>1, ZenonT(30) DEF Handle
    <2>3. PICK x \in Handle : h' = [h EXCEPT ![p] = x]
      BY <1>1, <1>8, <2>1, <2>2, ZenonT(30)
      DEF FindHead, DelFree, StoreHead, FreeHead
    <2> QED
      BY <1>2, <2>3, ZenonT(30)
  <1>9. CASE DelIdx(p) \/ ReuseDat(p) \/ ReuseIdx(p) \/ DatSeek(p) \/ IdxSeek(p)
    <2>1. h[p].freeptr \in 0 .. MaxIdx /\ h[p].head \in 0 .. MaxIdx
      BY Zenon, <1>1 DEF Handle
    <2>2. ReuseDat(p) \/ DatSeek(p) => DataLen[req[p].data] \in Nat
      BY Zenon, StoreRequest DEF ReuseDat, DatSeek, Goto, StoreOnly, Inv
    <2>3. ndat + 1 \in 0 .. MaxDat + 1 /\ nidx + 1 \in 0 .. MaxIdx + 1
      BY <1>1, SizeAssumption
    <2>4. CASE DelIdx(p) \/ ReuseIdx(p)
      <3>1. ASSUME NEW v \in 0 .. MaxIdx PROVE [h[p] EXCEPT !.ptrval = v] \in Handle
        BY Zenon, <1>1 DEF Handle
      <3> QED
        BY Zenon, <1>1, <1>2, <2>1, <2>4, <3>1 DEF DelIdx, ReuseIdx
    <2>5. CASE ReuseDat(p)
      <3>1. [h[p] EXCEPT !.datlen = DataLen[req[p].data]] \in Handle
        BY Zenon, <1>1, <2>2, <2>5 DEF Handle
      <3> QED
        BY Zenon, <1>1, <1>2, <2>5, <3>1 DEF ReuseDat
    <2>6. CASE DatSeek(p)
      <3>1. [h[p] EXCEPT !.datoff = ndat + 1, !.datlen = DataLen[req[p].data]] \in Handle
        BY <1>1, <2>2, <2>3, <2>6, ZenonT(30) DEF Handle
      <3> QED
        BY Zenon, <1>1, <1>2, <2>6, <3>1 DEF DatSeek
    <2>7. CASE IdxSeek(p)
      <3>1. [h[p] EXCEPT !.idxoff = nidx + 1, !.ptrval = h[p].head] \in Handle
        BY <1>1, <2>1, <2>3, ZenonT(30) DEF Handle
      <3> QED
        BY Zenon, <1>1, <1>2, <2>7, <3>1 DEF IdxSeek
    <2> QED
      BY Zenon, <1>9, <2>4, <2>5, <2>6, <2>7
  <1>10. CASE FindMiss(p) \/ FetchDat(p) \/ DelDat(p) \/ DelHead(p) \/ DelUnlink(p)
              \/ FreeLock(p) \/ FreeTake(p) \/ FreeMiss(p) \/ Link(p)
              \/ Overwrite(p) \/ DatWrite(p) \/ IdxWrite(p) \/ NextSkip(p)
              \/ NextEOF(p)
    BY <1>3, <1>10, ZenonT(30)
    DEF FindMiss, FetchDat, DelDat, DelHead, DelUnlink, FreeLock, FreeTake, FreeMiss,
        Link, Overwrite, DatWrite, IdxWrite, NextSkip, NextEOF
  <1>11. CASE Call(p)
    <2>1. ASSUME NEW r \in Menu[p], Begin(p, r) PROVE (h \in [Proc -> Handle])'
      <3>1. Hash[r.key] \in Loc
        BY Zenon, MenuKey DEF Loc
      <3>2. [NoHandle EXCEPT !.chainoff = Hash[r.key], !.ptroff = Hash[r.key]] \in Handle
        BY <3>1, NoHandleType, ZenonT(30) DEF Handle
      <3> QED
        BY <1>2, <2>1, <3>2, ZenonT(30) DEF Begin
    <2> QED
      BY <1>3, <1>11, <2>1, ZenonT(30)
      DEF Call, OpenExisting, OpenCreateIdx, db_close, Restart, db_fetch, db_delete,
          db_store, db_rewind, db_nextrec
  <1> QED
    BY Zenon, <1>4, <1>5, <1>7, <1>8, <1>9, <1>10, <1>11
    DEF Step, Find, db_dodelete, db_findfree, Store, AppendRec, Scan

\* Every step keeps the type of the file positions.
LEMMA PosStep ==
    ASSUME Inv, NEW p \in Proc, Step(p) \/ Call(p)
    PROVE  (pos \in [Proc -> 0 .. MaxIdx + 1])'
  <1>1. /\ pos \in [Proc -> 0 .. MaxIdx + 1] /\ nidx \in 0 .. MaxIdx
        /\ MaxIdx \in Nat
    BY Zenon, SizeAssumption DEF Inv, TypeOK
  <1>2. ASSUME NEW r \in 0 .. MaxIdx + 1, Seek(p, r)
        PROVE  (pos \in [Proc -> 0 .. MaxIdx + 1])'
    BY Zenon, <1>1, <1>2 DEF Seek
  <1>3. ASSUME UNCHANGED pos PROVE (pos \in [Proc -> 0 .. MaxIdx + 1])'
    BY Zenon, <1>1, <1>3
  <1>4. 0 \in 0 .. MaxIdx + 1 /\ 1 \in 0 .. MaxIdx + 1
        /\ \A r \in 0 .. nidx : r + 1 \in 0 .. MaxIdx + 1
    BY <1>1
  <1>5. CASE Open(p) \/ Return(p) \/ err_dump(p)
    BY Zenon, <1>2, <1>3, <1>4, <1>5
    DEF Open, OpenCreateDat, OpenLock, OpenInit, OpenUnlock, Return, err_dump, Die
  <1>6. CASE Find(p) \/ db_findfree(p) \/ Scan(p)
    <2>1. ASSUME NEW r \in 1 .. nidx, Seek(p, r + 1)
          PROVE  (pos \in [Proc -> 0 .. MaxIdx + 1])'
      BY <1>1, <1>2, <2>1
    <2> QED
      BY Zenon, <1>2, <1>3, <1>4, <1>6, <2>1
      DEF Find, FindHead, FindNext, FindHit, FindMiss, FetchDat, db_findfree, FreeLock,
          FreeHead, FreeNext, FreeHit, FreeTake, FreeMiss, Scan, NextSkip, NextIdx,
          NextEOF, NextDat, db_writeptr
  <1>7. CASE DelIdx(p) \/ ReuseIdx(p) \/ IdxWrite(p)
    <2>1. h[p].idxoff + 1 \in 0 .. MaxIdx + 1
      BY SMTT(30), <1>1, <1>7, WriterHandle
      DEF DelIdx, ReuseIdx, IdxWrite, Goto, AtRecord, Deleting, Inv, AppendOK
    <2> QED
      BY ZenonT(30), <1>2, <1>7, <2>1 DEF DelIdx, ReuseIdx, IdxWrite, db_writeidx
  <1>8. CASE (db_dodelete(p) /\ ~ DelIdx(p)) \/ (Store(p) /\ ~ ReuseIdx(p))
             \/ (AppendRec(p) /\ ~ IdxWrite(p))
    <2>1. nidx + 1 \in 0 .. MaxIdx + 1
      BY <1>1
    <2> QED
      BY Zenon, <1>2, <1>3, <1>4, <1>8, <2>1
      DEF db_dodelete, DelDat, DelFree, DelHead, DelUnlink, Store, StoreHead, ReuseDat,
          Overwrite, Link, LinkQuit, Die, AppendRec, DatSeek, DatWrite, IdxSeek,
          db_writeptr
  <1>9. CASE Call(p)
    BY <1>2, <1>3, <1>4, <1>9, ZenonT(30)
    DEF Call, OpenExisting, OpenCreateIdx, db_close, Restart, db_fetch, db_delete,
        db_store, Begin, db_rewind, db_nextrec
  <1> QED
    BY Zenon, <1>5, <1>6, <1>7, <1>8, <1>9 DEF Step, db_dodelete, Store, AppendRec

-----------------------------------------------------------------------------
(***************************************************************************)
(* The files.                                                              *)
(***************************************************************************)
\* A creation of the database finds nobody else in the library.
LEMMA CreateAlone ==
    ASSUME Inv, NEW p \in Proc, OpenCreateIdx(p) \/ OpenCreateDat(p)
    PROVE  /\ \A q \in Proc : pc[q] \notin InOp \cup Scanning /\ h[q] = NoHandle
           /\ UNCHANGED h
           /\ nidx' = 0
  <1>1. \A q \in Proc : OpenOK(q) /\ pc[q] \in Away \cup Creating
    BY Zenon DEF Inv, OpenOK, OpenCreateIdx, OpenCreateDat, Goto, Creating, Away
  <1>2. \A q \in Proc : pc[q] \notin InOp \cup Scanning
    BY <1>1, ZenonT(30) DEF Away, Creating, InOp, Scanning
  <1>3. \A q \in Proc : h[q] = NoHandle
    BY <1>1, <1>2, ZenonT(30) DEF OpenOK, Scanning
  <1> QED
    BY Zenon, <1>1, <1>2, <1>3 DEF OpenOK, OpenCreateIdx, OpenCreateDat, Goto, idxfile

\* Only an append makes a file longer.
LEMMA Lengths ==
    ASSUME Inv, NEW p \in Proc, Step(p) \/ Call(p),
           ~ OpenCreateIdx(p), ~ OpenCreateDat(p)
    PROVE  /\ ~ IdxWrite(p) => nidx' = nidx
           /\ ~ DatWrite(p) => ndat' = ndat
  <1>1. nidx \in Nat /\ ndat \in Nat
    BY SizeAssumption DEF Inv, TypeOK
  <1>2. CASE Reads(p)
    BY Zenon, <1>2, ReadsFiles DEF files, idxfile, datfile
  <1>3. CASE OpenInit(p) \/ DelHead(p) \/ DelUnlink(p) \/ FreeTake(p) \/ Link(p)
    BY Zenon, <1>3 DEF OpenInit, DelHead, DelUnlink, FreeTake, Link, db_writeptr, datfile
  <1>4. CASE DelDat(p) \/ ReuseDat(p) \/ Overwrite(p) \/ DatWrite(p)
    <2>1. ~ DatWrite(p) => h[p].datoff \in 1 .. ndat
      BY Zenon, <1>4, WriterHandle DEF DelDat, ReuseDat, Overwrite, Goto, AtRecord, Deleting
    <2> QED
      BY <1>1, <1>4, <2>1 DEF DelDat, ReuseDat, Overwrite, DatWrite, db_writedat, idxfile
  <1>5. CASE DelIdx(p) \/ ReuseIdx(p) \/ IdxWrite(p)
    <2>1. ~ IdxWrite(p) => h[p].idxoff \in 1 .. nidx
      BY Zenon, <1>5, WriterHandle DEF DelIdx, ReuseIdx, Goto, AtRecord, Deleting
    <2> QED
      BY <1>1, <1>5, <2>1 DEF DelIdx, ReuseIdx, IdxWrite, db_writeidx, datfile
  <1> QED
    BY Zenon, <1>2, <1>3, <1>4, <1>5
    DEF Step, Reads, Open, db_dodelete, db_findfree, Store, AppendRec

\* The four steps of an append.
LEMMA DatSeekEffect ==
    ASSUME Inv, NEW p \in Proc, DatSeek(p)
    PROVE  /\ pc'[p] = "dat_write" /\ h'[p].datoff = ndat + 1
           /\ p \in wlk'[DAT_FILE] /\ UNCHANGED files
  BY Zenon DEF Inv, TypeOK, DatSeek, Goto, Handle, writew_lock, Lock

\* The append of the data, under the lock of the data file.
LEMMA DatWriteEffect ==
    ASSUME Inv, NEW p \in Proc, DatWrite(p)
    PROVE  /\ pc'[p] = "idx_seek" /\ h'[p] = h[p] /\ ndat' = ndat + 1
           /\ h[p].datoff = ndat + 1 /\ p \in wlk[DAT_FILE] /\ UNCHANGED idxfile
           /\ dat'[ndat + 1].len = h[p].datlen
  <1>1. /\ pc'[p] = "idx_seek" /\ h' = h /\ UNCHANGED idxfile
        /\ h[p].datoff = ndat + 1 /\ p \in wlk[DAT_FILE] /\ h[p].datoff =< MaxDat
    BY Zenon DEF Inv, TypeOK, DatWrite, Goto, AppendOK
  <1>2. dat \in [1 .. MaxDat -> DatRec] /\ ndat \in Nat
    BY SizeAssumption DEF Inv, TypeOK
  <1>3. PICK d : db_writedat(h[p].datoff, d, h[p].datlen)
    BY Zenon DEF DatWrite
  <1> QED
    BY <1>1, <1>2, <1>3 DEF db_writedat

\* The seek before the append of the index record.
LEMMA IdxSeekEffect ==
    ASSUME Inv, NEW p \in Proc, IdxSeek(p)
    PROVE  /\ pc[p] = "idx_seek" /\ pc'[p] = "idx_write"
           /\ h'[p].datoff = h[p].datoff /\ h'[p].datlen = h[p].datlen
           /\ h'[p].idxoff = nidx + 1 /\ p \in wlk'[IDX_TAIL] /\ UNCHANGED files
  BY DEF Inv, TypeOK, IdxSeek, Goto, Handle, writew_lock, Lock, IdxLock

\* The append of the index record, under its lock.
LEMMA IdxWriteEffect ==
    ASSUME Inv, NEW p \in Proc, IdxWrite(p)
    PROVE  /\ pc[p] = "idx_write" /\ p \in wlk[IDX_TAIL] /\ nidx' = nidx + 1
           /\ idx'[nidx + 1].datoff = h[p].datoff
           /\ idx'[nidx + 1].datlen = h[p].datlen
  <1>1. /\ pc[p] = "idx_write" /\ h[p].idxoff =< MaxIdx
        /\ p \in wlk[IDX_TAIL] /\ h[p].idxoff = nidx + 1
    BY Zenon DEF Inv, IdxWrite, Goto, AppendOK
  <1>2. idx \in [Pos -> IdxRec] /\ nidx \in Nat
    BY SizeAssumption DEF Inv, TypeOK
  <1>3. PICK k, n, v : db_writeidx(p, k, n, h[p].idxoff, v)
    BY Zenon DEF IdxWrite
  <1> QED
    BY <1>1, <1>2, <1>3 DEF db_writeidx, Pos

\* A record stays inside the data file, and no two share data.
LEMMA RecordsStep ==
    ASSUME Inv, NEW p \in Proc, Step(p) \/ Call(p) PROVE (RecordsOK /\ DataNotShared)'
  <1>1. RecordsOK /\ DataNotShared /\ nidx \in Nat /\ ndat \in Nat
    BY SizeAssumption DEF Inv, TypeOK
  <1>2. CASE OpenCreateIdx(p) \/ OpenCreateDat(p)
    BY <1>2, CreateAlone DEF RecordsOK, DataNotShared
  <1>3. CASE ~ OpenCreateIdx(p) /\ ~ OpenCreateDat(p) /\ ~ IdxWrite(p)
    <2>1. Grows /\ nidx' = nidx /\ ndat' \in Nat
      BY <1>3, GrowsStep, Lengths, FileTypesStep, SizeAssumption DEF FileTypes
    <2> QED
      BY <1>1, <2>1 DEF Grows, RecordsOK, DataNotShared
  <1>4. CASE IdxWrite(p)
    <2>1. ~ OpenCreateIdx(p) /\ ~ OpenCreateDat(p) /\ ~ DatWrite(p)
      BY Zenon, <1>4 DEF IdxWrite, OpenCreateIdx, OpenCreateDat, DatWrite, Goto
    <2>2. Grows /\ UNCHANGED datfile
      BY Zenon, <1>4, <2>1, GrowsStep DEF IdxWrite
    <2>3. /\ h[p].datoff \in 1 .. ndat /\ h[p].datlen = dat[h[p].datoff].len
          /\ \A r \in 1 .. nidx : idx[r].datoff # h[p].datoff
      BY Zenon, <1>4 DEF Inv, AppendOK, HasData, IdxWrite, Goto
    <2>4. /\ nidx' = nidx + 1 /\ idx'[nidx + 1].datoff = h[p].datoff
          /\ idx'[nidx + 1].datlen = h[p].datlen
      BY Zenon, <1>4, IdxWriteEffect
    <2>5. \A r \in 1 .. nidx' : r \in 1 .. nidx \/ r = nidx + 1
      BY SMTT(30), <1>1, <2>4
    <2> QED
      BY SMTT(30), <1>1, <2>2, <2>3, <2>4, <2>5 DEF Grows, RecordsOK, DataNotShared, datfile
  <1> QED
    BY Zenon, <1>2, <1>3, <1>4

\* The pointers of a DB structure and of its owner's locals.
PtrsBelow(x, n) ==
    /\ x.offset =< n /\ x.ptrval =< n /\ x.head =< n
    /\ x.freeptr =< n /\ x.saveptr =< n

\* No pointer leads outside the index file.
LEMMA PointersStep ==
    ASSUME Inv, NEW p \in Proc, Step(p) \/ Call(p) PROVE PointersInFile'
  <1>1. /\ \A l \in Loc : ptr[l] \in Nat /\ ptr[l] =< nidx
        /\ \A q \in Proc : h[q] \in Handle /\ PtrsBelow(h[q], nidx)
        /\ nidx \in Nat /\ nidx' \in Nat
        /\ h \in [Proc -> Handle] /\ ptr \in [Loc -> 0 .. MaxIdx]
    BY SizeAssumption, FileTypesStep DEF Inv, TypeOK, PointersInFile, PtrsBelow, FileTypes
  <1>2. CASE OpenCreateIdx(p)
    <2>1. \A l \in Loc : ptr'[l] = 0
      BY Zenon, <1>2 DEF OpenCreateIdx
    <2>2. nidx' = 0 /\ \A q \in Proc : h'[q] = NoHandle
      BY Zenon, <1>2, CreateAlone
    <2> QED
      BY <2>1, <2>2 DEF PointersInFile, NoHandle
  <1>3. CASE ~ OpenCreateIdx(p)
    <2>1. nidx =< nidx'
      BY <1>1, <1>3, GrowsStep DEF Grows, OpenCreateDat, idxfile
    <2>2. \A l \in Loc : ptr'[l] =< nidx
      <3>1. CASE Reads(p) \/ OpenCreateDat(p)
        BY Zenon, <1>1, <3>1, ReadsFiles DEF files, idxfile, OpenCreateDat
      <3>2. CASE OpenInit(p)
        BY <1>1, <3>2 DEF OpenInit
      <3>3. CASE DelHead(p) \/ DelUnlink(p) \/ FreeTake(p) \/ Link(p)
        <4>1. DelHead(p) \/ Link(p) => h[p].idxoff \in 1 .. nidx
          BY ZenonT(30), WriterHandle DEF DelHead, Link, Goto, AtRecord, Deleting
        <4>2. PICK l, v : v =< nidx /\ db_writeptr(p, l, v)
          BY <1>1, <3>3, <4>1
          DEF DelHead, DelUnlink, FreeTake, Link, PtrsBelow
        <4> QED
          BY Zenon, <1>1, <4>2 DEF db_writeptr
      <3>4. CASE DelIdx(p) \/ ReuseIdx(p) \/ IdxWrite(p)
        BY Zenon, <1>1, <3>4 DEF DelIdx, ReuseIdx, IdxWrite, db_writeidx, PtrsBelow
      <3>5. CASE DelDat(p) \/ ReuseDat(p) \/ Overwrite(p) \/ DatWrite(p)
        BY Zenon, <1>1, <3>5 DEF DelDat, ReuseDat, Overwrite, DatWrite, idxfile
      <3> QED
        BY Zenon, <1>3, <3>1, <3>2, <3>3, <3>4, <3>5
        DEF Step, Reads, Open, db_dodelete, db_findfree, Store, AppendRec
    <2>3. PtrsBelow(h'[p], nidx)
      <3>1. ASSUME NEW x, h' = [h EXCEPT ![p] = x] PROVE h'[p] = x
        BY Zenon, <1>1, <3>1
      <3>2. PtrsBelow(NoHandle, nidx)
        BY SMTT(30), <1>1 DEF NoHandle, PtrsBelow
      <3>3. CASE Return(p) \/ NextDat(p) \/ err_dump(p) \/ LinkQuit(p)
        BY Zenon, <3>1, <3>2, <3>3 DEF Return, NextDat, err_dump, LinkQuit, Die
      <3>4. CASE FindNext(p) \/ FindHit(p) \/ FreeNext(p) \/ FreeHit(p) \/ NextIdx(p)
        <4>1. ASSUME NEW r \in 1 .. nidx
              PROVE  PtrsBelow(db_readidx(p, r), nidx)
                  /\ PtrsBelow([db_readidx(p, r) EXCEPT !.ptroff = r, !.offset = ptr[r]], nidx)
                  /\ PtrsBelow([db_readidx(p, r) EXCEPT !.saveoffset = r, !.offset = ptr[r]], nidx)
                  /\ PtrsBelow([db_readidx(p, r) EXCEPT !.found = TRUE], nidx)
          <5>1. r \in Loc
            BY SizeAssumption DEF Inv, TypeOK, Loc, Pos
          <5> QED
            BY ZenonT(40), <1>1, <5>1 DEF PtrsBelow, db_readidx, Handle
        <4> QED
          BY <3>1, <3>4, <4>1, ZenonT(30)
          DEF FindNext, FindHit, FreeNext, FreeHit, NextIdx
      <3>5. CASE FindHead(p) \/ DelFree(p) \/ StoreHead(p) \/ FreeHead(p)
        <4>1. h[p].ptroff \in Loc /\ h[p].chainoff \in Loc /\ FREE_OFF \in Loc
          BY Zenon, <1>1 DEF Handle, Loc
        <4> QED
          BY <1>1, <3>5, <4>1 DEF FindHead, DelFree, StoreHead, FreeHead, PtrsBelow, Handle
      <3>6. CASE DelIdx(p) \/ ReuseDat(p) \/ ReuseIdx(p) \/ DatSeek(p) \/ IdxSeek(p)
        BY <1>1, <3>6 DEF DelIdx, ReuseDat, ReuseIdx, DatSeek, IdxSeek, PtrsBelow, Handle
      <3>7. ASSUME UNCHANGED h PROVE PtrsBelow(h'[p], nidx)
        BY Zenon, <1>1, <3>7
      <3>8. CASE FindMiss(p) \/ FetchDat(p) \/ DelDat(p) \/ DelHead(p)
                 \/ DelUnlink(p) \/ FreeLock(p) \/ FreeTake(p) \/ FreeMiss(p)
                 \/ Link(p) \/ Overwrite(p) \/ DatWrite(p) \/ IdxWrite(p)
                 \/ NextSkip(p) \/ NextEOF(p) \/ Open(p)
        BY <3>7, <3>8, ZenonT(30)
        DEF FindMiss, FetchDat, DelDat, DelHead, DelUnlink, FreeLock, FreeTake,
            FreeMiss, Link, Overwrite, DatWrite, IdxWrite, NextSkip, NextEOF, Open,
            OpenCreateDat, OpenLock, OpenInit, OpenUnlock
      <3>9. CASE Call(p)
        <4>1. ASSUME NEW r, Begin(p, r) PROVE PtrsBelow(h'[p], nidx)
          <5>1. PICK c : h'[p] = [NoHandle EXCEPT !.chainoff = c, !.ptroff = c]
            BY <3>1, <4>1, ZenonT(30) DEF Begin
          <5> QED
            BY Zenon, <3>2, <5>1, NoHandleType DEF PtrsBelow, Handle
        <4> QED
          BY <3>7, <3>9, <4>1, ZenonT(30)
          DEF Call, OpenExisting, OpenCreateIdx, db_close, Restart, db_fetch,
              db_delete, db_store, db_rewind, db_nextrec
      <3> QED
        BY Zenon, <3>3, <3>4, <3>5, <3>6, <3>8, <3>9
        DEF Step, Find, db_dodelete, db_findfree, Store, AppendRec, Scan
    <2>4. \A q \in Proc : PtrsBelow(h'[q], nidx) /\ h'[q] \in Handle
      BY Zenon, <1>1, <2>3, FrameStep, HandleStep DEF Frame, Inv
    <2>5. \A l \in Loc : ptr'[l] \in Nat
      BY FileTypesStep DEF FileTypes
    <2> QED
      BY <1>1, <2>1, <2>2, <2>4, <2>5, SizeAssumption DEF PointersInFile, PtrsBelow, Handle
  <1> QED
    BY Zenon, <1>2, <1>3

-----------------------------------------------------------------------------
(***************************************************************************)
(* The processes.                                                          *)
(***************************************************************************)
LEMMA RequestStep ==
    ASSUME Inv, NEW p \in Proc, Step(p) \/ Call(p), NEW q \in Proc PROVE RequestOK(q)'
  <1>1. TypeOK /\ RequestOK(p) /\ RequestOK(q)
    BY Zenon DEF Inv
  <1>2. CASE q # p
    BY Zenon, <1>1, <1>2, FrameStep DEF Frame, RequestOK
  <1>3. RequestOK(p)'
    <2>1. PICK P, R : pc \in [Proc -> P] /\ req \in [Proc -> R]
      BY <1>1, ZenonT(30) DEF TypeOK
    <2>2. RequestOK(p)
      BY Zenon, <1>1
    <2>3. ASSUME pc'[p] \notin InOp PROVE RequestOK(p)'
      BY Zenon, <2>3 DEF RequestOK, InOp, StoreOnly, Deleting
    <2> USE DEF Goto
    <2>4. CASE Open(p) \/ Scan(p)
      <3>1. pc'[p] \notin InOp
        BY <2>1, <2>4
        DEF Open, OpenCreateDat, OpenLock, OpenInit, OpenUnlock, Scan, NextSkip, NextIdx,
            NextEOF, NextDat, InOp
      <3> QED
        BY ZenonT(40), <2>3, <3>1
    <2>5. CASE Return(p) \/ err_dump(p) \/ LinkQuit(p)
      <3>1. pc'[p] \notin InOp
        BY <2>1, <2>5 DEF Return, err_dump, LinkQuit, Die, InOp
      <3> QED
        BY Zenon, <2>3, <3>1
    <2>6. CASE OpenExisting(p) \/ OpenCreateIdx(p) \/ db_close(p) \/ Restart(p)
               \/ db_rewind(p) \/ db_nextrec(p)
      <3>1. pc'[p] \notin InOp
        BY SMTT(30), <2>1, <2>6 DEF OpenExisting, OpenCreateIdx, db_close, Restart, db_rewind,
                          db_nextrec, InOp
      <3> QED
        BY Zenon, <2>3, <3>1
    <2>7. ASSUME NEW r \in Menu[p], Begin(p, r) PROVE RequestOK(p)'
      <3>1. pc'[p] = "find_head" /\ req'[p] = r /\ r \in Request
        BY <2>1, <2>7, ValueAssumption, ZenonT(30) DEF Begin
      <3> QED
        BY Zenon, <3>1 DEF RequestOK, StoreOnly, Deleting
    <2> USE DEF RequestOK, InOp, StoreOnly, Deleting, call
    <2>8. CASE Find(p)
      BY <2>1, <2>2, <2>8 DEF Find, FindHead, FindNext, FindHit, FindMiss, FetchDat, Answers
    <2>9. CASE db_dodelete(p)
      BY <2>1, <2>2, <2>9
      DEF db_dodelete, DelDat, DelFree, DelIdx, DelHead, DelUnlink, Answers
    <2>10. CASE db_findfree(p)
      BY Zenon, <2>1, <2>2, <2>10
      DEF db_findfree, FreeLock, FreeHead, FreeNext, FreeHit, FreeTake, FreeMiss
    <2>11. CASE Store(p) /\ ~ LinkQuit(p)
      BY Zenon, <2>1, <2>2, <2>11
      DEF Store, StoreHead, ReuseDat, ReuseIdx, Overwrite, Link, Answers
    <2>12. CASE AppendRec(p)
      BY Zenon, <2>1, <2>2, <2>12 DEF AppendRec, DatSeek, DatWrite, IdxSeek, IdxWrite
    <2> QED
      BY <2>4, <2>5, <2>6, <2>7, <2>8, <2>9, <2>10, <2>11, <2>12, ZenonT(30)
      DEF Step, Call, db_fetch, db_delete, db_store
  <1> QED
    BY Zenon, <1>2, <1>3

\* A process that is not in the library can only enter it or be replaced.
LEMMA Inside == ASSUME NEW p \in Proc, Step(p) PROVE pc[p] \notin Away
  <1> USE DEF Goto, Away
  <1>1. CASE Open(p) \/ Find(p) \/ Return(p)
    BY Zenon, <1>1 DEF Open, OpenCreateDat, OpenLock, OpenInit, OpenUnlock, Find, FindHead,
                FindNext, FindHit, FindMiss, FetchDat, Return
  <1>2. CASE db_dodelete(p) \/ db_findfree(p)
    BY Zenon, <1>2 DEF db_dodelete, DelDat, DelFree, DelIdx, DelHead, DelUnlink,
                db_findfree, FreeLock, FreeHead, FreeNext, FreeHit, FreeTake, FreeMiss
  <1>3. CASE Store(p) \/ AppendRec(p)
    BY Zenon, <1>3 DEF Store, StoreHead, ReuseDat, ReuseIdx, Overwrite, Link, LinkQuit,
                AppendRec, DatSeek, DatWrite, IdxSeek, IdxWrite
  <1>4. CASE Scan(p) \/ err_dump(p)
    BY <1>4, ZenonT(30)
    DEF Scan, NextSkip, NextIdx, NextEOF, NextDat, err_dump, BadRead, DiskFull
  <1> QED
    BY Zenon, <1>1, <1>2, <1>3, <1>4 DEF Step

\* What a process in db_open knows of the files.
LEMMA OpenStep ==
    ASSUME Inv, NEW p \in Proc, Step(p) \/ Call(p), NEW q \in Proc PROVE OpenOK(q)'
  <1>1. TypeOK /\ \A r \in Proc : OpenOK(r)
    BY Zenon DEF Inv
  <1>2. hdr' = hdr \/ hdr' = TRUE \/ OpenCreateIdx(p)
    <2>1. CASE Reads(p)
      BY ZenonT(40), <2>1, ReadsFiles DEF files, idxfile
    <2>2. CASE ~ Reads(p)
      BY <2>2 DEF Step, Reads, Open, OpenCreateDat, OpenInit, db_dodelete, DelDat,
           DelIdx, DelHead, DelUnlink, db_findfree, FreeTake, Store, ReuseDat,
           ReuseIdx, Overwrite, Link, AppendRec, DatWrite, IdxWrite, db_writeptr,
           db_writeidx, idxfile
    <2> QED
      BY <2>1, <2>2, ZenonT(30)
  <1>3. CASE q # p
    <2>1. pc'[q] = pc[q] /\ h'[q] = h[q]
      BY Zenon, <1>1, <1>3, FrameStep DEF Frame
    <2>2. CASE pc[q] \in Creating
      <3>1. pc[p] \in Away /\ \A r \in Proc \ {q} : pc[r] \in Away
        BY Zenon, <1>1, <1>3, <2>2 DEF OpenOK
      <3>2. Restart(p)
        BY <1>3, <2>2, <3>1, Inside, ZenonT(30)
        DEF Call, OpenExisting, OpenCreateIdx, db_close, db_fetch, db_delete, db_store,
            Begin, db_rewind, db_nextrec, Goto, Away, Creating
      <3>3. \A r \in Proc \ {q} : pc'[r] \in Away
        BY Zenon, <1>1, <3>1, <3>2 DEF Restart, Away, TypeOK
      <3> QED
        BY Zenon, <1>1, <2>1, <2>2, <3>2, <3>3 DEF OpenOK, Restart, files, idxfile
    <2>3. CASE pc[q] \notin Creating
      <3>1. OpenCreateIdx(p) => pc[q] \in Away
        BY Zenon, <1>3 DEF OpenCreateIdx
      <3> QED
        BY <1>1, <1>2, <2>1, <2>3, <3>1 DEF OpenOK, Creating
    <2> QED
      BY Zenon, <2>2, <2>3
  <1>4. OpenOK(p)'
    <2> USE DEF OpenOK, Goto, Away, Creating
    <2>1. pc \in [Proc -> {"idle"} \cup Away \cup Creating \cup InOp \cup Scanning]
          /\ h \in [Proc -> Handle] /\ OpenOK(p)
      BY Zenon, <1>1 DEF TypeOK
    <2>2. \A r \in Proc \ {p} : pc'[r] = pc[r]
      BY Zenon, <1>1, FrameStep DEF Frame
    <2>3. CASE OpenCreateIdx(p)
      BY ZenonT(30), <2>1, <2>2, <2>3 DEF OpenCreateIdx, InOp, Scanning
    <2>4. CASE Open(p)
      BY SMTT(30), <2>1, <2>2, <2>4
      DEF Open, OpenCreateDat, OpenLock, OpenInit, OpenUnlock, InOp, Scanning, files,
          idxfile
    <2>5. CASE ~ OpenCreateIdx(p) /\ ~ Open(p)
      <3>1. /\ pc'[p] \notin Creating
            /\ pc'[p] \notin Away => hdr
            /\ pc'[p] \notin InOp \cup {"next_dat"} => h'[p] = NoHandle
        <4> USE DEF InOp, Scanning
        <4>1. CASE Find(p)
          BY <2>1, <4>1 DEF Find, FindHead, FindNext, FindHit, FindMiss, FetchDat
        <4>2. CASE db_dodelete(p)
          BY <2>1, <4>2 DEF db_dodelete, DelDat, DelFree, DelIdx, DelHead, DelUnlink
        <4>3. CASE db_findfree(p)
          BY <2>1, <4>3
          DEF db_findfree, FreeLock, FreeHead, FreeNext, FreeHit, FreeTake, FreeMiss
        <4>4. CASE Store(p)
          BY <2>1, <4>4
          DEF Store, StoreHead, ReuseDat, ReuseIdx, Overwrite, Link, LinkQuit, Die
        <4>5. CASE AppendRec(p)
          BY SMTT(30), <2>1, <4>5 DEF AppendRec, DatSeek, DatWrite, IdxSeek, IdxWrite
        <4>6. CASE Scan(p)
          BY ZenonT(30), <2>1, <4>6 DEF Scan, NextSkip, NextIdx, NextEOF, NextDat
        <4>7. CASE Return(p) \/ err_dump(p)
          BY <2>1, <4>7 DEF Return, err_dump, Die
        <4>8. CASE Call(p)
          BY ZenonT(40), <2>1, <2>5, <4>8
          DEF Call, OpenExisting, db_close, Restart, db_fetch, db_delete, db_store,
              Begin, db_rewind, db_nextrec
        <4> QED
          BY <2>5, <4>1, <4>2, <4>3, <4>4, <4>5, <4>6, <4>7, <4>8, ZenonT(30)
          DEF Step
      <3> QED
        BY Zenon, <1>2, <2>5, <3>1
    <2> QED
      BY Zenon, <2>3, <2>4, <2>5
  <1> QED
    BY Zenon, <1>3, <1>4

-----------------------------------------------------------------------------
(***************************************************************************)
(* The handles.                                                            *)
(***************************************************************************)
\* Where HandleOK says something.
HandleUsed == AtRecord \cup {"dat_write", "link"}

\* What a DB structure says of the record it is at stays true.
LEMMA HandleOKStep ==
    ASSUME Inv, NEW p \in Proc, Step(p) \/ Call(p), NEW q \in Proc PROVE HandleOK(q)'
  <1>1. /\ TypeOK /\ HandleOK(p) /\ HandleOK(q) /\ AppendOK(p)
        /\ nidx \in Nat /\ nidx' \in Nat
        /\ h \in [Proc -> Handle] /\ h[p] \in Handle
        /\ pc \in [Proc -> {"idle"} \cup Away \cup Creating \cup InOp \cup Scanning]
    BY SMTT(30), FileTypesStep, SizeAssumption DEF Inv, TypeOK, FileTypes
  <1>2. ASSUME NEW r \in Proc, pc'[r] \notin HandleUsed PROVE HandleOK(r)'
    BY Zenon, <1>2 DEF HandleOK, HandleUsed, AtRecord, Deleting
  <1>3. CASE OpenCreateIdx(p) \/ OpenCreateDat(p)
    <2>1. pc'[q] \notin HandleUsed
      <3>1. CASE q = p
        BY Zenon, <1>1, <1>3, <3>1
        DEF OpenCreateIdx, OpenCreateDat, Goto, HandleUsed, AtRecord, Deleting
      <3>2. CASE q # p
        <4>1. pc'[q] \notin InOp \cup Scanning
          BY ZenonT(40), <1>1, <1>3, <3>2, CreateAlone, FrameStep DEF Frame
        <4> QED
          BY Zenon, <4>1 DEF InOp, Scanning, HandleUsed, AtRecord, Deleting
      <3> QED
        BY Zenon, <3>1, <3>2
    <2> QED
      BY Zenon, <1>2, <2>1
  <1>4. CASE ~ OpenCreateIdx(p) /\ ~ OpenCreateDat(p)
    <2>1. Grows
      BY ZenonT(40), <1>4, GrowsStep
    <2>2. CASE q # p
      <3>1. pc'[q] = pc[q] /\ h'[q] = h[q] /\ req'[q] = req[q]
        BY Zenon, <1>1, <2>2, FrameStep DEF Frame
      <3> QED
        BY <1>1, <2>1, <3>1 DEF HandleOK, Grows
    <2>3. HandleOK(p)'
      <3> USE DEF Goto, call
      <3>1. ASSUME pc[p] \in AtRecord, pc'[p] \in Deleting, UNCHANGED req,
                   h'[p].idxoff = h[p].idxoff, h'[p].klen = h[p].klen,
                   h'[p].datoff = h[p].datoff, h'[p].datlen = h[p].datlen
            PROVE  HandleOK(p)'
        BY <1>1, <2>1, <3>1 DEF HandleOK, Grows, Deleting
      <3>2. CASE DelDat(p) \/ DelFree(p) \/ DelIdx(p) \/ DelHead(p)
        BY SMTT(40), <1>1, <3>1, <3>2
        DEF DelDat, DelFree, DelIdx, DelHead, AtRecord, Deleting, Handle
      <3>3. CASE FreeTake(p) \/ ReuseDat(p)
        <4>1. /\ pc[p] \in {"free_take", "reuse_dat"} /\ pc'[p] \in {"reuse_dat", "reuse_idx"}
              /\ req'[p] = req[p]
          BY Zenon, <1>1, <3>3 DEF FreeTake, ReuseDat
        <4>2. /\ h'[p].idxoff = h[p].idxoff /\ h'[p].klen = h[p].klen
              /\ h'[p].datoff = h[p].datoff /\ h'[p].datlen = h[p].datlen
          BY <1>1, <3>3 DEF FreeTake, ReuseDat, Handle, HandleOK
        <4> QED
          BY <1>1, <2>1, <4>1, <4>2 DEF HandleOK, Grows, AtRecord
      <3>4. CASE ReuseIdx(p) \/ IdxWrite(p)
        <4>1. pc'[p] = "link" /\ h'[p].idxoff = h[p].idxoff
          BY SMTT(40), <1>1, <3>4 DEF ReuseIdx, IdxWrite, Handle
        <4>2. h[p].idxoff \in 1 .. nidx'
          BY <1>1, <2>1, <3>4
          DEF ReuseIdx, IdxWrite, db_writeidx, HandleOK, AppendOK, AtRecord, Grows
        <4> QED
          BY Zenon, <4>1, <4>2 DEF HandleOK, AtRecord, Deleting
      <3>5. CASE DatSeek(p)
        BY Zenon, <1>1, <3>5 DEF DatSeek, HandleOK, AtRecord, Deleting, Handle
      <3>6. ASSUME NEW r \in 1 .. nidx
            PROVE  /\ db_readidx(p, r).idxoff = r
                   /\ db_readidx(p, r).klen = idx[r].klen
                   /\ db_readidx(p, r).datoff = idx[r].datoff
                   /\ db_readidx(p, r).datlen = idx[r].datlen
                   /\ db_readidx(p, r) \in Handle
        BY ZenonT(40), <1>1, ReadIdxType DEF db_readidx, Handle
      <3>7. CASE FindHit(p)
        <4> DEFINE r == h[p].offset
        <4>1. /\ r \in 1 .. nidx /\ UNCHANGED files /\ req'[p] = req[p]
              /\ h'[p] = [db_readidx(p, r) EXCEPT !.found = TRUE]
          BY Zenon, <1>1, <3>7 DEF FindHit, Answers
        <4>2. /\ h'[p].idxoff = r /\ h'[p].klen = idx[r].klen
              /\ h'[p].datoff = idx[r].datoff /\ h'[p].datlen = idx[r].datlen
          BY <3>6, <4>1 DEF Handle
        <4>3. /\ pc'[p] \in {"fetch_dat", "del_dat", "unlock", "overwrite"}
              /\ pc'[p] = "overwrite" => DataLen[req[p].data] = idx[r].datlen
          BY Zenon, <1>1, <3>7 DEF FindHit, SameSize
        <4> QED
          BY Zenon, <4>1, <4>2, <4>3 DEF HandleOK, files, idxfile
      <3>8. CASE FreeHit(p)
        <4> DEFINE r == h[p].offset
        <4>1. /\ r \in 1 .. nidx /\ UNCHANGED files /\ req'[p] = req[p]
              /\ h'[p] = db_readidx(p, r) /\ pc'[p] = "free_take"
              /\ idx[r].klen = KeyLen[req[p].key] /\ idx[r].datlen = DataLen[req[p].data]
          BY Zenon, <1>1, <3>8 DEF FreeHit, Fits
        <4> HIDE DEF r
        <4> QED
          BY <3>6, <4>1 DEF HandleOK, files, idxfile
      <3>9. CASE NextIdx(p)
        <4> DEFINE r == pos[p]
        <4>1. /\ r \in 1 .. nidx /\ UNCHANGED files
              /\ h'[p] = db_readidx(p, r) /\ pc'[p] = "next_dat"
          BY Zenon, <1>1, <3>9 DEF NextIdx
        <4> HIDE DEF r
        <4> QED
          BY <3>6, <4>1 DEF HandleOK, files, idxfile
      <3>10. CASE Open(p) \/ Return(p) \/ err_dump(p) \/ (Scan(p) /\ ~ NextIdx(p))
        <4>1. pc'[p] \notin HandleUsed
          BY <1>1, <3>10, ZenonT(30)
          DEF Open, OpenCreateDat, OpenLock, OpenInit, OpenUnlock, Return, err_dump,
              Die, Scan, NextSkip, NextEOF, NextDat, HandleUsed, AtRecord, Deleting
        <4> QED
          BY Zenon, <1>2, <4>1
      <3>11. CASE (Find(p) /\ ~ FindHit(p)) \/ DelUnlink(p)
        <4>1. pc'[p] \notin HandleUsed
          BY SMTT(40), <1>1, <3>11
          DEF Find, FindHead, FindNext, FindMiss, FetchDat, DelUnlink, HandleUsed,
              AtRecord, Deleting
        <4> QED
          BY Zenon, <1>2, <4>1
      <3>12. CASE FreeLock(p) \/ FreeHead(p) \/ FreeNext(p) \/ FreeMiss(p)
                  \/ StoreHead(p) \/ Overwrite(p) \/ Link(p) \/ LinkQuit(p)
                  \/ DatWrite(p) \/ IdxSeek(p)
        <4>1. pc'[p] \notin HandleUsed
          BY <1>1, <3>12
          DEF FreeLock, FreeHead, FreeNext, FreeMiss, StoreHead, Overwrite, Link,
              LinkQuit, Die, DatWrite, IdxSeek, HandleUsed, AtRecord, Deleting
        <4> QED
          BY Zenon, <1>2, <4>1
      <3>13. CASE Call(p)
        <4>1. pc'[p] \notin HandleUsed
          BY ZenonT(40), <1>1, <3>13
          DEF Call, OpenExisting, OpenCreateIdx, db_close, Restart, db_fetch, db_delete,
              db_store, Begin, db_rewind, db_nextrec, HandleUsed, AtRecord, Deleting
        <4> QED
          BY Zenon, <1>2, <4>1
      <3> QED
        BY ZenonT(40), <3>2, <3>3, <3>4, <3>5, <3>7, <3>8, <3>9, <3>10, <3>11, <3>12, <3>13
        DEF Step, db_dodelete, db_findfree, Store, AppendRec
    <2> QED
      BY Zenon, <2>2, <2>3
  <1> QED
    BY Zenon, <1>3, <1>4

\* Where AppendOK says something.
Appending == HasData \cup {"dat_write"}

\* What an append knows of the ends of the files stays true.
LEMMA AppendOKStep ==
    ASSUME Inv, NEW p \in Proc, Step(p) \/ Call(p), NEW q \in Proc PROVE AppendOK(q)'
  <1>1. /\ TypeOK /\ LocksExclusive /\ \A r \in Proc : AppendOK(r)
        /\ nidx \in Nat /\ nidx' \in Nat /\ ndat \in Nat /\ ndat' \in Nat
        /\ h \in [Proc -> Handle] /\ h[p] \in Handle
        /\ pc \in [Proc -> {"idle"} \cup Away \cup Creating \cup InOp \cup Scanning]
    BY SMTT(40), FileTypesStep, SizeAssumption DEF Inv, TypeOK, FileTypes
  <1>2. ASSUME NEW r \in Proc, pc'[r] \notin Appending PROVE AppendOK(r)'
    BY <1>2, ZenonT(30) DEF AppendOK, Appending, HasData
  <1>3. \A r \in Proc \ {p} : /\ pc'[r] = pc[r] /\ h'[r] = h[r]
                              /\ \A l \in Lock : r \in wlk'[l] <=> r \in wlk[l]
    BY Zenon, <1>1, FrameStep DEF Frame
  <1>4. CASE OpenCreateIdx(p) \/ OpenCreateDat(p)
    <2>1. pc'[q] \notin Appending
      <3>1. CASE q = p
        BY Zenon, <1>1, <1>4, <3>1 DEF OpenCreateIdx, OpenCreateDat, Goto, Appending, HasData
      <3>2. CASE q # p
        <4>1. pc'[q] \notin InOp
          BY Zenon, <1>3, <1>4, <3>2, CreateAlone
        <4> QED
          BY Zenon, <4>1 DEF InOp, Appending, HasData
      <3> QED
        BY Zenon, <3>1, <3>2
    <2> QED
      BY Zenon, <1>2, <2>1
  <1>5. CASE ~ OpenCreateIdx(p) /\ ~ OpenCreateDat(p)
    <2>1. /\ Grows
          /\ ~ IdxWrite(p) => nidx' = nidx
          /\ ~ DatWrite(p) => ndat' = ndat
      BY Zenon, <1>5, GrowsStep, Lengths
    <2>2. {DAT_FILE, IDX_TAIL} \subseteq Lock
      BY Zenon DEF Lock, IdxLock
    <2>3. pc'[p] \in Appending => DatSeek(p) \/ DatWrite(p) \/ IdxSeek(p)
      <3> USE DEF Goto, Appending, HasData
      <3>1. CASE Open(p) \/ Return(p) \/ err_dump(p) \/ Scan(p)
        BY ZenonT(40), <1>1, <3>1
        DEF Open, OpenCreateDat, OpenLock, OpenInit, OpenUnlock, Return, err_dump,
            Die, Scan, NextSkip, NextIdx, NextEOF, NextDat
      <3>2. CASE Find(p) \/ db_dodelete(p)
        BY <1>1, <3>2
        DEF Find, FindHead, FindNext, FindHit, FindMiss, FetchDat, db_dodelete, DelDat,
            DelFree, DelIdx, DelHead, DelUnlink
      <3>3. CASE db_findfree(p)
        BY Zenon, <1>1, <3>3
        DEF db_findfree, FreeLock, FreeHead, FreeNext, FreeHit, FreeTake, FreeMiss
      <3>4. CASE Store(p) \/ IdxWrite(p)
        BY Zenon, <1>1, <3>4
        DEF Store, StoreHead, ReuseDat, ReuseIdx, Overwrite, Link, LinkQuit, Die, IdxWrite
      <3>5. CASE Call(p)
        BY <1>1, <3>5, ZenonT(30)
        DEF Call, OpenExisting, OpenCreateIdx, db_close, Restart, db_fetch, db_delete,
            db_store, Begin, db_rewind, db_nextrec
      <3> QED
        BY Zenon, <3>1, <3>2, <3>3, <3>4, <3>5 DEF Step, AppendRec
    <2>4. DatWrite(p) => /\ pc'[p] = "idx_seek" /\ h'[p] = h[p] /\ ndat' = ndat + 1
                         /\ h[p].datoff = ndat + 1 /\ p \in wlk[DAT_FILE]
                         /\ UNCHANGED idxfile
                         /\ dat'[ndat + 1].len = h[p].datlen
      BY Zenon, DatWriteEffect
    <2>5. IdxSeek(p) => /\ pc[p] = "idx_seek" /\ pc'[p] = "idx_write"
                        /\ h'[p].datoff = h[p].datoff /\ h'[p].datlen = h[p].datlen
                        /\ h'[p].idxoff = nidx + 1 /\ p \in wlk'[IDX_TAIL]
                        /\ UNCHANGED files
      BY Zenon, IdxSeekEffect
    <2>6. DatSeek(p) => /\ pc'[p] = "dat_write" /\ h'[p].datoff = ndat + 1
                        /\ p \in wlk'[DAT_FILE] /\ UNCHANGED files
      BY Zenon, DatSeekEffect
    <2>7. IdxWrite(p) => /\ pc[p] = "idx_write" /\ p \in wlk[IDX_TAIL]
                         /\ nidx' = nidx + 1 /\ idx'[nidx + 1].datoff = h[p].datoff
      BY Zenon, IdxWriteEffect
    <2>8. CASE q # p
      <3>1. /\ pc'[q] = pc[q] /\ h'[q] = h[q]
            /\ \A l \in Lock : q \in wlk'[l] <=> q \in wlk[l]
        BY Zenon, <1>3, <2>8
      <3>2. pc[q] = "dat_write" => q \in wlk'[DAT_FILE] /\ h[q].datoff = ndat' + 1
        BY SMTT(40), <1>1, <2>1, <2>2, <2>4, <2>8, <3>1 DEF AppendOK, LocksExclusive
      <3>3. pc[q] = "idx_write" => q \in wlk'[IDX_TAIL] /\ h[q].idxoff = nidx' + 1
        BY SMTT(40), <1>1, <2>1, <2>2, <2>7, <2>8, <3>1 DEF AppendOK, LocksExclusive
      <3>4. ASSUME pc[q] \in HasData
            PROVE  /\ h[q].datoff \in 1 .. ndat /\ h[q].datoff \in 1 .. ndat'
                   /\ h[q].datlen = dat'[h[q].datoff].len
        <4>1. h[q].datoff \in 1 .. ndat /\ h[q].datlen = dat[h[q].datoff].len
          BY Zenon, <1>1, <3>4 DEF AppendOK
        <4> QED
          BY <1>1, <2>1, <4>1 DEF Grows
      <3>5. ASSUME pc[q] \in HasData, NEW r \in 1 .. nidx'
            PROVE  idx'[r].datoff # h[q].datoff
        <4>1. CASE r \in 1 .. nidx
          BY SMTT(40), <1>1, <2>1, <3>5, <4>1 DEF AppendOK, Grows
        <4>2. CASE r \notin 1 .. nidx
          <5>1. IdxWrite(p) /\ r = nidx + 1
            BY <1>1, <2>1, <2>7, <4>2
          <5> QED
            BY <1>1, <2>7, <2>8, <3>5, <5>1 DEF AppendOK, HasData
        <4> QED
          BY Zenon, <4>1, <4>2
      <3>6. ASSUME pc[q] \in HasData, NEW r \in Proc \ {q}, pc'[r] \in HasData
            PROVE  h'[r].datoff # h[q].datoff
        <4>1. CASE r # p
          BY <1>1, <1>3, <3>6, <4>1 DEF AppendOK
        <4>2. CASE r = p
          <5>1. DatWrite(p) \/ IdxSeek(p)
            BY Zenon, <2>3, <2>6, <3>6, <4>2 DEF Appending, HasData
          <5>2. CASE DatWrite(p)
            BY SMTT(40), <1>1, <2>4, <3>4, <3>6, <4>2, <5>2
          <5>3. CASE IdxSeek(p)
            BY <1>1, <2>5, <2>8, <3>6, <4>2, <5>3 DEF AppendOK, HasData
          <5> QED
            BY Zenon, <5>1, <5>2, <5>3
        <4> QED
          BY Zenon, <4>1, <4>2
      <3> QED
        BY Zenon, <3>1, <3>2, <3>3, <3>4, <3>5, <3>6 DEF AppendOK
    <2>9. CASE q = p
      <3>1. CASE DatSeek(p)
        BY ZenonT(40), <2>6, <2>9, <3>1 DEF AppendOK, HasData, files, datfile
      <3>2. CASE DatWrite(p)
        <4>1. \A r \in 1 .. nidx : idx[r].datoff \in 1 .. ndat
          BY Zenon DEF Inv, RecordsOK
        <4>2. \A r \in Proc \ {p} : pc[r] \in HasData => h[r].datoff \in 1 .. ndat
          BY ZenonT(40), <1>1 DEF AppendOK
        <4> QED
          BY <1>1, <1>3, <2>4, <2>9, <3>2, <4>1, <4>2
          DEF AppendOK, HasData, idxfile
      <3>3. CASE IdxSeek(p)
        BY <1>1, <1>3, <2>5, <2>9, <3>3
        DEF AppendOK, HasData, files, idxfile, datfile
      <3> QED
        BY Zenon, <1>2, <2>3, <2>9, <3>1, <3>2, <3>3
    <2> QED
      BY Zenon, <2>8, <2>9
  <1> QED
    BY Zenon, <1>4, <1>5

-----------------------------------------------------------------------------
(***************************************************************************)
(* The theorems.                                                           *)
(***************************************************************************)
LEMMA InitInv == Init => Inv
  <1> SUFFICES ASSUME Init PROVE Inv
    BY Zenon
  <1>1. NoIdx \in IdxRec /\ NoDat \in DatRec /\ NoHandle \in Handle
    BY SizeAssumption, NoHandleType DEF NoIdx, IdxRec, NoDat, DatRec
  <1>2. TypeOK
    <2>1. FileTypes
      <3>1. idx \in [Pos -> IdxRec]
        BY Zenon, <1>1 DEF Init
      <3>2. dat \in [1 .. MaxDat -> DatRec]
        BY Zenon, <1>1 DEF Init
      <3>3. 0 \in 0 .. MaxIdx /\ 0 \in 0 .. MaxDat
        BY SizeAssumption
      <3>4. ptr \in [Loc -> 0 .. MaxIdx]
        BY Zenon, <3>3 DEF Init
      <3> QED
        BY <3>1, <3>2, <3>3, <3>4, ZenonT(30) DEF Init, FileTypes
    <2>2. /\ rlk \in [Lock -> SUBSET Proc] /\ wlk \in [Lock -> SUBSET Proc]
          /\ pc \in [Proc -> {"idle"} \cup Away \cup Creating \cup InOp \cup Scanning]
          /\ req \in [Proc -> Request \cup {NoReq}] /\ ret \in [Proc -> Answer]
          /\ h \in [Proc -> Handle]
      BY Zenon, <1>1 DEF Init, Away, Answer
    <2>3. pos \in [Proc -> 0 .. MaxIdx + 1]
      BY SMTT(40), SizeAssumption DEF Init
    <2> QED
      BY Zenon, <2>1, <2>2, <2>3 DEF TypeOK, FileTypes
  <1>3. LocksExclusive /\ PointersInFile /\ RecordsOK /\ DataNotShared
    BY DEF Init, LocksExclusive, PointersInFile, RecordsOK, DataNotShared, NoHandle
  <1>4. \A p \in Proc : OpenOK(p) /\ RequestOK(p) /\ HandleOK(p) /\ AppendOK(p)
    BY ZenonT(30)
    DEF Init, OpenOK, RequestOK, HandleOK, AppendOK, Creating, Away, InOp, StoreOnly,
           Deleting, AtRecord, HasData
  <1> QED
    BY Zenon, <1>2, <1>3, <1>4 DEF Inv

\* Every step keeps the invariant.
LEMMA NextInv == Inv /\ [Next]_vars => Inv'
  <1> SUFFICES ASSUME Inv, [Next]_vars PROVE Inv'
    BY Zenon
  <1>1. CASE UNCHANGED vars
    <2>0. UNCHANGED <<hdr, ptr, idx, nidx, dat, ndat, rlk, wlk, pc, req, ret, h, pos>>
      BY Zenon, <1>1 DEF vars, files, idxfile, datfile, locks, call
    <2>1. TypeOK' /\ LocksExclusive'
      BY Zenon, <2>0 DEF Inv, TypeOK, LocksExclusive
    <2>2. PointersInFile' /\ RecordsOK' /\ DataNotShared'
      BY Zenon, <2>0 DEF Inv, PointersInFile, RecordsOK, DataNotShared
    <2>3. \A p \in Proc : OpenOK(p)' /\ RequestOK(p)'
      BY Zenon, <2>0 DEF Inv, OpenOK, RequestOK
    <2>4. \A p \in Proc : HandleOK(p)'
      BY Zenon, <2>0 DEF Inv, HandleOK
    <2>5. \A p \in Proc : AppendOK(p)'
      BY Zenon, <2>0 DEF Inv, AppendOK
    <2> QED
      BY Zenon, <2>1, <2>2, <2>3, <2>4, <2>5 DEF Inv
  <1>2. ASSUME NEW p \in Proc, Step(p) \/ Call(p) PROVE Inv'
    <2>1. TypeOK /\ LockInv
      BY Zenon DEF Inv, TypeOK, LockInv
    <2>2. LockInv'
      BY Zenon, <1>2, <2>1, LockInvStep
    <2>3. TypeOK'
      BY Zenon, <1>2, <2>1, <2>2, FileTypesStep, PcStep, CallStep, HandleStep, PosStep
      DEF TypeOK, FileTypes, CallTypes, LockInv
    <2>4. PointersInFile' /\ RecordsOK' /\ DataNotShared'
      BY Zenon, <1>2, PointersStep, RecordsStep
    <2>5. \A q \in Proc : (OpenOK(q) /\ RequestOK(q) /\ HandleOK(q) /\ AppendOK(q))'
      BY Zenon, <1>2, OpenStep, RequestStep, HandleOKStep, AppendOKStep
    <2> QED
      BY Zenon, <2>2, <2>3, <2>4, <2>5 DEF Inv, LockInv
  <1> QED
    BY Zenon, <1>1, <1>2 DEF Next

\* Inv holds in every reachable state, whatever the interleaving of the
\* library calls of db.c.
THEOREM Invariance == Spec => []Inv
  BY InitInv, NextInv, PTL DEF Spec

\* Every variable keeps its type: no offset that db.c stores or holds leaves
\* the file, and no process reaches a place that the library does not have.
THEOREM TypeCorrect == Spec => []TypeOK
  <1>1. Inv => TypeOK
    BY Zenon DEF Inv
  <1> QED
    BY <1>1, Invariance, PTL

\* A write lock of lock_reg excludes every other holder.
THEOREM LockExclusion == Spec => []LocksExclusive
  <1>1. Inv => LocksExclusive
    BY Zenon DEF Inv
  <1> QED
    BY <1>1, Invariance, PTL

\* No two index records describe the same data record: the append of
\* _db_writedat under the lock of the data file is enough for it.
THEOREM DataDisjoint == Spec => []DataNotShared
  <1>1. Inv => DataNotShared
    BY Zenon DEF Inv
  <1> QED
    BY <1>1, Invariance, PTL

\* The sanity checks of _db_readptr, _db_readidx and _db_readdat fail for
\* nobody but a caller of db_nextrec whose file offset is not at a record.
THEOREM NoDumps == Spec => []OnlyScanDumps
  <1>1. Inv => OnlyScanDumps
    <2> SUFFICES ASSUME Inv, NEW p \in Proc, BadRead(p), pc[p] # "next_idx" PROVE FALSE
      BY Zenon DEF OnlyScanDumps
    <2>1. OpenOK(p) /\ HandleOK(p) /\ RecordsOK /\ PointersInFile
      BY Zenon DEF Inv
    <2>2. pc[p] \in InOp \cup Scanning
      BY ZenonT(40) DEF BadRead, InOp, Scanning
    <2>3. hdr /\ ~ (h[p].offset > nidx)
      <3>1. h[p].offset \in Nat /\ nidx \in Nat
        <4>1. h[p] \in Handle /\ nidx \in Nat
          BY SMTT(30), SizeAssumption DEF Inv, TypeOK
        <4> QED
          BY <4>1, SizeAssumption DEF Handle
      <3> QED
        BY SMTT(40), <2>1, <2>2, <3>1 DEF OpenOK, PointersInFile, InOp, Scanning, Away, Creating
    <2>4. pc[p] \in {"fetch_dat", "next_dat"} =>
            h[p].datoff \in 1 .. ndat /\ h[p].datlen = dat[h[p].datoff].len
      BY Zenon, WriterHandle DEF AtRecord
    <2> QED
      BY Zenon, <2>3, <2>4 DEF BadRead
  <1> QED
    BY <1>1, Invariance, PTL

\* A record keeps its length and its place for as long as the file lives, so
\* that what db.c overwrites in place never runs into the next record.
THEOREM SizesKept == Spec => RecordsKeepTheirSize
  <1> DEFINE Kept ==
        /\ \A r \in 1 .. nidx : r =< nidx' =>
             /\ idx'[r].klen = idx[r].klen
             /\ idx'[r].datoff = idx[r].datoff
             /\ idx'[r].datlen = idx[r].datlen
        /\ \A s \in 1 .. ndat : s =< ndat' => dat'[s].len = dat[s].len
  <1>1. Inv /\ [Next]_vars => [Kept]_files
    <2> SUFFICES ASSUME Inv, [Next]_vars PROVE Kept \/ UNCHANGED files
      BY Zenon
    <2>1. CASE UNCHANGED vars
      BY Zenon, <2>1 DEF vars
    <2>2. ASSUME NEW p \in Proc, Step(p) \/ Call(p) PROVE Kept
      <3>1. nidx \in Nat /\ ndat \in Nat
        BY SizeAssumption DEF Inv, TypeOK
      <3>2. CASE OpenCreateIdx(p)
        BY <3>1, <3>2 DEF OpenCreateIdx, datfile
      <3>3. CASE OpenCreateDat(p)
        BY <3>1, <3>3 DEF OpenCreateDat, idxfile
      <3>4. CASE ~ OpenCreateIdx(p) /\ ~ OpenCreateDat(p)
        BY Zenon, <2>2, <3>4, GrowsStep DEF Grows
      <3> QED
        BY Zenon, <3>2, <3>3, <3>4
    <2> QED
      BY Zenon, <2>1, <2>2 DEF Next
  <1> QED
    BY <1>1, Invariance, PTL DEF Spec, RecordsKeepTheirSize
=============================================================================
