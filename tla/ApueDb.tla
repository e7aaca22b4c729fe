------------------------------- MODULE ApueDb -------------------------------
(***************************************************************************)
(* The hash database library of src/db/db.c, used by several processes at  *)
(* once on the same pair of files.  One step of a process is one system    *)
(* call that another process can observe: a record lock, or a read or a    *)
(* write of one field or one record.  A lock is merged with the call after *)
(* it, and an un_lock with the call before it, where that call is the only *)
(* thing the process could do next: nobody can see the state in between.   *)
(*                                                                         *)
(* Abstractions.  A file offset is named by what is stored there: FREE_OFF *)
(* is the free list pointer, a member of Chain is a hash table slot, and a *)
(* number in Pos is the n-th index record (0 is the null pointer).  The    *)
(* n-th data record is slot n.  Offsets may be named this way because a    *)
(* record never changes its length once it is appended, which is itself    *)
(* checked and proved (RecordsKeepTheirSize).                              *)
(***************************************************************************)
EXTENDS Integers

CONSTANTS
    Proc,               \* processes that use the library
    Menu,               \* process -> the fetches, stores, deletes it may call
    Scanner,            \* processes that call db_nextrec
    Key, KeyLen,        \* keys, and strlen of each
    Data, DataLen,      \* data strings, and strlen + 1 of each
    Chain, Hash,        \* hash table slots, and _db_hash as a function
    FREE_OFF,           \* offset of the free list pointer
    IDX_TAIL, DAT_FILE, \* lock regions: the index records, the data file
    PTR_MAX,            \* last index record whose offset fits in a ptr field
    MaxIdx, MaxDat,     \* records the file system has room for
    Blank,              \* a key or a data string overwritten with spaces
    NoData,             \* the NULL that db_fetch returns
    NoReq,              \* no fetch, store or delete is in progress
    Pending             \* the operation has no return value yet

Pos == 1 .. MaxIdx
Loc == {FREE_OFF} \cup Chain \cup Pos
IdxLock == {FREE_OFF, IDX_TAIL} \cup Chain
Lock == IdxLock \cup {DAT_FILE}

DB_INSERT == 1
DB_REPLACE == 2
DB_STORE == 3

Request ==
         [op : {"fetch", "delete"}, key : Key]
    \cup [op : {"store"}, key : Key, data : Data,
          flag : {DB_INSERT, DB_REPLACE, DB_STORE}]

Answer == Data \cup {Blank, NoData, Pending, -1, 0, 1}

ASSUME SizeAssumption ==
    /\ PTR_MAX \in Nat /\ MaxIdx \in Nat /\ MaxDat \in Nat
    /\ PTR_MAX =< MaxIdx

ASSUME OffsetAssumption ==
    /\ FREE_OFF \notin Chain \cup (0 .. MaxIdx)
    /\ Chain \cap (0 .. MaxIdx) = {}
    /\ {IDX_TAIL, DAT_FILE} \cap ({FREE_OFF} \cup Chain) = {}
    /\ IDX_TAIL # DAT_FILE

ASSUME ValueAssumption ==
    /\ KeyLen \in [Key -> Nat] /\ DataLen \in [Data -> Nat]
    /\ Hash \in [Key -> Chain]
    /\ Blank \notin Key \cup Data
    /\ {NoData, Pending, -1, 0, 1} \cap Data = {}
    /\ NoData # Pending /\ {NoData, Pending} \cap {-1, 0, 1} = {}
    /\ NoReq \notin Request
    /\ Menu \in [Proc -> SUBSET Request] /\ Scanner \subseteq Proc

VARIABLES
    hdr,    \* the index file holds the free list pointer and the hash table
    ptr,    \* every ptr field of the index file, wherever it is
    idx,    \* the rest of each index record: key and place of its data
    nidx,   \* number of index records, that is the end of the index file
    dat,    \* the data records
    ndat,   \* number of data records
    rlk,    \* lock -> processes that hold a read lock
    wlk,    \* lock -> processes that hold a write lock
    pc,     \* where each process is in the library
    req,    \* the operation it is executing
    ret,    \* what that operation is going to return
    h,      \* its DB structure, and the locals of the functions it is in
    pos     \* its file offset in the index file: a record, or 0 if elsewhere

idxfile == <<hdr, ptr, idx, nidx>>
datfile == <<dat, ndat>>
files == <<idxfile, datfile>>
locks == <<rlk, wlk>>
call == <<req, ret>>
vars == <<files, locks, pc, call, h, pos>>

IdxRec == [key : Key \cup {Blank}, klen : Nat, datoff : 0 .. MaxDat, datlen : Nat]
DatRec == [val : Data \cup {Blank}, len : Nat]
NoIdx == [key |-> Blank, klen |-> 0, datoff |-> 0, datlen |-> 0]
NoDat == [val |-> Blank, len |-> 0]

(***************************************************************************)
(* The fields of DB that outlive a system call (klen is strlen(idxbuf)),   *)
(* and the locals: offset of the list walks, saveoffset of _db_findfree,   *)
(* freeptr and saveptr of _db_dodelete, the ptrval of db_store (here       *)
(* head), and found, the branch of db_store that is executing.  Every      *)
(* operation writes a field before it reads it, so the fields are reset    *)
(* when an operation returns.                                              *)
(***************************************************************************)
Handle == [chainoff : Loc, ptroff : Loc, idxoff : 0 .. MaxIdx + 1,
           datoff : 0 .. MaxDat + 1, datlen : Nat, klen : Nat,
           ptrval : 0 .. MaxIdx, offset : 0 .. MaxIdx, saveoffset : Loc,
           freeptr : 0 .. MaxIdx, saveptr : 0 .. MaxIdx, head : 0 .. MaxIdx,
           found : BOOLEAN]

NoHandle == [chainoff |-> FREE_OFF, ptroff |-> FREE_OFF, idxoff |-> 0,
             datoff |-> 0, datlen |-> 0, klen |-> 0,
             ptrval |-> 0, offset |-> 0, saveoffset |-> FREE_OFF,
             freeptr |-> 0, saveptr |-> 0, head |-> 0,
             found |-> FALSE]

Init ==
    /\ hdr = FALSE
    /\ ptr = [l \in Loc |-> 0]
    /\ idx = [r \in Pos |-> NoIdx] /\ nidx = 0
    /\ dat = [s \in 1 .. MaxDat |-> NoDat] /\ ndat = 0
    /\ rlk = [l \in Lock |-> {}]
    /\ wlk = [l \in Lock |-> {}]
    /\ pc = [p \in Proc |-> "closed"]
    /\ req = [p \in Proc |-> NoReq]
    /\ ret = [p \in Proc |-> Pending]
    /\ h = [p \in Proc |-> NoHandle]
    /\ pos = [p \in Proc |-> 0]

Goto(p, from, to) ==
    /\ pc[p] = from
    /\ pc' = [pc EXCEPT ![p] = to]

\* The file offset; it matters only to a process that calls db_nextrec.
Seek(p, r) == pos' = IF p \in Scanner THEN [pos EXCEPT ![p] = r] ELSE pos

(***************************************************************************)
(* fcntl record locks: lock_reg and the readw_lock, writew_lock and        *)
(* un_lock macros built on it.                                             *)
(***************************************************************************)
readw_lock(p, l) ==
    /\ wlk[l] \subseteq {p}
    /\ rlk' = [rlk EXCEPT ![l] = @ \cup {p}]
    /\ UNCHANGED wlk

writew_lock(p, L) ==
    /\ \A l \in L : wlk[l] \cup rlk[l] \subseteq {p}
    /\ wlk' = [l \in Lock |-> IF l \in L THEN wlk[l] \cup {p} ELSE wlk[l]]
    /\ UNCHANGED rlk

un_lock(p, L) ==
    /\ rlk' = [l \in Lock |-> IF l \in L THEN rlk[l] \ {p} ELSE rlk[l]]
    /\ wlk' = [l \in Lock |-> IF l \in L THEN wlk[l] \ {p} ELSE wlk[l]]
-----------------------------------------------------------------------------
(***************************************************************************)
(* db_open and db_close.  The callers are assumed not to use O_TRUNC while *)
(* another process has the database open or is opening it: open() empties  *)
(* the files before db_open takes any lock.                                *)
(***************************************************************************)
Away == {"closed", "dumped", "quit"}
Creating == {"open_dat", "open_lock", "open_init", "open_unlock"}

\* db_open(O_RDWR): both files exist and are left as they are.
OpenExisting(p) ==
    /\ hdr
    /\ \A q \in Proc : pc[q] \notin Creating
    /\ Goto(p, "closed", "idle")
    /\ Seek(p, 1)
    /\ UNCHANGED <<files, locks, call, h>>

\* db_open(O_RDWR | O_CREAT | O_TRUNC): open() of the index file empties it.
OpenCreateIdx(p) ==
    /\ \A q \in Proc \ {p} : pc[q] \in Away
    /\ Goto(p, "closed", "open_dat")
    /\ hdr' = FALSE
    /\ ptr' = [l \in Loc |-> 0]
    /\ idx' = [r \in Pos |-> NoIdx]
    /\ nidx' = 0
    /\ UNCHANGED <<datfile, locks, call, h, pos>>

OpenCreateDat(p) ==
    /\ Goto(p, "open_dat", "open_lock")
    /\ dat' = [s \in 1 .. MaxDat |-> NoDat]
    /\ ndat' = 0
    /\ UNCHANGED <<idxfile, locks, call, h, pos>>

OpenLock(p) ==
    /\ Goto(p, "open_lock", "open_init")
    /\ writew_lock(p, IdxLock)
    /\ UNCHANGED <<files, call, h, pos>>

\* fstat, and the write of (NHASH_DEF + 1) null pointers if the size is 0.
OpenInit(p) ==
    /\ Goto(p, "open_init", "open_unlock")
    /\ hdr' = TRUE
    /\ ptr' = IF hdr THEN ptr ELSE [l \in Loc |-> 0]
    /\ UNCHANGED <<idx, nidx, datfile, locks, call, h, pos>>

\* un_lock, then db_rewind.
OpenUnlock(p) ==
    /\ Goto(p, "open_unlock", "idle")
    /\ un_lock(p, IdxLock)
    /\ Seek(p, 1)
    /\ UNCHANGED <<files, call, h>>

db_close(p) ==
    /\ Goto(p, "idle", "closed")
    /\ Seek(p, 0)
    /\ UNCHANGED <<files, locks, call, h>>

\* err_dump or err_quit: the process is gone and the kernel drops its locks.
Die(p, how) ==
    /\ pc' = [pc EXCEPT ![p] = how]
    /\ un_lock(p, Lock)
    /\ req' = [req EXCEPT ![p] = NoReq]
    /\ ret' = [ret EXCEPT ![p] = Pending]
    /\ h' = [h EXCEPT ![p] = NoHandle]
    /\ Seek(p, 0)

\* Another process is started in place of one that died.
Restart(p) ==
    /\ pc[p] \in {"dumped", "quit"}
    /\ pc' = [pc EXCEPT ![p] = "closed"]
    /\ UNCHANGED <<files, locks, call, h, pos>>

-----------------------------------------------------------------------------
(***************************************************************************)
(* Reading and writing the files.                                          *)
(***************************************************************************)
\* DB and locals after _db_readidx(db, r).
db_readidx(p, r) ==
    [h[p] EXCEPT !.idxoff = r, !.ptrval = ptr[r], !.klen = idx[r].klen,
                 !.datoff = idx[r].datoff, !.datlen = idx[r].datlen]

db_writeptr(p, l, v) ==
    /\ ptr' = [ptr EXCEPT ![l] = v]
    /\ Seek(p, 0)
    /\ UNCHANGED <<hdr, idx, nidx>>

\* The writev of _db_writeidx.  The record ends the file or is inside it.
db_writeidx(p, key, klen, r, v) ==
    /\ ptr' = [ptr EXCEPT ![r] = v]
    /\ idx' = [idx EXCEPT ![r] = [key |-> key, klen |-> klen,
                                  datoff |-> h[p].datoff, datlen |-> h[p].datlen]]
    /\ nidx' = IF r > nidx THEN r ELSE nidx
    /\ Seek(p, r + 1)
    /\ UNCHANGED hdr

\* The writev of _db_writedat.
db_writedat(s, val, len) ==
    /\ dat' = [dat EXCEPT ![s] = [val |-> val, len |-> len]]
    /\ ndat' = IF s > ndat THEN s ELSE ndat

-----------------------------------------------------------------------------
(***************************************************************************)
(* db_fetch, db_delete and db_store: the call, up to the lock of the hash  *)
(* chain in _db_find_and_lock.                                             *)
(***************************************************************************)
Begin(p, r) ==
    /\ Goto(p, "idle", "find_head")
    /\ req' = [req EXCEPT ![p] = r]
    /\ h' = [h EXCEPT ![p] = [NoHandle EXCEPT !.chainoff = Hash[r.key],
                                              !.ptroff = Hash[r.key]]]
    /\ UNCHANGED <<files, ret, pos>>

\* Variant: a reader that does not lock the chain.
db_fetch_NoLock(p, r) ==
    /\ r.op = "fetch"
    /\ Begin(p, r)
    /\ UNCHANGED locks

db_fetch(p, r) ==
    /\ r.op = "fetch"
    /\ Begin(p, r)
    /\ readw_lock(p, Hash[r.key])

db_delete(p, r) ==
    /\ r.op = "delete"
    /\ Begin(p, r)
    /\ writew_lock(p, {Hash[r.key]})

db_store(p, r) ==
    /\ r.op = "store"
    /\ Begin(p, r)
    /\ writew_lock(p, {Hash[r.key]})

\* offset = _db_readptr(db, db->ptroff)
FindHead(p) ==
    /\ hdr
    /\ Goto(p, "find_head", "find_scan")
    /\ h' = [h EXCEPT ![p].offset = ptr[h[p].ptroff]]
    /\ Seek(p, 0)
    /\ UNCHANGED <<files, locks, call>>

\* One turn of the while loop that ends without a match.
FindNext(p) ==
    LET r == h[p].offset IN
    /\ Goto(p, "find_scan", "find_scan")
    /\ r \in 1 .. nidx
    /\ idx[r].key # req[p].key
    /\ h' = [h EXCEPT ![p] = [db_readidx(p, r) EXCEPT !.ptroff = r, !.offset = ptr[r]]]
    /\ Seek(p, r + 1)
    /\ UNCHANGED <<files, locks, call>>

Answers(p, a) == ret' = [ret EXCEPT ![p] = a] /\ UNCHANGED req

\* Variant: data of any length is written over the old data.
SameSize_Any(p, r) == TRUE

\* The new data has the length of the data in record r.
SameSize(p, r) == DataLen[req[p].data] = idx[r].datlen

\* The record is found: what db_fetch, db_delete and db_store do next.
FindHit(p) ==
    LET r == h[p].offset
        q == req[p]
    IN
    /\ pc[p] = "find_scan"
    /\ r \in 1 .. nidx
    /\ idx[r].key = q.key
    /\ h' = [h EXCEPT ![p] = [db_readidx(p, r) EXCEPT !.found = TRUE]]
    /\ Seek(p, r + 1)
    /\ \/ q.op = "fetch" /\ Goto(p, "find_scan", "fetch_dat") /\ UNCHANGED call
       \/ q.op = "delete" /\ Goto(p, "find_scan", "del_dat") /\ UNCHANGED call
       \/ /\ q.op = "store"
          /\ \/ /\ q.flag = DB_INSERT
                /\ Goto(p, "find_scan", "unlock") /\ Answers(p, 1)
             \/ /\ q.flag # DB_INSERT
                /\ ~ SameSize(p, r)
                /\ Goto(p, "find_scan", "del_dat") /\ UNCHANGED call
             \/ /\ q.flag # DB_INSERT
                /\ SameSize(p, r)
                /\ Goto(p, "find_scan", "overwrite") /\ UNCHANGED call
    /\ UNCHANGED <<files, locks>>

\* The chain is exhausted.
FindMiss(p) ==
    LET q == req[p] IN
    /\ pc[p] = "find_scan"
    /\ h[p].offset = 0
    /\ \/ q.op = "fetch" /\ Goto(p, "find_scan", "unlock") /\ Answers(p, NoData)
       \/ q.op = "delete" /\ Goto(p, "find_scan", "unlock") /\ Answers(p, -1)
       \/ /\ q.op = "store"
          /\ \/ /\ q.flag = DB_REPLACE
                /\ Goto(p, "find_scan", "unlock") /\ Answers(p, -1)
             \/ /\ q.flag # DB_REPLACE
                /\ Goto(p, "find_scan", "store_head") /\ UNCHANGED call
    /\ UNCHANGED <<files, locks, h, pos>>

\* _db_readdat
FetchDat(p) ==
    LET s == h[p].datoff IN
    /\ Goto(p, "fetch_dat", "unlock")
    /\ s \in 1 .. ndat /\ dat[s].len = h[p].datlen
    /\ Answers(p, dat[s].val)
    /\ UNCHANGED <<files, locks, h, pos>>

\* un_lock of the hash chain, and the return to the caller.
Return(p) ==
    /\ Goto(p, "unlock", "idle")
    /\ un_lock(p, {h[p].chainoff})
    /\ req' = [req EXCEPT ![p] = NoReq]
    /\ ret' = [ret EXCEPT ![p] = Pending]
    /\ h' = [h EXCEPT ![p] = NoHandle]
    /\ UNCHANGED <<files, pos>>

-----------------------------------------------------------------------------
(***************************************************************************)
(* _db_dodelete.                                                           *)
(***************************************************************************)
\* The free list is locked, the data record is overwritten with blanks.
DelDat(p) ==
    /\ Goto(p, "del_dat", "del_free")
    /\ writew_lock(p, {FREE_OFF})
    /\ db_writedat(h[p].datoff, Blank, h[p].datlen)
    /\ UNCHANGED <<idxfile, call, h, pos>>

\* freeptr = _db_readptr(db, FREE_OFF); saveptr = db->ptrval
DelFree(p) ==
    /\ hdr
    /\ Goto(p, "del_free", "del_idx")
    /\ h' = [h EXCEPT ![p].freeptr = ptr[FREE_OFF], ![p].saveptr = h[p].ptrval]
    /\ Seek(p, 0)
    /\ UNCHANGED <<files, locks, call>>

\* The index record gets a blank key and joins the free list.
DelIdx(p) ==
    /\ Goto(p, "del_idx", "del_head")
    /\ db_writeidx(p, Blank, h[p].klen, h[p].idxoff, h[p].freeptr)
    /\ h' = [h EXCEPT ![p].ptrval = h[p].freeptr]
    /\ UNCHANGED <<datfile, locks, call>>

DelHead(p) ==
    /\ Goto(p, "del_head", "del_unlink")
    /\ db_writeptr(p, FREE_OFF, h[p].idxoff)
    /\ UNCHANGED <<datfile, locks, call, h>>

\* Variant: the head of the chain is made to skip the record, whatever the
\* field that points to it.
DelUnlink_Head(p) ==
    /\ pc[p] = "del_unlink"
    /\ db_writeptr(p, h[p].chainoff, h[p].saveptr)
    /\ un_lock(p, {FREE_OFF})
    /\ \/ /\ req[p].op = "delete"
          /\ Goto(p, "del_unlink", "unlock") /\ Answers(p, 0)
       \/ /\ req[p].op = "store"
          /\ Goto(p, "del_unlink", "store_head") /\ UNCHANGED call
    /\ UNCHANGED <<datfile, h>>

\* The ptr field that pointed to the record now skips it.
DelUnlink(p) ==
    /\ pc[p] = "del_unlink"
    /\ db_writeptr(p, h[p].ptroff, h[p].saveptr)
    /\ un_lock(p, {FREE_OFF})
    /\ \/ /\ req[p].op = "delete"
          /\ Goto(p, "del_unlink", "unlock") /\ Answers(p, 0)
       \/ /\ req[p].op = "store"
          /\ Goto(p, "del_unlink", "store_head") /\ UNCHANGED call
    /\ UNCHANGED <<datfile, h>>

-----------------------------------------------------------------------------
(***************************************************************************)
(* The rest of db_store: _db_findfree, then an append or a reuse.          *)
(***************************************************************************)
\* ptrval = _db_readptr(db, db->chainoff), in both branches of db_store.
StoreHead(p) ==
    /\ hdr
    /\ Goto(p, "store_head", IF h[p].found THEN "dat_seek" ELSE "free_lock")
    /\ h' = [h EXCEPT ![p].head = ptr[h[p].chainoff]]
    /\ Seek(p, 0)
    /\ UNCHANGED <<files, locks, call>>

FreeLock(p) ==
    /\ Goto(p, "free_lock", "free_head")
    /\ writew_lock(p, {FREE_OFF})
    /\ UNCHANGED <<files, call, h, pos>>

FreeHead(p) ==
    /\ hdr
    /\ Goto(p, "free_head", "free_scan")
    /\ h' = [h EXCEPT ![p].saveoffset = FREE_OFF, ![p].offset = ptr[FREE_OFF]]
    /\ Seek(p, 0)
    /\ UNCHANGED <<files, locks, call>>

\* Variant: any free record with a key of the right length will do.
Fits_AnyData(p, r) == idx[r].klen = KeyLen[req[p].key]

\* A free record fits if its key and its data have the lengths to be stored.
Fits(p, r) ==
    /\ idx[r].klen = KeyLen[req[p].key]
    /\ idx[r].datlen = DataLen[req[p].data]

FreeNext(p) ==
    LET r == h[p].offset IN
    /\ Goto(p, "free_scan", "free_scan")
    /\ r \in 1 .. nidx
    /\ ~ Fits(p, r)
    /\ h' = [h EXCEPT ![p] = [db_readidx(p, r) EXCEPT !.saveoffset = r, !.offset = ptr[r]]]
    /\ Seek(p, r + 1)
    /\ UNCHANGED <<files, locks, call>>

FreeHit(p) ==
    LET r == h[p].offset IN
    /\ Goto(p, "free_scan", "free_take")
    /\ r \in 1 .. nidx
    /\ Fits(p, r)
    /\ h' = [h EXCEPT ![p] = db_readidx(p, r)]
    /\ Seek(p, r + 1)
    /\ UNCHANGED <<files, locks, call>>

\* Variant: the record stays on the free list.
FreeTake_Keep(p) ==
    /\ Goto(p, "free_take", "reuse_dat")
    /\ un_lock(p, {FREE_OFF})
    /\ Seek(p, 0)
    /\ UNCHANGED <<files, call, h>>

FreeTake(p) ==
    /\ Goto(p, "free_take", "reuse_dat")
    /\ db_writeptr(p, h[p].saveoffset, h[p].ptrval)
    /\ un_lock(p, {FREE_OFF})
    /\ UNCHANGED <<datfile, call, h>>

FreeMiss(p) ==
    /\ Goto(p, "free_scan", "dat_seek")
    /\ h[p].offset = 0
    /\ un_lock(p, {FREE_OFF})
    /\ UNCHANGED <<files, call, h, pos>>

ReuseDat(p) ==
    LET d == req[p].data IN
    /\ Goto(p, "reuse_dat", "reuse_idx")
    /\ db_writedat(h[p].datoff, d, DataLen[d])
    /\ h' = [h EXCEPT ![p].datlen = DataLen[d]]
    /\ UNCHANGED <<idxfile, locks, call, pos>>

ReuseIdx(p) ==
    LET k == req[p].key IN
    /\ Goto(p, "reuse_idx", "link")
    /\ db_writeidx(p, k, KeyLen[k], h[p].idxoff, h[p].head)
    /\ h' = [h EXCEPT ![p].ptrval = h[p].head]
    /\ UNCHANGED <<datfile, locks, call>>

\* Variant: the data file is not locked for an append.
DatSeek_NoLock(p) ==
    /\ Goto(p, "dat_seek", "dat_write")
    /\ h' = [h EXCEPT ![p].datoff = ndat + 1, ![p].datlen = DataLen[req[p].data]]
    /\ UNCHANGED <<files, locks, call, pos>>

\* _db_writedat(..., SEEK_END): lock and lseek, then writev and un_lock.
DatSeek(p) ==
    /\ Goto(p, "dat_seek", "dat_write")
    /\ writew_lock(p, {DAT_FILE})
    /\ h' = [h EXCEPT ![p].datoff = ndat + 1, ![p].datlen = DataLen[req[p].data]]
    /\ UNCHANGED <<files, call, pos>>

\* Variant: the result of the writev is not checked.
DatWrite_Unchecked(p) ==
    /\ Goto(p, "dat_write", "idx_seek")
    /\ db_writedat(h[p].datoff, req[p].data, h[p].datlen)
    /\ un_lock(p, {DAT_FILE})
    /\ UNCHANGED <<idxfile, call, h, pos>>

DatWrite(p) ==
    /\ Goto(p, "dat_write", "idx_seek")
    /\ h[p].datoff =< MaxDat
    /\ db_writedat(h[p].datoff, req[p].data, h[p].datlen)
    /\ un_lock(p, {DAT_FILE})
    /\ UNCHANGED <<idxfile, call, h, pos>>

\* _db_writeidx(..., SEEK_END, ptrval): lock and lseek, then writev and un_lock.
IdxSeek(p) ==
    /\ Goto(p, "idx_seek", "idx_write")
    /\ writew_lock(p, {IDX_TAIL})
    /\ h' = [h EXCEPT ![p].idxoff = nidx + 1, ![p].ptrval = h[p].head]
    /\ Seek(p, nidx + 1)
    /\ UNCHANGED <<files, call>>

IdxWrite(p) ==
    LET k == req[p].key IN
    /\ Goto(p, "idx_write", "link")
    /\ h[p].idxoff =< MaxIdx
    /\ db_writeidx(p, k, KeyLen[k], h[p].idxoff, h[p].head)
    /\ un_lock(p, {IDX_TAIL})
    /\ UNCHANGED <<datfile, call, h>>

\* _db_writeptr(db, db->chainoff, db->idxoff): the record heads its chain.
Link(p) ==
    /\ Goto(p, "link", "unlock")
    /\ h[p].idxoff =< PTR_MAX
    /\ db_writeptr(p, h[p].chainoff, h[p].idxoff)
    /\ Answers(p, 0)
    /\ UNCHANGED <<datfile, locks, h>>

\* The offset of the record does not fit in a ptr field: err_quit.
LinkQuit(p) ==
    /\ pc[p] = "link"
    /\ h[p].idxoff > PTR_MAX
    /\ Die(p, "quit")
    /\ UNCHANGED files

\* Same size data, just replace data record.
Overwrite(p) ==
    LET d == req[p].data IN
    /\ Goto(p, "overwrite", "unlock")
    /\ db_writedat(h[p].datoff, d, DataLen[d])
    /\ Answers(p, 0)
    /\ UNCHANGED <<idxfile, locks, h, pos>>

-----------------------------------------------------------------------------
(***************************************************************************)
(* db_rewind and db_nextrec.                                               *)
(***************************************************************************)
db_rewind(p) ==
    /\ pc[p] = "idle"
    /\ Seek(p, 1)
    /\ UNCHANGED <<files, locks, pc, call, h>>

\* Variant: the free list is not locked, so deletes go on during the scan.
db_nextrec_NoLock(p) ==
    /\ Goto(p, "idle", "next_idx")
    /\ UNCHANGED <<files, locks, call, h, pos>>

db_nextrec(p) ==
    /\ Goto(p, "idle", "next_idx")
    /\ readw_lock(p, FREE_OFF)
    /\ UNCHANGED <<files, call, h, pos>>

\* _db_readidx(db, 0) reads a record at the current offset.
NextSkip(p) ==
    /\ Goto(p, "next_idx", "next_idx")
    /\ pos[p] \in 1 .. nidx
    /\ idx[pos[p]].key = Blank
    /\ Seek(p, pos[p] + 1)
    /\ UNCHANGED <<files, locks, call, h>>

NextIdx(p) ==
    /\ Goto(p, "next_idx", "next_dat")
    /\ pos[p] \in 1 .. nidx
    /\ idx[pos[p]].key # Blank
    /\ h' = [h EXCEPT ![p] = db_readidx(p, pos[p])]
    /\ Seek(p, pos[p] + 1)
    /\ UNCHANGED <<files, locks, call>>

NextEOF(p) ==
    /\ Goto(p, "next_idx", "idle")
    /\ pos[p] > nidx
    /\ un_lock(p, {FREE_OFF})
    /\ UNCHANGED <<files, call, h, pos>>

\* _db_readdat; the key and the data are handed to the caller.
NextDat(p) ==
    LET s == h[p].datoff IN
    /\ Goto(p, "next_dat", "idle")
    /\ s \in 1 .. ndat /\ dat[s].len = h[p].datlen
    /\ un_lock(p, {FREE_OFF})
    /\ h' = [h EXCEPT ![p] = NoHandle]
    /\ UNCHANGED <<files, call, pos>>

-----------------------------------------------------------------------------
(***************************************************************************)
(* The err_dump calls: a read that meets the end of the file or something  *)
(* that is not a record, and a write the file system has no room for.      *)
(***************************************************************************)
BadRead(p) ==
    \/ pc[p] \in {"find_head", "del_free", "store_head", "free_head"} /\ ~ hdr
    \/ pc[p] \in {"find_scan", "free_scan"} /\ h[p].offset > nidx
    \/ /\ pc[p] \in {"fetch_dat", "next_dat"}
       /\ \/ h[p].datoff \notin 1 .. ndat
          \/ dat[h[p].datoff].len # h[p].datlen
    \/ pc[p] = "next_idx" /\ pos[p] = 0

\* The file system may refuse any append; it does when the files have no room.
DiskFull(p) == pc[p] \in {"dat_write", "idx_write"}

err_dump(p) ==
    /\ BadRead(p) \/ DiskFull(p)
    /\ Die(p, "dumped")
    /\ UNCHANGED files

Find(p) == FindHead(p) \/ FindNext(p) \/ FindHit(p) \/ FindMiss(p) \/ FetchDat(p)

db_dodelete(p) == DelDat(p) \/ DelFree(p) \/ DelIdx(p) \/ DelHead(p) \/ DelUnlink(p)

db_findfree(p) ==
    \/ FreeLock(p) \/ FreeHead(p) \/ FreeNext(p) \/ FreeHit(p)
    \/ FreeTake(p) \/ FreeMiss(p)

AppendRec(p) == DatSeek(p) \/ DatWrite(p) \/ IdxSeek(p) \/ IdxWrite(p)

Store(p) ==
    \/ StoreHead(p) \/ ReuseDat(p) \/ ReuseIdx(p) \/ Overwrite(p)
    \/ Link(p) \/ LinkQuit(p)

Scan(p) == NextSkip(p) \/ NextIdx(p) \/ NextEOF(p) \/ NextDat(p)

Open(p) == OpenCreateDat(p) \/ OpenLock(p) \/ OpenInit(p) \/ OpenUnlock(p)

\* A step inside a call of the library.
Step(p) ==
    \/ Open(p) \/ Find(p) \/ db_dodelete(p) \/ db_findfree(p)
    \/ Store(p) \/ AppendRec(p) \/ Scan(p) \/ Return(p) \/ err_dump(p)

\* What the caller may choose to do.
Call(p) ==
    \/ OpenExisting(p) \/ OpenCreateIdx(p) \/ db_close(p) \/ Restart(p)
    \/ \E r \in Menu[p] : db_fetch(p, r) \/ db_delete(p, r) \/ db_store(p, r)
    \/ p \in Scanner /\ (db_rewind(p) \/ db_nextrec(p))

Next == \E p \in Proc : Step(p) \/ Call(p)

Spec == Init /\ [][Next]_vars

-----------------------------------------------------------------------------
InOp == {"find_head", "find_scan", "fetch_dat", "del_dat", "del_free", "del_idx",
         "del_head", "del_unlink", "store_head", "free_lock", "free_head",
         "free_scan", "free_take", "reuse_dat", "reuse_idx", "dat_seek",
         "dat_write", "idx_seek", "idx_write", "link", "overwrite", "unlock"}

Scanning == {"next_idx", "next_dat"}

\* The file offsets, the locks and the DB structures have the right types.
TypeOK ==
    /\ hdr \in BOOLEAN
    /\ ptr \in [Loc -> 0 .. MaxIdx]
    /\ idx \in [Pos -> IdxRec] /\ nidx \in 0 .. MaxIdx
    /\ dat \in [1 .. MaxDat -> DatRec] /\ ndat \in 0 .. MaxDat
    /\ rlk \in [Lock -> SUBSET Proc] /\ wlk \in [Lock -> SUBSET Proc]
    /\ pc \in [Proc -> {"idle"} \cup Away \cup Creating \cup InOp \cup Scanning]
    /\ req \in [Proc -> Request \cup {NoReq}]
    /\ ret \in [Proc -> Answer]
    /\ h \in [Proc -> Handle]
    /\ pos \in [Proc -> 0 .. MaxIdx + 1]

\* The sanity checks of the library never fail, whatever the interleaving: a
\* process dies only because the files are full, or because it called
\* db_nextrec with the file offset left elsewhere by another operation.
OnlyScanDumps ==
    \A p \in Proc : BadRead(p) => pc[p] = "next_idx"

\* A record never changes its length or its place, so that overwriting one in
\* place (_db_dodelete, the reuse of _db_findfree, same size db_store) cannot
\* run into its neighbour.
RecordsKeepTheirSize ==
    [][/\ \A r \in 1 .. nidx : r =< nidx' =>
             /\ idx'[r].klen = idx[r].klen
             /\ idx'[r].datoff = idx[r].datoff
             /\ idx'[r].datlen = idx[r].datlen
       /\ \A s \in 1 .. ndat : s =< ndat' => dat'[s].len = dat[s].len]_files

\* No two index records share a data record (_db_writedat appends under the
\* lock of the data file).
DataNotShared ==
    \A r, s \in 1 .. nidx : r # s => idx[r].datoff # idx[s].datoff

=============================================================================
