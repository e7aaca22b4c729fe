------------------------------ MODULE ApueDbKV ------------------------------
(***************************************************************************)
(* What is checked of ApueDb: the lists in the index file stay lists, and  *)
(* the processes see one map from keys to data.                            *)
(***************************************************************************)
EXTENDS ApueDbInv, FiniteSets, Sequences, Functions

-----------------------------------------------------------------------------
(***************************************************************************)
(* The lists as the operations in progress are about to leave them.        *)
(***************************************************************************)
\* _db_dodelete has rewritten the ptr of the record it deletes, and not yet
\* the one that points to it.
Unlinking(p) == pc[p] \in {"del_head", "del_unlink"}

NextOf ==
    [l \in Loc |->
        IF \E p \in Proc : Unlinking(p) /\ h[p].ptroff = l
        THEN h[CHOOSE p \in Proc : Unlinking(p) /\ h[p].ptroff = l].saveptr
        ELSE ptr[l]]

\* The records of each list, in order: at most MaxIdx + 1 steps are taken, so
\* that a list with a loop is cut short and has a record twice.
Lists ==
    LET next == NextOf
        walk[n \in Nat, r \in 0 .. MaxIdx] ==
            IF r = 0 \/ n = 0 THEN <<>> ELSE <<r>> \o walk[n - 1, next[r]]
    IN  [l \in {FREE_OFF} \cup Chain |-> walk[MaxIdx + 1, next[l]]]

\* Records that a process has taken off the free list, or appended, and not
\* yet put on a chain.
InHand(p) ==
    IF pc[p] \in {"reuse_dat", "reuse_idx", "link"} THEN {h[p].idxoff} ELSE {}

Unlinked(p) == IF pc[p] = "del_head" THEN {h[p].idxoff} ELSE {}

-----------------------------------------------------------------------------
(***************************************************************************)
(* The refinement mapping.  A store or a delete takes effect with the      *)
(* first write that db_fetch or db_nextrec could see, and the chain lock   *)
(* hides the map from everybody else until the last one.                   *)
(***************************************************************************)
TookEffect(p) ==
    \/ pc[p] \in {"del_free", "del_idx", "del_head", "del_unlink"}
    \/ /\ h[p].found
       /\ pc[p] \in {"store_head", "dat_seek", "dat_write", "idx_seek", "idx_write"}
    \/ pc[p] = "link"

Found(k) == {r \in 1 .. nidx : idx[r].key = k /\ r =< PTR_MAX}

KV == [k \in Key |->
          IF \E p \in Proc : TookEffect(p) /\ req[p].key = k
          THEN LET r == req[CHOOSE p \in Proc : TookEffect(p) /\ req[p].key = k]
               IN  IF r.op = "store" THEN r.data ELSE NoData
          ELSE IF Found(k) = {} THEN NoData
          ELSE dat[idx[CHOOSE r \in Found(k) : TRUE].datoff].val]

Rsp == [p \in Proc |-> IF TookEffect(p) THEN 0 ELSE ret[p]]

Map == INSTANCE KVStore WITH kv <- KV, rsp <- Rsp

\* db_fetch, db_delete and db_store behave as atomic operations on one map,
\* however the system calls of the processes interleave.
Linearizable == Map!Spec

-----------------------------------------------------------------------------
\* The chains and the free list are finite, no record is on two of them or
\* twice on one, a chain holds only keys that hash to it, each once, and the
\* free list only blank records (_db_find_and_lock, _db_dodelete, db_store).
ListsWellFormed ==
    LET L == Lists IN
    /\ \A l \in DOMAIN L : IsInjective(L[l])
    /\ \A l, m \in DOMAIN L : l # m => Range(L[l]) \cap Range(L[m]) = {}
    /\ \A c \in Chain : \A r \in Range(L[c]) :
          idx[r].key \in Key /\ Hash[idx[r].key] = c /\ Found(idx[r].key) = {r}
    /\ \A r \in Range(L[FREE_OFF]) : idx[r].key = Blank

\* No index record leaks: each is on a list or in the hands of one process,
\* except those whose offset exceeds PTR_MAX.
NoRecordLost ==
    LET L == Lists
        listed == UNION {Range(L[l]) : l \in DOMAIN L}
    IN  \A r \in 1 .. nidx : r =< PTR_MAX /\ r \notin listed =>
            Cardinality({p \in Proc : r \in InHand(p) \cup Unlinked(p)}) = 1

\* db_nextrec never returns a torn or stale record: the pair it hands to its
\* caller is in the map when it reads the data, although it holds no lock on
\* the chain (records beyond PTR_MAX, which err_quit left unlinked, excepted).
NextrecReturnsLive ==
    \A p \in Proc :
        pc[p] = "next_dat" /\ h[p].idxoff =< PTR_MAX =>
        dat[h[p].datoff].val = KV[idx[h[p].idxoff].key]

\* db_rewind is "Automatically called by db_open" and "Must be called before
\* first db_nextrec": a db_nextrec on an open database starts at a record or at
\* the end of the index file.
NextrecFindsRecord == \A p \in Scanner : pc[p] = "next_idx" => pos[p] # 0

=============================================================================
