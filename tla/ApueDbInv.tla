------------------------------ MODULE ApueDbInv ------------------------------
(***************************************************************************)
(* The inductive invariant of ApueDb from which its theorems follow.       *)
(***************************************************************************)
EXTENDS ApueDb

\* Where the code works for db_store only, and for db_delete or db_store.
StoreOnly == {"store_head", "free_lock", "free_head", "free_scan", "free_take",
              "reuse_dat", "reuse_idx", "dat_seek", "dat_write", "idx_seek",
              "idx_write", "link", "overwrite"}
Deleting == {"del_dat", "del_free", "del_idx", "del_head", "del_unlink"}

\* Where the DB structure describes a record that _db_readidx has read.
AtRecord == {"fetch_dat", "next_dat", "overwrite", "free_take", "reuse_dat",
             "reuse_idx"} \cup Deleting

\* Where a process has appended a data record and not yet its index record.
HasData == {"idx_seek", "idx_write"}

\* A write lock excludes every other process (lock_reg).
LocksExclusive ==
    \A l \in Lock : \A p \in wlk[l] : wlk[l] = {p} /\ rlk[l] \subseteq {p}

\* A database is created while nobody else uses it, and has a hash table
\* whenever somebody does (db_open).
OpenOK(p) ==
    /\ pc[p] \in Creating => \A q \in Proc \ {p} : pc[q] \in Away
    /\ pc[p] = "open_dat" => nidx = 0
    /\ pc[p] \notin Away \cup Creating \/ pc[p] = "open_unlock" => hdr
    /\ pc[p] \notin InOp \cup {"next_dat"} => h[p] = NoHandle

RequestOK(p) ==
    /\ pc[p] \in InOp => req[p] \in Request
    /\ pc[p] \in StoreOnly => req[p].op = "store"
    /\ pc[p] \in Deleting => req[p].op \in {"delete", "store"}

\* Every pointer a process holds or has stored is inside the index file.
PointersInFile ==
    /\ \A l \in Loc : ptr[l] =< nidx
    /\ \A p \in Proc :
          /\ h[p].offset =< nidx /\ h[p].ptrval =< nidx /\ h[p].head =< nidx
          /\ h[p].freeptr =< nidx /\ h[p].saveptr =< nidx

\* Every index record describes a data record of the length it says.
RecordsOK ==
    \A r \in 1 .. nidx :
        /\ idx[r].datoff \in 1 .. ndat
        /\ idx[r].datlen = dat[idx[r].datoff].len

HandleOK(p) ==
    /\ pc[p] \in AtRecord =>
          /\ h[p].idxoff \in 1 .. nidx
          /\ h[p].klen = idx[h[p].idxoff].klen
          /\ h[p].datoff = idx[h[p].idxoff].datoff
          /\ h[p].datlen = idx[h[p].idxoff].datlen
    /\ pc[p] \in {"free_take", "reuse_dat", "reuse_idx"} =>
          h[p].klen = KeyLen[req[p].key]
    /\ pc[p] \in {"free_take", "reuse_dat", "reuse_idx", "overwrite", "dat_write"} =>
          h[p].datlen = DataLen[req[p].data]
    /\ pc[p] = "link" => h[p].idxoff \in 1 .. nidx

\* An append goes to the end of the file, and what it appends is its own.
AppendOK(p) ==
    /\ pc[p] = "dat_write" => p \in wlk[DAT_FILE] /\ h[p].datoff = ndat + 1
    /\ pc[p] = "idx_write" => p \in wlk[IDX_TAIL] /\ h[p].idxoff = nidx + 1
    /\ pc[p] \in HasData =>
          /\ h[p].datoff \in 1 .. ndat
          /\ h[p].datlen = dat[h[p].datoff].len
          /\ \A r \in 1 .. nidx : idx[r].datoff # h[p].datoff
          /\ \A q \in Proc \ {p} : pc[q] \in HasData => h[q].datoff # h[p].datoff

Inv ==
    /\ TypeOK
    /\ LocksExclusive
    /\ PointersInFile
    /\ RecordsOK
    /\ DataNotShared
    /\ \A p \in Proc : OpenOK(p) /\ RequestOK(p) /\ HandleOK(p) /\ AppendOK(p)

=============================================================================
