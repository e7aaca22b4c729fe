------------------------------ MODULE KVStore ------------------------------
(***************************************************************************)
(* What src/db/db.c promises to the processes that share a database: every *)
(* db_fetch, db_delete and db_store takes effect at one instant between    *)
(* its call and its return, on one map from keys to data.                  *)
(***************************************************************************)
EXTENDS Integers

CONSTANTS Proc, Key, Data, NoData, NoReq, Pending, Request

VARIABLES
    kv,     \* key -> data, or NoData
    req,    \* the call in progress of each process
    rsp     \* its return value once it took effect

vars == <<kv, req, rsp>>

Empty == [k \in Key |-> NoData]

Init ==
    /\ kv = Empty
    /\ req = [p \in Proc |-> NoReq]
    /\ rsp = [p \in Proc |-> Pending]

Call(p) ==
    /\ req[p] = NoReq
    /\ \E r \in Request : req' = [req EXCEPT ![p] = r]
    /\ UNCHANGED <<kv, rsp>>

Reply(p, v) == rsp' = [rsp EXCEPT ![p] = v]

Fetch(p) ==
    /\ req[p].op = "fetch"
    /\ Reply(p, kv[req[p].key])
    /\ UNCHANGED kv

Delete(p) ==
    /\ req[p].op = "delete"
    /\ kv' = [kv EXCEPT ![req[p].key] = NoData]
    /\ Reply(p, IF kv[req[p].key] = NoData THEN -1 ELSE 0)

\* Flag 1 (DB_INSERT) wants an absent key, flag 2 (DB_REPLACE) a present one.
Store(p) ==
    LET r == req[p]
        present == kv[r.key] # NoData
    IN
    /\ r.op = "store"
    /\ \/ r.flag = 1 /\ present /\ Reply(p, 1) /\ UNCHANGED kv
       \/ r.flag = 2 /\ ~ present /\ Reply(p, -1) /\ UNCHANGED kv
       \/ /\ r.flag = 3 \/ present = (r.flag = 2)
          /\ Reply(p, 0)
          /\ kv' = [kv EXCEPT ![r.key] = r.data]

TakeEffect(p) ==
    /\ req[p] # NoReq /\ rsp[p] = Pending
    /\ Fetch(p) \/ Delete(p) \/ Store(p)
    /\ UNCHANGED req

Return(p) ==
    /\ rsp[p] # Pending
    /\ req' = [req EXCEPT ![p] = NoReq]
    /\ Reply(p, Pending)
    /\ UNCHANGED kv

\* A store that dies for want of space: the record it was to replace is lost.
StoreDies(p) ==
    /\ req[p] # NoReq /\ req[p].op = "store"
    /\ kv' = [kv EXCEPT ![req[p].key] = NoData]
    /\ req' = [req EXCEPT ![p] = NoReq]
    /\ Reply(p, Pending)

\* The database is opened with O_TRUNC.
Truncate ==
    /\ \A p \in Proc : req[p] = NoReq
    /\ kv' = Empty
    /\ UNCHANGED <<req, rsp>>

Next ==
    \/ Truncate
    \/ \E p \in Proc : Call(p) \/ TakeEffect(p) \/ Return(p) \/ StoreDies(p)

Spec == Init /\ [][Next]_vars

=============================================================================
