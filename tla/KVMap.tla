-------------------------------- MODULE KVMap --------------------------------
(***************************************************************************)
(* What the comments of threadlab/htable.c promise of htable_insert and    *)
(* htable_lookup: the table is one map, and a call takes effect at one     *)
(* instant between its start and its return.                               *)
(***************************************************************************)
CONSTANTS Threads, Keys, Vals, NULL

VARIABLES kv,     \* kv[k]: the value stored for k, NULL if none
          status, \* per thread: "idle", "called" or "done"
          req,    \* per thread: the call in progress
          res     \* per thread: its result, once done

vars == <<kv, status, req, res>>

Requests == [op : {"insert"}, key : Keys, val : Vals]
              \cup [op : {"lookup"}, key : Keys, val : {NULL}]

Init ==
    /\ kv = [k \in Keys |-> NULL]
    /\ status = [t \in Threads |-> "idle"]
    /\ req = [t \in Threads |-> NULL]
    /\ res = [t \in Threads |-> NULL]

Call(t) ==
    /\ status[t] = "idle"
    /\ \E r \in Requests : req' = [req EXCEPT ![t] = r]
    /\ status' = [status EXCEPT ![t] = "called"]
    /\ UNCHANGED <<kv, res>>

Finish(t, r) ==
    /\ res' = [res EXCEPT ![t] = r]
    /\ status' = [status EXCEPT ![t] = "done"]
    /\ UNCHANGED req

(* "If the key already exists, it returns 1"; the stored value stays.      *)
InsertExisting(t) ==
    /\ status[t] = "called" /\ req[t].op = "insert"
    /\ kv[req[t].key] # NULL
    /\ Finish(t, 1)
    /\ UNCHANGED kv

InsertNew(t) ==
    /\ status[t] = "called" /\ req[t].op = "insert"
    /\ kv[req[t].key] = NULL
    /\ kv' = [kv EXCEPT ![req[t].key] = req[t].val]
    /\ Finish(t, 0)

(* The stored value, or NULL when the key does not exist.                  *)
Lookup(t) ==
    /\ status[t] = "called" /\ req[t].op = "lookup"
    /\ Finish(t, kv[req[t].key])
    /\ UNCHANGED kv

Return(t) ==
    /\ status[t] = "done"
    /\ status' = [status EXCEPT ![t] = "idle"]
    /\ req' = [req EXCEPT ![t] = NULL]
    /\ res' = [res EXCEPT ![t] = NULL]
    /\ UNCHANGED kv

Next == \E t \in Threads :
    Call(t) \/ InsertExisting(t) \/ InsertNew(t) \/ Lookup(t) \/ Return(t)

Spec == Init /\ [][Next]_vars
=============================================================================
