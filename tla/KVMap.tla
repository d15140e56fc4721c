------------------------------- MODULE KVMap -------------------------------
(***************************************************************************)
(* What the string commands promise a client of the server: a map from    *)
(* keys to values, on which GET, SET and DEL take effect atomically, at    *)
(* some moment between the call and the return.  Nothing is said here of   *)
(* slots, chains or rehashing; HMap is shown to implement this module.     *)
(***************************************************************************)
CONSTANTS Key,      \* the names of the entries
          Value,    \* the strings stored under them
          Empty,    \* the empty string: also what a GET that finds nothing says
          NoValue   \* no entry

Op == {"get", "set", "del"}

VARIABLES store,    \* the value of every key, or NoValue
          phase,    \* "idle", "called" or "done"
          op, arg,  \* the operation under way, its key and its value
          resp      \* the answer of the last operation that finished

vars == <<store, phase, op, arg, resp>>

Init ==
  /\ store = [k \in Key |-> NoValue]
  /\ phase = "idle"
  /\ op = "get"
  /\ arg \in [key: Key, value: Value]
  /\ resp = Empty

Call(o, k, v) ==
  /\ phase = "idle"
  /\ phase' = "called"
  /\ op' = o
  /\ arg' = [key |-> k, value |-> v]
  /\ UNCHANGED <<store, resp>>

Get ==
  /\ op = "get"
  /\ resp' = IF store[arg.key] = NoValue THEN Empty ELSE store[arg.key]
  /\ UNCHANGED store

Set ==
  /\ op = "set"
  /\ store' = [store EXCEPT ![arg.key] = arg.value]
  /\ resp' = TRUE

Del ==
  /\ op = "del"
  /\ store' = [store EXCEPT ![arg.key] = NoValue]
  /\ resp' = (store[arg.key] # NoValue)

Perform ==
  /\ phase = "called"
  /\ phase' = "done"
  /\ Get \/ Set \/ Del
  /\ UNCHANGED <<op, arg>>

Return ==
  /\ phase = "done"
  /\ phase' = "idle"
  /\ UNCHANGED <<store, op, arg, resp>>

Next ==
  \/ \E o \in Op, k \in Key, v \in Value : Call(o, k, v)
  \/ Perform
  \/ Return

Spec == Init /\ [][Next]_vars
=============================================================================
