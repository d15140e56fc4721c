-------------------------------- MODULE HMap --------------------------------
(***************************************************************************)
(* class HMap (hashTable.cpp): a hash map of two tables, rehashed a little *)
(* on every operation, and its client StringEntry (string.cpp).            *)
(*                                                                         *)
(* The server has one thread, so one operation runs at a time.  Its code   *)
(* is modelled loop iteration by loop iteration: pc says where it is, ret  *)
(* where hm_help_rehashing returns to.                                     *)
(*    GET, DEL:  help -> find -> done                                      *)
(*    SET:       help -> find -> done            the key is there          *)
(*               help -> find -> help -> done    hm_insert of a new node   *)
(***************************************************************************)
EXTENDS HTab

CONSTANTS Empty,               \* the empty string
          NoValue,             \* no entry
          init_size,           \* 8 in the code
          k_max_load_factor,   \* 8 in the code
          k_rehashing_work     \* 128 in the code

ASSUME ValueAssumption == Empty \in Value /\ NoValue \notin Value
ASSUME SizeAssumption  == init_size \in Nat \ {0}
ASSUME LoadAssumption  == k_max_load_factor \in Nat \ {0}
ASSUME WorkAssumption  == k_rehashing_work \in Nat \ {0}

Op == {"get", "set", "del"}

VARIABLES newTab, oldTab, migrate_pos,   \* the fields of the HMap
          nwork,                         \* the local of hm_help_rehashing
          pc, ret, op, arg, resp         \* the command being executed

tables == <<newTab, oldTab, migrate_pos>>
call   == <<op, arg>>
vars   == <<newTab, oldTab, migrate_pos, nwork, pc, ret, op, arg, resp>>

Init ==
  /\ newTab = NewHTab(init_size)
  /\ oldTab = NullHTab
  /\ migrate_pos = 0
  /\ nwork = 0
  /\ pc = "idle"
  /\ ret = "find"
  /\ op = "get"
  /\ arg \in Entry
  /\ resp = Empty

\* A command enters get, set or del; each starts with a round of rehashing.
Call(o, k, v) ==
  /\ pc = "idle"
  /\ pc' = "help"
  /\ ret' = "find"
  /\ nwork' = 0
  /\ op' = o
  /\ arg' = [key |-> k, value |-> v]
  /\ UNCHANGED <<tables, resp>>

-----------------------------------------------------------------------------
(* hm_help_rehashing *)

\* The condition of the loop.
MoreWork == nwork < k_rehashing_work /\ oldTab.size > 0

\* Mutant: the cursor stays where it is.
SkipEmptySlot_NoAdvance ==
  /\ pc = "help"
  /\ MoreWork
  /\ oldTab.tab[migrate_pos] = << >>
  /\ UNCHANGED vars

SkipEmptySlot ==
  /\ pc = "help"
  /\ MoreWork
  /\ oldTab.tab[migrate_pos] = << >>
  /\ migrate_pos' = migrate_pos + 1
  /\ UNCHANGED <<newTab, oldTab, nwork, pc, ret, call, resp>>

\* Mutant: the node is linked into the new table and left in the old chain.
MoveHead_NotDetached ==
  /\ pc = "help"
  /\ MoreWork
  /\ oldTab.tab[migrate_pos] # << >>
  /\ newTab' = h_insert(newTab, Head(oldTab.tab[migrate_pos]))
  /\ oldTab' = [oldTab EXCEPT !.size = @ - 1]
  /\ nwork' = nwork + 1
  /\ UNCHANGED <<migrate_pos, pc, ret, call, resp>>

\* Mutant: the node keeps the number of its old slot.
MoveHead_SameSlot ==
  /\ pc = "help"
  /\ MoreWork
  /\ oldTab.tab[migrate_pos] # << >>
  /\ newTab' = [newTab EXCEPT !.tab[migrate_pos] = <<Head(oldTab.tab[migrate_pos])>> \o @,
                              !.size = @ + 1]
  /\ oldTab' = h_detach(oldTab, migrate_pos, 1)
  /\ nwork' = nwork + 1
  /\ UNCHANGED <<migrate_pos, pc, ret, call, resp>>

MoveHead ==
  /\ pc = "help"
  /\ MoreWork
  /\ oldTab.tab[migrate_pos] # << >>
  /\ newTab' = h_insert(newTab, Head(oldTab.tab[migrate_pos]))
  /\ oldTab' = h_detach(oldTab, migrate_pos, 1)
  /\ nwork' = nwork + 1
  /\ UNCHANGED <<migrate_pos, pc, ret, call, resp>>

\* Mutant: the old table is freed after every round.
HelpReturns_FreesEarly ==
  /\ pc = "help"
  /\ ~MoreWork
  /\ oldTab' = NullHTab
  /\ pc' = ret
  /\ UNCHANGED <<newTab, migrate_pos, nwork, ret, call, resp>>

\* The loop is over; an old table that has become empty is freed.
HelpReturns ==
  /\ pc = "help"
  /\ ~MoreWork
  /\ oldTab' = IF oldTab.size = 0 /\ Allocated(oldTab) THEN NullHTab ELSE oldTab
  /\ pc' = ret
  /\ UNCHANGED <<newTab, migrate_pos, nwork, ret, call, resp>>

-----------------------------------------------------------------------------
(* The bodies of hm_lookup, hm_insert and hm_delete, as get, set and del   *)
(* use them.                                                               *)

\* get: hm_lookup looks in newTab, then in oldTab.
Get ==
  /\ pc = "find" /\ op = "get"
  /\ LET node(t) == t.tab[get_pos(t, arg.key)][h_lookup(t, arg.key)]
     IN  resp' = IF Found(newTab, arg.key) THEN node(newTab).value
                 ELSE IF Found(oldTab, arg.key) THEN node(oldTab).value
                 ELSE Empty
  /\ pc' = "done"
  /\ UNCHANGED <<tables, nwork, ret, call>>

\* The node found gets the new value where it is.
Update(t, e) ==
  [t EXCEPT !.tab[get_pos(t, e.key)][h_lookup(t, e.key)] = e]

SetExisting ==
  /\ pc = "find" /\ op = "set"
  /\ \/ /\ Found(newTab, arg.key)
        /\ newTab' = Update(newTab, arg)
        /\ UNCHANGED oldTab
     \/ /\ ~Found(newTab, arg.key)
        /\ Found(oldTab, arg.key)
        /\ oldTab' = Update(oldTab, arg)
        /\ UNCHANGED newTab
  /\ resp' = TRUE
  /\ pc' = "done"
  /\ UNCHANGED <<migrate_pos, nwork, ret, call>>

\* Mutant: off by one.
Overloaded_OffByOne(t) == t.size > (t.mask + 1) * k_max_load_factor

\* newTab has reached its load factor.
Overloaded(t) == t.size >= (t.mask + 1) * k_max_load_factor

\* Mutant: the cursor of the previous rehash is kept.
hm_trigger_rehashing_KeepsCursor(full) ==
  /\ oldTab' = full
  /\ newTab' = NewHTab(2 * (full.mask + 1))
  /\ UNCHANGED migrate_pos

\* hm_trigger_rehashing: newTab is now full and becomes oldTab; the new one
\* has twice as many slots.
hm_trigger_rehashing(full) ==
  /\ oldTab' = full
  /\ newTab' = NewHTab(2 * (full.mask + 1))
  /\ migrate_pos' = 0

\* hm_insert, up to its call of hm_help_rehashing.
SetNew ==
  /\ pc = "find" /\ op = "set"
  /\ ~Found(newTab, arg.key) /\ ~Found(oldTab, arg.key)
  /\ LET inserted == h_insert(newTab, arg)
     IN  IF ~Allocated(oldTab) /\ Overloaded(inserted)
         THEN hm_trigger_rehashing(inserted)
         ELSE newTab' = inserted /\ UNCHANGED <<oldTab, migrate_pos>>
  /\ resp' = TRUE
  /\ nwork' = 0
  /\ pc' = "help"
  /\ ret' = "done"
  /\ UNCHANGED call

\* hm_delete: from newTab if the key is there, else from oldTab.
Del ==
  /\ pc = "find" /\ op = "del"
  /\ LET without(t) == h_detach(t, get_pos(t, arg.key), h_lookup(t, arg.key))
     IN  \/ /\ Found(newTab, arg.key)
            /\ newTab' = without(newTab)
            /\ UNCHANGED oldTab
         \/ /\ ~Found(newTab, arg.key)
            /\ Found(oldTab, arg.key)
            /\ oldTab' = without(oldTab)
            /\ UNCHANGED newTab
         \/ /\ ~Found(newTab, arg.key) /\ ~Found(oldTab, arg.key)
            /\ UNCHANGED <<newTab, oldTab>>
  /\ resp' = (Found(newTab, arg.key) \/ Found(oldTab, arg.key))
  /\ pc' = "done"
  /\ UNCHANGED <<migrate_pos, nwork, ret, call>>

Return ==
  /\ pc = "done"
  /\ pc' = "idle"
  /\ UNCHANGED <<tables, nwork, ret, call, resp>>

Execute ==
  \/ SkipEmptySlot \/ MoveHead \/ HelpReturns
  \/ Get \/ SetExisting \/ SetNew \/ Del
  \/ Return

Next ==
  \/ \E o \in Op, k \in Key, v \in Value : Call(o, k, v)
  \/ Execute

Spec == Init /\ [][Next]_vars

\* The thread keeps running an operation it has begun; nobody has to call one.
FairSpec == Spec /\ WF_vars(Execute)
-----------------------------------------------------------------------------
\* The type of every variable of the HMap and of the command being executed.
TypeOK ==
  /\ HTabType(newTab)
  /\ oldTab = NullHTab \/ HTabType(oldTab)
  /\ migrate_pos \in Nat
  /\ nwork \in 0 .. k_rehashing_work
  /\ pc \in {"idle", "help", "find", "done"}
  /\ ret \in {"find", "done"}
  /\ op \in Op
  /\ arg \in Entry
  /\ resp \in Value \cup BOOLEAN

\* Moving nodes between the tables never leaves a key in two places, of one
\* chain, of two chains or of the two tables: otherwise a SET would update one
\* copy and a DEL would uncover the other (h_insert, h_detach, hm_insert).
OnePlacePerKey ==
  /\ Unique(newTab) /\ Unique(oldTab)
  /\ KeysOf(newTab) \cap KeysOf(oldTab) = {}

\* A node sits in the slot its hash selects in the table that holds it now,
\* although that slot changes when the table doubles: h_lookup looks nowhere
\* else.
InItsSlot == Placed(newTab) /\ Placed(oldTab)

\* The size counters, which decide when to rehash, when to stop migrating and
\* when to free the old table, count the linked nodes; so the table freed by
\* hm_help_rehashing has no node left, and hm_size, their sum, is right.
SizeIsExact == Counted(newTab) /\ Counted(oldTab)

\* While hm_help_rehashing will read oldTab.data()[migrate_pos], migrate_pos
\* is inside the old array, and no node is left behind it.
MigrationInBounds ==
  /\ \A pos \in DOMAIN oldTab.tab : pos < migrate_pos => oldTab.tab[pos] = << >>
  /\ oldTab.size > 0 => migrate_pos \in DOMAIN oldTab.tab

\* Between commands newTab is below the load factor, and stays so even when
\* everything still in oldTab has been moved and as many keys again have been
\* inserted meanwhile: a rehash is over long before the next one is due, and
\* hm_trigger_rehashing never has to give up because oldTab is in use.
LoadBounded ==
  pc = "idle" =>
    newTab.size + 2 * oldTab.size < (newTab.mask + 1) * k_max_load_factor

\* The value the two tables hold for a key, in the order hm_lookup asks them.
ValueOf(t, k) == t.tab[get_pos(t, k)][h_lookup(t, k)].value

store ==
  [k \in Key |-> IF Found(newTab, k) THEN ValueOf(newTab, k)
                 ELSE IF Found(oldTab, k) THEN ValueOf(oldTab, k)
                 ELSE NoValue]

phase == CASE pc = "idle" -> "idle"
           [] pc = "find" \/ (pc = "help" /\ ret = "find") -> "called"
           [] OTHER -> "done"

\* Incremental rehashing is invisible: the two tables together are one map on
\* which every GET, SET and DEL acts once, whatever is being migrated meanwhile.
Abstract == INSTANCE KVMap
Refines == Abstract!Spec

\* Every command ends: the migration loop of hm_help_rehashing always does.
Terminates == (pc # "idle") ~> (pc = "idle")
=============================================================================
