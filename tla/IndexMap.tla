------------------------------ MODULE IndexMap ------------------------------
(***************************************************************************)
(* What the Database may rely on when it uses the Index: a map from keys   *)
(* to offsets.  set() changes one key in one step; erase() first makes the *)
(* key's offset null, then removes the key; a call that throws leaves what *)
(* its completed steps did.  Database.tla keeps its index as exactly this  *)
(* map; HashIndex.tla is shown to implement it.                            *)
(***************************************************************************)
EXTENDS Integers

CONSTANTS Keys, Offsets

VARIABLES
    map,     \* Keys -> Offsets, or NoEntry, or NullOffset
    call,    \* the running call
    result   \* how the last call ended

vars == <<map, call, result>>

NoEntry == -1
NullOffset == 0
NoCall == [op |-> "none"]
Calls == [op : {"find", "erase"}, key : Keys] \cup [op : {"set"}, key : Keys, offset : Offsets]

Ended(outcome, offset) ==
    /\ call' = NoCall
    /\ result' = [outcome |-> outcome, offset |-> offset]

Init ==
    /\ map = [k \in Keys |-> NoEntry]
    /\ call = NoCall
    /\ result = [outcome |-> "none", offset |-> NoEntry]

Begin(c) ==
    /\ call = NoCall
    /\ call' = c
    /\ result' = [outcome |-> "none", offset |-> NoEntry]
    /\ UNCHANGED map

(* A key too long for the index. *)
Rejected ==
    /\ call = NoCall
    /\ Ended("throw", NoEntry)
    /\ UNCHANGED map

Find ==
    /\ call.op = "find"
    /\ IF map[call.key] = NoEntry THEN Ended("absent", NoEntry)
                                  ELSE Ended("ok", map[call.key])
    /\ UNCHANGED map

Set ==
    /\ call.op = "set"
    /\ map' = [map EXCEPT ![call.key] = call.offset]
    /\ Ended("ok", NoEntry)

EraseAbsent ==
    /\ call.op = "erase"
    /\ map[call.key] = NoEntry
    /\ Ended("absent", NoEntry)
    /\ UNCHANGED map

EraseZero ==
    /\ call.op = "erase"
    /\ map[call.key] # NoEntry
    /\ map' = [map EXCEPT ![call.key] = NullOffset]
    /\ call' = [op |-> "unlink", key |-> call.key]
    /\ UNCHANGED result

EraseUnlink ==
    /\ call.op = "unlink"
    /\ map' = [map EXCEPT ![call.key] = NoEntry]
    /\ Ended("ok", NoEntry)

Throw ==
    /\ call # NoCall
    /\ Ended("throw", NoEntry)
    /\ UNCHANGED map

Next ==
    \/ \E c \in Calls : Begin(c)
    \/ Rejected \/ Find \/ Set \/ EraseAbsent \/ EraseZero \/ EraseUnlink \/ Throw

Spec == Init /\ [][Next]_vars
=============================================================================
