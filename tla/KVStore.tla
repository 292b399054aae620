------------------------------ MODULE KVStore ------------------------------
(***************************************************************************)
(* What zidanedb promises to a client: a durable map from keys to values.  *)
(* A call takes effect at one instant between its invocation and its       *)
(* return; a process that dies in the middle of a call leaves the call     *)
(* either done or not done; and whenever the database is ready, every key  *)
(* answers with exactly what the committed calls say.                      *)
(*                                                                         *)
(* Nothing here knows of files, an index or recovery.  Database.tla is     *)
(* shown to implement this module.                                         *)
(***************************************************************************)

CONSTANTS
    Keys,
    Values,
    Absent,       \* what get() answers for a key that is not stored
    Unavailable,  \* the "answer" while no call to get() can be made
    MayLose       \* whether the data file can be removed from outside

VARIABLES
    store,     \* the committed contents: Keys -> Values \cup {Absent}
    status,    \* "down", "opening", "ready" or "busy"
    pending,   \* the call that has not taken effect yet, or NoCall
    answers,   \* what get(k) answers now
    resp       \* outcome of the last call

vars == <<store, status, pending, answers, resp>>

NoCall == [type |-> "None"]

Calls == [type : {"Put"}, key : Keys, value : Values]
           \cup [type : {"Delete"}, key : Keys]

Nothing == [k \in Keys |-> Absent]
NoAnswers == [k \in Keys |-> Unavailable]

Effect(call) ==
    [store EXCEPT ![call.key] = IF call.type = "Put" THEN call.value ELSE Absent]

Init ==
    /\ store = Nothing
    /\ status = "down"
    /\ pending = NoCall
    /\ answers = NoAnswers
    /\ resp = "none"

Open ==
    /\ status = "down"
    /\ status' = "opening"
    /\ resp' = "none"
    /\ UNCHANGED <<store, pending, answers>>

Opened ==
    /\ status = "opening"
    /\ status' = "ready"
    /\ answers' = store
    /\ resp' = "ok"
    /\ UNCHANGED <<store, pending>>

(* Opening may fail, but it never costs data. *)
Refuse ==
    /\ status = "opening"
    /\ status' = "down"
    /\ resp' = "throw"
    /\ UNCHANGED <<store, pending, answers>>

(* put(), or erase() of a key that is stored. *)
Invoke(call) ==
    /\ status = "ready"
    /\ call.type = "Delete" => store[call.key] # Absent
    /\ status' = "busy"
    /\ pending' = call
    /\ answers' = NoAnswers
    /\ resp' = "none"
    /\ UNCHANGED store

(* erase() of a key that is not stored reports so and changes nothing. *)
EraseAbsent(k) ==
    /\ status = "ready"
    /\ store[k] = Absent
    /\ resp' = "absent"
    /\ UNCHANGED <<store, status, pending, answers>>

(* A put() that is too large is rejected and changes nothing. *)
Reject ==
    /\ status = "ready"
    /\ resp' = "throw"
    /\ UNCHANGED <<store, status, pending, answers>>

(* rebuild_index(), recover_records() and close(): no effect on the contents. *)
Maintain ==
    /\ status = "ready"
    /\ status' = "busy"
    /\ answers' = NoAnswers
    /\ resp' = "none"
    /\ UNCHANGED <<store, pending>>

Commit ==
    /\ status = "busy"
    /\ pending # NoCall
    /\ store' = Effect(pending)
    /\ pending' = NoCall
    /\ UNCHANGED <<status, answers, resp>>

(* A call that has a pending effect cannot return before it is committed. *)
Return ==
    /\ status = "busy"
    /\ pending = NoCall
    /\ status' = "ready"
    /\ answers' = store
    /\ resp' = "ok"
    /\ UNCHANGED <<store, pending>>

Closed ==
    /\ status = "busy"
    /\ pending = NoCall
    /\ status' = "down"
    /\ resp' = "ok"
    /\ UNCHANGED <<store, pending, answers>>

(* The process dies: the pending call never happens, the rest stays. *)
Die ==
    /\ status # "down"
    /\ status' = "down"
    /\ pending' = NoCall
    /\ answers' = NoAnswers
    /\ resp' = "none"
    /\ UNCHANGED store

(* Someone removes the data file. *)
Lose ==
    /\ MayLose
    /\ status = "down"
    /\ store' = Nothing
    /\ resp' = "none"
    /\ UNCHANGED <<status, pending, answers>>

(* Someone touches the index file only: the contents do not change. *)
Disturb ==
    /\ status = "down"
    /\ resp' = "none"
    /\ UNCHANGED <<store, status, pending, answers>>

Next ==
    \/ Open \/ Opened \/ Refuse
    \/ \E call \in Calls : Invoke(call)
    \/ \E k \in Keys : EraseAbsent(k)
    \/ Reject \/ Maintain
    \/ Commit \/ Return \/ Closed
    \/ Die \/ Lose \/ Disturb

Spec == Init /\ [][Next]_vars
=============================================================================
