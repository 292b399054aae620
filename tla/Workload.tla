------------------------------ MODULE Workload ------------------------------
(***************************************************************************)
(* The workloads of matrix: basic, perf-basic, perf-large-values,          *)
(* perf-overwrite and hash-collision (apps/matrix).  Each removes what an  *)
(* earlier run left under its fixed path, fills a database in one session, *)
(* opens it again, compares every pair and removes the files.  Only basic  *)
(* destroys the reopened object first: the others remove the files under   *)
(* it, and its destructor runs close() on a path that is gone.             *)
(*                                                                         *)
(* A run can be killed at any point, its file operations can fail          *)
(* (IOFaults), and the next run of the same workload, with other pairs,    *)
(* starts from what is left.                                               *)
(***************************************************************************)
EXTENDS Database, FiniteSets

CONSTANT Overwrites   \* passes of perf-overwrite after the first

VARIABLES
    workload,  \* the subcommand
    step,      \* how far the run is
    expected,  \* the pairs: a function on the keys of this run
    todo,      \* keys this pass over the pairs has still to put
    passes,    \* passes still to make after this one
    status,    \* what main() returns
    faulty     \* history: a file operation of this run failed

run == <<workload, step, expected, todo, passes, status, faulty>>
workVars == <<vars, run>>

ASSUME WorkloadAssumption ==
    /\ Overwrites \in Nat \ {0}
    /\ TooLargeKeys = {}
    /\ IsFiniteSet(Keys) /\ MaxLog >= Cardinality(Keys) * (Overwrites + 1)

(* The five functions are the same steps with these differences: which     *)
(* values they put (only perf-large-values lets the user choose their      *)
(* size), how often each key is overwritten, and whether the reopened      *)
(* object is gone before its files are.  The number of buckets that        *)
(* hash-collision chooses is not visible here (see HashIndex), and timing, *)
(* sizes and statistics are only printed.                                  *)
SmallValues == Values \ TooLargeValues
run_basic == [values |-> SmallValues, overwrites |-> 0, destroyFirst |-> TRUE]
run_perf_basic == [values |-> SmallValues, overwrites |-> 0, destroyFirst |-> FALSE]
run_perf_large_values == [values |-> Values, overwrites |-> 0, destroyFirst |-> FALSE]
run_perf_overwrite == [values |-> SmallValues, overwrites |-> Overwrites, destroyFirst |-> FALSE]
run_hash_collision == [values |-> SmallValues, overwrites |-> 0, destroyFirst |-> FALSE]

(* Seen from the database, hash-collision is perf-basic: four differ. *)
Workloads == {run_basic, run_perf_basic, run_perf_large_values, run_perf_overwrite,
              run_hash_collision}
Pairs(w) == UNION { [ks -> w.values] : ks \in (SUBSET Keys) \ {{}} }
NoWorkload == [values |-> {}]

-----------------------------------------------------------------------------
(* main() calls the workload; the first thing it does is to remove both files. *)
Start(w, pairs) ==
    /\ step = "shell"
    /\ workload \in {NoWorkload, w}
    /\ workload' = w
    /\ expected' = pairs
    /\ todo' = DOMAIN pairs
    /\ passes' = w.overwrites
    /\ status' = "none"
    /\ faulty' = FALSE
    /\ step' = "clear"
    /\ UNCHANGED vars

(* remove(path), at the start and again at the end; then remove(idx_path). *)
RemoveData ==
    /\ step \in {"clear", "remove"}
    /\ pc \in {"none", "idle"}
    /\ dbFile' = "missing"
    /\ log' = <<>>
    /\ unfinished' = FALSE
    /\ step' = IF step = "clear" THEN "clear_index" ELSE "remove_index"
    /\ UNCHANGED <<idxFile, idx, indexedUpTo, indexClean, handle, locals, pc, resp,
                   workload, expected, todo, passes, status, faulty>>

(* Mutant: the index of an earlier run is left where it is. *)
ClearIndex_forgotten ==
    /\ step = "clear_index"
    /\ step' = "create"
    /\ UNCHANGED <<vars, workload, expected, todo, passes, status, faulty>>

ClearIndex ==
    /\ step = "clear_index"
    /\ idxFile' = "missing"
    /\ step' = "create"
    /\ UNCHANGED <<dbFile, log, idx, indexedUpTo, indexClean, handle, locals, pc, resp, unfinished,
                   workload, expected, todo, passes, status, faulty>>

Create ==
    /\ step \in {"create", "reopen"}
    /\ pc = "none"
    /\ Open
    /\ step' = IF step = "create" THEN "fill" ELSE "verify"
    /\ UNCHANGED <<workload, expected, todo, passes, status, faulty>>

(* Pairs are put in the order of an unordered_map. *)
Put ==
    /\ step = "fill"
    /\ resp = "ok"
    /\ \E k \in todo :
         /\ PutStart(k, expected[k]) \/ PutRejected(k, expected[k])
         /\ todo' = todo \ {k}
    /\ UNCHANGED <<workload, step, expected, passes, status, faulty>>

(* Mutant: the passes are not counted. *)
Overwrite_uncounted ==
    /\ step = "fill"
    /\ resp = "ok"
    /\ todo = {}
    /\ passes > 0
    /\ todo' = DOMAIN expected
    /\ UNCHANGED <<vars, workload, step, expected, passes, status, faulty>>

Overwrite ==
    /\ step = "fill"
    /\ resp = "ok"
    /\ todo = {}
    /\ passes > 0
    /\ todo' = DOMAIN expected
    /\ passes' = passes - 1
    /\ UNCHANGED <<vars, workload, step, expected, status, faulty>>

Filled ==
    /\ step = "fill"
    /\ resp = "ok"
    /\ todo = {} /\ passes = 0
    /\ CloseStart("dtor") \/ DestroyUnclean
    /\ step' = "reopen"
    /\ UNCHANGED <<workload, expected, todo, passes, status, faulty>>

Mismatch == \E k \in DOMAIN expected : get(k) # expected[k]

(* A missing key and a wrong value end the run with status 1.  Unless all  *)
(* is well and this is not basic, the reopened object is destroyed here.   *)
Verify ==
    /\ step = "verify"
    /\ pc = "idle" /\ resp = "ok"
    /\ IF workload.destroyFirst \/ Mismatch THEN CloseStart("dtor") \/ DestroyUnclean ELSE UNCHANGED vars
    /\ status' = IF Mismatch THEN "1" ELSE status
    /\ step' = IF Mismatch THEN "end" ELSE "remove"
    /\ UNCHANGED <<workload, expected, todo, passes, faulty>>

RemoveIndex ==
    /\ step = "remove_index"
    /\ idxFile' = "missing"
    /\ status' = "0"
    /\ step' = "end"
    /\ UNCHANGED <<dbFile, log, idx, indexedUpTo, indexClean, handle, locals, pc, resp, unfinished,
                   workload, expected, todo, passes, faulty>>

(* Mutant: the destructor marks the index clean without a look at the file. *)
DestroyWithoutFiles_marks ==
    /\ step = "end"
    /\ pc = "idle"
    /\ dbFile = "missing"
    /\ idxFile' = "ok"
    /\ Gone("ok")
    /\ UNCHANGED <<dbFile, log, idx, indexedUpTo, indexClean, unfinished, run>>

(* ~Database() of the reopened object: file_size() throws in close(), the  *)
(* exception is swallowed, and nothing is written to a removed index.      *)
DestroyWithoutFiles ==
    /\ step = "end"
    /\ pc = "idle"
    /\ dbFile = "missing"
    /\ Gone("ok")
    /\ UNCHANGED <<disk, unfinished, run>>

(* An exception reaches main(); an open object is destroyed on the way. *)
Threw ==
    /\ step \in {"fill", "verify"}
    /\ resp = "throw"
    /\ \/ pc = "none" /\ UNCHANGED vars
       \/ CloseStart("dtor") \/ DestroyUnclean
    /\ status' = "1"
    /\ step' = "end"
    /\ UNCHANGED <<workload, expected, todo, passes, faulty>>

Return_to_shell ==
    /\ step = "end"
    /\ pc = "none"
    /\ step' = "shell"
    /\ UNCHANGED <<vars, workload, expected, todo, passes, status, faulty>>

(* remove() throws; the reopened object finds its data file, or does not. *)
RemoveThrows ==
    /\ IOFaults
    /\ step \in {"clear", "clear_index", "remove", "remove_index"}
    /\ pc \in {"none", "idle"}
    /\ \/ pc = "idle" /\ dbFile # "missing" /\ (CloseStart("dtor") \/ DestroyUnclean)
       \/ (pc = "none" \/ dbFile = "missing") /\ UNCHANGED vars
    /\ status' = "1"
    /\ faulty' = TRUE
    /\ step' = "end"
    /\ UNCHANGED <<workload, expected, todo, passes>>

DatabaseStep == Step /\ UNCHANGED run
FileOperationFails ==
    /\ IOFail
    /\ faulty' = TRUE
    /\ UNCHANGED <<workload, step, expected, todo, passes, status>>

RunKilled ==
    /\ step # "shell"
    /\ \/ Crash
       \/ pc = "none" /\ UNCHANGED vars
    /\ step' = "shell"
    /\ status' = "signal"
    /\ UNCHANGED <<workload, expected, todo, passes, faulty>>

-----------------------------------------------------------------------------
WorkInit ==
    /\ Init
    /\ workload = NoWorkload
    /\ step = "shell"
    /\ expected = <<>>
    /\ todo = {}
    /\ passes = 0
    /\ status = "none"
    /\ faulty = FALSE

Proceed ==
    \/ ClearIndex \/ Create \/ Put \/ Overwrite \/ Filled
    \/ Verify \/ RemoveData \/ RemoveIndex
    \/ DestroyWithoutFiles \/ Threw \/ Return_to_shell \/ DatabaseStep

WorkNext ==
    \/ \E w \in Workloads : \E pairs \in Pairs(w) : Start(w, pairs)
    \/ Proceed \/ RemoveThrows \/ FileOperationFails \/ RunKilled

(* A run that was started is executed. *)
WorkSpec == WorkInit /\ [][WorkNext]_workVars /\ WF_workVars(Proceed)

-----------------------------------------------------------------------------
(* A workload reports a failure only for a reason that lies outside the    *)
(* database: a value the database must refuse, or a file operation that    *)
(* failed.  What earlier runs left under the same path, killed wherever,   *)
(* never makes a run fail.                                                 *)
OnlyJustifiedFailures ==
    status = "1" => faulty \/ \E k \in DOMAIN expected : expected[k] \in TooLargeValues

(* A run that returned 0 has verified every pair and left neither file     *)
(* behind, although the destructor of the reopened object runs after the   *)
(* files were removed.                                                     *)
SuccessLeavesNothing ==
    step = "shell" /\ status = "0" => dbFile = "missing" /\ idxFile = "missing"

(* Every run comes to an end. *)
RunsEnd == step # "shell" ~> step = "shell"
=============================================================================
