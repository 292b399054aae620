--------------------------- MODULE WorkloadProofs ---------------------------
(***************************************************************************)
(* Proofs about the workloads of matrix, for every set of pairs and values *)
(* and any number of runs, killed runs and failed file operations.         *)
(***************************************************************************)
EXTENDS Workload, DatabaseProofs

-----------------------------------------------------------------------------
(* The files that a successful run leaves.                                 *)

(* No Database object exists before the files are cleared, and once the    *)
(* data file is removed for good the object that may still be there is     *)
(* idle: it has nothing left to write.                                     *)
SuccessInv ==
    /\ step \in {"shell", "clear", "clear_index", "create"} => pc = "none"
    /\ step = "remove_index" => dbFile = "missing" /\ pc \in {"none", "idle"}
    /\ status = "0" =>
         /\ step \in {"end", "shell"}
         /\ dbFile = "missing" /\ idxFile = "missing"
         /\ pc \in {"none", "idle"}

-----------------------------------------------------------------------------
(* Why a run succeeds.                                                     *)

(* Nothing that would justify a failure. *)
Blameless == ~faulty /\ \A k \in DOMAIN expected : expected[k] \notin TooLargeValues

(* The key was put in this pass or in an earlier one. *)
PutSoFar(k) == k \notin todo \/ passes < workload.overwrites

PairsOK ==
    /\ DOMAIN expected \subseteq Keys /\ todo \subseteq DOMAIN expected
    /\ \A k \in DOMAIN expected : expected[k] \in Values

(* A blameless run starts from cleared files, whatever earlier runs left,  *)
(* and the database it works with is in the states that IInv describes.    *)
Cleared ==
    /\ step \in {"clear_index", "create"} => dbFile = "missing" /\ log = <<>>
    /\ step = "create" => idxFile = "missing"
    /\ step \in {"clear", "clear_index", "create"} => \A k \in DOMAIN expected : ~PutSoFar(k)

Filling ==
    /\ FirstSession
    /\ pc \in Constructing => \A k \in DOMAIN expected : ~PutSoFar(k)
    /\ pc = "put_append" => rec.key \in DOMAIN expected /\ rec.value = expected[rec.key]
    /\ \A k \in DOMAIN expected :
         PutSoFar(k) /\ ~(pc = "put_append" /\ rec.key = k) => storeBar[k] = expected[k]

Stored == Whole /\ \A k \in DOMAIN expected : storeBar[k] = expected[k]

RunInv ==
    /\ status # "1"
    /\ step \in {"fill", "reopen", "verify"} => IInv /\ resp # "throw"
    /\ step = "fill" => Filling
    /\ step = "reopen" => Stored /\ pc \in {"close_mark", "none"}
    /\ step = "verify" => Stored /\ pc \in Reopening

(* The invariant TLAPS proves inductive. *)
WorkInv ==
    /\ TypeOK /\ SuccessInv /\ PairsOK /\ Cleared
    /\ Blameless => RunInv

-----------------------------------------------------------------------------
(* Steps of a workload as steps of the database.                           *)

(* Everything but the removal of files, and the destructor that finds them *)
(* gone, is a step of the database or leaves it alone.                     *)
LEMMA WorkIsDatabase ==
    ASSUME \/ \E w \in Workloads : \E pairs \in Pairs(w) : Start(w, pairs)
           \/ Create \/ Put \/ Overwrite \/ Filled \/ Verify \/ Threw \/ Return_to_shell
           \/ DatabaseStep \/ RemoveThrows \/ RunKilled,
           PairsOK
    PROVE  [Faultless]_vars /\ ~rebuild_index
<1> USE DEF Faultless, Call, rebuild_index, StartRebuild
<1>1. CASE \E w \in Workloads : \E pairs \in Pairs(w) : Start(w, pairs)
  BY <1>1 DEF Start, vars
<1>2. CASE Create
  BY <1>2 DEF Create
<1>3. CASE Put
  <2>1. PICK k \in todo : PutStart(k, expected[k]) \/ PutRejected(k, expected[k])
    BY <1>3 DEF Put
  <2>2. k \in Keys /\ expected[k] \in Values
    BY <2>1 DEF PairsOK
  <2>3. Call
    BY <2>1, <2>2
  <2>4. ~rebuild_index
    BY <2>1 DEF PutStart, PutRejected
  <2> QED
    BY <2>3, <2>4
<1>4. CASE Overwrite \/ Return_to_shell
  BY <1>4 DEF Overwrite, Return_to_shell, vars
<1>5. CASE Filled \/ Verify \/ Threw \/ RemoveThrows
  <2>1. CloseStart("dtor") \/ DestroyUnclean \/ UNCHANGED vars
    BY <1>5 DEF Filled, Verify, Threw, RemoveThrows
  <2> QED
    BY <2>1 DEF CloseStart, DestroyUnclean, Gone, vars
<1>6. CASE DatabaseStep
  <2>1. Step
    BY <1>6 DEF DatabaseStep
  <2>2. pc # "idle"
    BY <2>1 DEF Step, NewIndexCreate, NewIndexSetup, NewIndexLoad,
     NewIndexInvalid, NewIndexNotEmpty, NewDbCreate, NewDbSetup, NewCheckpoint,
     LoadInvalidDb, LoadMissingIndex, LoadInvalidIndex, LoadCleanIndex, LoadUncleanIndex,
     MarkDirty, RecoverWhole, RecoverTruncate, RecoverCorrupt, Replay, ReplayCorrupt,
     Install, RebuildCheckpointInCall, RebuildCheckpointInConstructor, PutAppend,
     PutIndex, PutCheckpoint, EraseAppend, EraseZero, EraseUnlink, EraseCheckpoint,
     CloseMark
  <2> QED
    BY <2>1, <2>2
<1>7. CASE RunKilled
  BY <1>7 DEF RunKilled, Crash, Kill, KillInAppend, Gone, vars
<1> QED
  BY <1>1, <1>2, <1>3, <1>4, <1>5, <1>6, <1>7

(* The variables of the database keep their types, removed files included. *)
LEMMA WorkTypes ==
    ASSUME TypeOK, PairsOK, [WorkNext]_workVars
    PROVE  TypeOK'
<1>1. CASE RemoveData \/ ClearIndex \/ RemoveIndex \/ DestroyWithoutFiles
  <2>1. FlagsOK'
    BY <1>1, Zenon DEF TypeOK, FlagsOK, RemoveData, ClearIndex, RemoveIndex, DestroyWithoutFiles, disk
  <2>2. CASE RemoveData
    BY <2>1, <2>2 DEF TypeOK, DataOK, FileStates, RemoveData, handle, locals
  <2>3. CASE ClearIndex \/ RemoveIndex
    BY <2>1, <2>3 DEF TypeOK, DataOK, FileStates, ClearIndex, RemoveIndex, handle, locals
  <2>4. CASE DestroyWithoutFiles
    BY <2>1, <2>4, InitialTypes DEF TypeOK, DataOK, Labels, Offsets, DestroyWithoutFiles, Gone,
       LocalsGone, disk
  <2> QED
    BY <1>1, <2>2, <2>3, <2>4
<1>2. CASE FileOperationFails
  <2>1. [Next]_vars
    BY <1>2 DEF FileOperationFails, Next
  <2> QED
    BY <2>1, FlagsStep, DataStep DEF TypeOK
<1>3. CASE UNCHANGED workVars
  <2>1. [Next]_vars
    BY <1>3 DEF workVars
  <2> QED
    BY <2>1, FlagsStep, DataStep DEF TypeOK
<1>4. CASE \/ \E w \in Workloads : \E pairs \in Pairs(w) : Start(w, pairs)
           \/ Create \/ Put \/ Overwrite \/ Filled \/ Verify \/ Threw \/ Return_to_shell
           \/ DatabaseStep \/ RemoveThrows \/ RunKilled
  <2>1. [Next]_vars
    BY <1>4, WorkIsDatabase DEF Faultless, Next
  <2> QED
    BY <2>1, FlagsStep, DataStep DEF TypeOK
<1> QED
  BY <1>1, <1>2, <1>3, <1>4 DEF WorkNext, Proceed

(* What SuccessInv says is kept by every step. *)
LEMMA SuccessStep == SuccessInv /\ [WorkNext]_workVars => SuccessInv'
<1> SUFFICES ASSUME SuccessInv, [WorkNext]_workVars PROVE SuccessInv'
  OBVIOUS
<1> USE DEF SuccessInv
<1>1. CASE \E w \in Workloads : \E pairs \in Pairs(w) : Start(w, pairs)
  BY <1>1 DEF Start, vars
<1>2. CASE RemoveData \/ ClearIndex \/ RemoveIndex
  BY <1>2 DEF RemoveData, ClearIndex, RemoveIndex
<1>3. CASE Create \/ Put \/ Overwrite \/ Filled
  BY <1>3 DEF Create, Put, Overwrite, Filled
<1>4. CASE Verify \/ Threw \/ RemoveThrows
  BY <1>4 DEF Verify, Threw, RemoveThrows
<1>5. CASE DestroyWithoutFiles \/ Return_to_shell
  BY <1>5 DEF DestroyWithoutFiles, Return_to_shell, Gone, disk, vars, run
<1>6. CASE DatabaseStep \/ FileOperationFails
  BY <1>6, AtRest DEF DatabaseStep, FileOperationFails, run
<1>7. CASE RunKilled
  BY <1>7 DEF RunKilled, Crash, Kill, KillInAppend, Gone, vars
<1>8. CASE UNCHANGED workVars
  BY <1>8 DEF workVars, run, vars, disk
<1> QED
  BY <1>1, <1>2, <1>3, <1>4, <1>5, <1>6, <1>7, <1>8 DEF WorkNext, Proceed

(* A run that returned 0 has left neither file behind, although the        *)
(* reopened object outlives them.                                          *)
THEOREM SuccessfulRunsLeaveNothing == WorkSpec => []SuccessLeavesNothing
<1>1. WorkInit => SuccessInv
  BY DEF WorkInit, Init, SuccessInv
<1>2. SuccessInv => SuccessLeavesNothing
  BY DEF SuccessInv, SuccessLeavesNothing
<1> QED
  BY <1>1, <1>2, SuccessStep, PTL DEF WorkSpec

-----------------------------------------------------------------------------
(* The pairs, and the files before the first open.                         *)

(* Every workload puts values of its database under keys of it. *)
LEMMA PairsStep ==
    ASSUME PairsOK, SuccessInv, Cleared, [WorkNext]_workVars
    PROVE  PairsOK' /\ Cleared'
<1>1. ASSUME NEW w \in Workloads, NEW pairs \in Pairs(w), Start(w, pairs)
      PROVE  PairsOK' /\ Cleared'
  <2>1. w.values \subseteq Values /\ w.overwrites \in Nat
    BY WorkloadAssumption DEF Workloads, run_basic, run_perf_basic, run_perf_large_values,
       run_perf_overwrite, run_hash_collision, SmallValues
  <2>2. PICK ks \in SUBSET Keys : pairs \in [ks -> w.values]
    BY DEF Pairs
  <2>3. DOMAIN pairs \subseteq Keys /\ \A k \in DOMAIN pairs : pairs[k] \in Values
    BY <2>1, <2>2
  <2>4. /\ expected' = pairs /\ todo' = DOMAIN pairs /\ step' = "clear"
        /\ passes' = w.overwrites /\ workload' = w
    BY <1>1 DEF Start
  <2>5. PairsOK'
    BY <2>3, <2>4 DEF PairsOK
  <2>6. \A k \in DOMAIN expected' : ~PutSoFar(k)'
    BY <2>1, <2>4 DEF PutSoFar
  <2> QED
    BY <2>4, <2>5, <2>6 DEF Cleared
<1>2. CASE RemoveData \/ ClearIndex
  <2>1. /\ UNCHANGED <<workload, expected, todo, passes>>
        /\ step' \in {"clear", "clear_index", "create"} => step \in {"clear", "clear_index"}
    BY <1>2 DEF RemoveData, ClearIndex
  <2>2. step' = "clear_index" \/ step' = "create" =>
          dbFile' = "missing" /\ log' = <<>> /\ (step' = "create" => idxFile' = "missing")
    BY <1>2 DEF RemoveData, ClearIndex, Cleared
  <2>3. PairsOK'
    BY <2>1 DEF PairsOK
  <2>4. step' \in {"clear", "clear_index", "create"} => \A k \in DOMAIN expected' : ~PutSoFar(k)'
    BY <2>1 DEF PutSoFar, Cleared
  <2> QED
    BY <2>2, <2>3, <2>4 DEF Cleared
<1>3. CASE \/ Create \/ Put \/ Overwrite \/ Filled \/ Verify \/ RemoveIndex \/ DestroyWithoutFiles
           \/ Threw \/ Return_to_shell \/ RemoveThrows \/ RunKilled
  <2>1. /\ expected' = expected
        /\ todo' \subseteq todo \/ todo' = DOMAIN expected
        /\ step' \notin {"clear", "clear_index", "create"}
    BY <1>3 DEF Create, Put, Overwrite, Filled, Verify, RemoveIndex, DestroyWithoutFiles, Threw,
       Return_to_shell, RemoveThrows, RunKilled, run
  <2> QED
    BY <2>1 DEF PairsOK, Cleared
<1>4. CASE DatabaseStep \/ FileOperationFails
  <2>1. pc \notin {"none", "idle"} /\ UNCHANGED <<step, expected, todo>>
    BY <1>4, AtRest DEF DatabaseStep, FileOperationFails, run
  <2> QED
    BY <2>1 DEF PairsOK, Cleared, SuccessInv
<1>5. CASE UNCHANGED workVars
  <2>1. UNCHANGED <<dbFile, log, idxFile, workload, step, expected, todo, passes>>
    BY <1>5 DEF workVars, vars, disk, run
  <2> QED
    BY <2>1 DEF PairsOK, Cleared, PutSoFar
<1> QED
  BY <1>1, <1>2, <1>3, <1>4, <1>5 DEF WorkNext, Proceed

-----------------------------------------------------------------------------
(* A run without a reason to fail does not fail.                           *)

(* The first session: each put stores its pair. *)
LEMMA FillStep ==
    ASSUME IInv, IInv', PairsOK, Filling, resp # "throw", DatabaseStep
    PROVE  Filling' /\ resp' # "throw"
<1>1. UNCHANGED run /\ Step
  BY DEF DatabaseStep
<1>2. UNCHANGED <<workload, expected, todo, passes>>
  BY <1>1 DEF run
<1>3. \A k : PutSoFar(k)' = PutSoFar(k)
  BY <1>2 DEF PutSoFar
<1>4. /\ FirstSession' /\ resp' # "throw" /\ pc' # "put_append"
      /\ pc' \in Constructing => pc \in Constructing
      /\ IF pc = "put_append" THEN storeBar' = [storeBar EXCEPT ![rec.key] = rec.value]
                             ELSE storeBar' = storeBar
  BY <1>1, FirstSessionStep DEF Filling
<1>5. DOMAIN storeBar = Keys /\ DOMAIN expected \subseteq Keys
  BY DEF storeBar, Contents, PairsOK
<1>6. ASSUME NEW k \in DOMAIN expected, PutSoFar(k) PROVE storeBar'[k] = expected[k]
  BY <1>4, <1>5, <1>6 DEF Filling
<1> QED
  BY <1>2, <1>3, <1>4, <1>6 DEF Filling

(* The end of the first session, and the second open. *)
LEMMA StoredStep ==
    ASSUME IInv, Stored, resp # "throw", DatabaseStep,
           pc \in {"close_mark", "none"} \cup Reopening
    PROVE  /\ Stored' /\ resp' # "throw"
           /\ pc \in {"close_mark", "none"} => pc' = "none"
           /\ pc \in Reopening => pc' \in Reopening
<1>1. Step /\ expected' = expected
  BY DEF DatabaseStep, run
<1>2. log' = log => storeBar' = storeBar
  BY DEF storeBar
<1>3. CASE pc \in Reopening
  BY <1>1, <1>2, <1>3, ReopenStep DEF Stored, Reopening
<1>4. CASE pc \in {"close_mark", "none"}
  <2>1. CloseMark
    BY <1>1, <1>4, OnlyCloseMark
  <2> QED
    BY <1>1, <1>2, <2>1 DEF CloseMark, Gone, Reopening, Stored, Whole, TornTail
<1> QED
  BY <1>3, <1>4

(* What RunInv says of a run that nothing disturbs is kept by its steps. *)
LEMMA RunStep ==
    ASSUME TypeOK, SuccessInv, PairsOK, Cleared, Blameless, RunInv,
           Create \/ Put \/ Overwrite \/ Filled \/ Verify \/ Threw \/ DatabaseStep
    PROVE  RunInv'
<1>1. step \in {"fill", "reopen", "verify"} => IInv'
  <2>1. [Faultless]_vars /\ ~rebuild_index
    BY WorkIsDatabase
  <2> QED
    BY <2>1, InvStep DEF RunInv
<1>2. log' = log => storeBar' = storeBar
  BY DEF storeBar
<1>3. CASE Create
  <2>1. UNCHANGED <<workload, expected, todo, passes, status, disk>> /\ resp' = "none"
    BY <1>3 DEF Create, Open, OpenNew, OpenExisting
  <2>2. CASE step = "create"
    <3>1. IInv
      BY <2>2, ClearedFiles DEF SuccessInv, Cleared
    <3>2. IInv'
      BY <1>3, <3>1, WorkIsDatabase, InvStep
    <3>3. step' = "fill" /\ pc' = "ctor_index" /\ idxFile' = "missing"
      BY <1>3, <2>1, <2>2 DEF Create, Open, OpenNew, OpenExisting, Cleared, disk
    <3>4. \A k \in DOMAIN expected' : ~PutSoFar(k)'
      BY <2>1, <2>2 DEF Cleared, PutSoFar
    <3>5. Filling'
      BY <3>3, <3>4 DEF Filling, FirstSession
    <3> QED
      BY <2>1, <3>2, <3>3, <3>5 DEF RunInv
  <2>3. CASE step = "reopen"
    <3>1. step' = "verify" /\ pc' = "ctor_load" /\ UNCHANGED <<log, dbFile, idxFile>>
      BY <1>3, <2>1, <2>3 DEF Create, Open, OpenNew, OpenExisting, RunInv, Stored, Whole, disk
    <3>2. Stored'
      BY <1>2, <2>1, <2>3, <3>1 DEF RunInv, Stored, Whole, TornTail
    <3> QED
      BY <1>1, <2>1, <2>3, <3>1, <3>2 DEF RunInv, Reopening
  <2> QED
    BY <1>3, <2>2, <2>3 DEF Create
<1>4. CASE Put
  <2>1. PICK k \in todo : (PutStart(k, expected[k]) \/ PutRejected(k, expected[k])) /\ todo' = todo \ {k}
    BY <1>4 DEF Put
  <2>2. k \in DOMAIN expected /\ PutStart(k, expected[k])
    BY <2>1, WorkloadAssumption DEF PairsOK, Blameless, PutRejected
  <2>3. /\ step = "fill" /\ step' = "fill" /\ pc = "idle" /\ pc' = "put_append" /\ resp' = "none"
        /\ log' = log /\ rec'.key = k /\ rec'.value = expected[k]
        /\ UNCHANGED <<workload, expected, passes, status>>
    BY <1>4, <2>2 DEF Put, PutStart, disk
  <2>4. \A j : j # k => PutSoFar(j)' = PutSoFar(j)
    BY <2>1, <2>3 DEF PutSoFar
  <2>5. Filling'
    BY <1>2, <2>2, <2>3, <2>4 DEF RunInv, Filling, FirstSession, Constructing
  <2> QED
    BY <1>1, <2>3, <2>5 DEF RunInv
<1>5. CASE Overwrite
  <2>1. /\ step = "fill" /\ step' = "fill" /\ todo = {}
        /\ UNCHANGED <<pc, rec, idx, log, idxFile, resp, expected, status>>
    BY <1>5 DEF Overwrite, vars, disk, locals
  <2>2. \A k \in DOMAIN expected : PutSoFar(k)
    BY <2>1 DEF PutSoFar
  <2>3. Filling'
    BY <1>2, <2>1, <2>2 DEF RunInv, Filling, FirstSession
  <2> QED
    BY <1>1, <2>1, <2>3 DEF RunInv
<1>6. CASE Filled
  <2>1. step = "fill" /\ pc = "idle" /\ IInv /\ Filling
    BY <1>6 DEF Filled, CloseStart, DestroyUnclean, RunInv
  <2>2. dbFile = "ok" /\ idxFile = "ok" /\ FileSize = cachedUpTo /\ ~TornTail
    BY <2>1 DEF IInv, FilesMatchProgress, CheckpointInStep, OnlyTheTailIsTorn
  <2>3. \A k \in DOMAIN expected : storeBar[k] = expected[k]
    BY <1>6, <2>1 DEF Filled, Filling, PutSoFar
  <2>4. CloseStart("dtor")
    BY <1>6, <2>2 DEF Filled, DestroyUnclean
  <2>5. /\ step' = "reopen" /\ pc' = "close_mark" /\ resp' = "none"
        /\ UNCHANGED <<log, dbFile, idxFile, expected, status>>
    BY <1>6, <2>4 DEF Filled, CloseStart, disk
  <2>6. Stored'
    BY <1>2, <2>2, <2>3, <2>5 DEF Stored, Whole, TornTail
  <2> QED
    BY <1>1, <2>1, <2>5, <2>6 DEF RunInv
<1>7. CASE Verify
  <2>1. step = "verify" /\ pc = "idle" /\ IInv /\ Stored
    BY <1>7 DEF Verify, RunInv
  <2>2. \A k \in DOMAIN expected : get(k) = expected[k]
    BY <2>1, IdleAnswers DEF AnswersAreContents, Stored, PairsOK
  <2>3. status' = status /\ step' = "remove"
    BY <1>7, <2>2 DEF Verify, Mismatch
  <2> QED
    BY <2>3 DEF RunInv
<1>8. CASE Threw
  BY <1>8 DEF Threw, RunInv
<1>9. CASE DatabaseStep
  <2>1. UNCHANGED <<step, status>>
    BY <1>9 DEF DatabaseStep, run
  <2>2. step = "fill" => Filling' /\ resp' # "throw"
    BY <1>1, <1>9, FillStep DEF RunInv
  <2>3. step = "reopen" => Stored' /\ resp' # "throw" /\ pc' = "none"
    BY <1>9, StoredStep DEF RunInv
  <2>4. step = "verify" => Stored' /\ resp' # "throw" /\ pc' \in Reopening
    BY <1>9, StoredStep DEF RunInv
  <2> QED
    BY <1>1, <2>1, <2>2, <2>3, <2>4 DEF RunInv
<1> QED
  BY <1>3, <1>4, <1>5, <1>6, <1>7, <1>8, <1>9

(* Every step, of every run, keeps WorkInv. *)
LEMMA WorkStep == WorkInv /\ [WorkNext]_workVars => WorkInv'
<1> SUFFICES ASSUME WorkInv, [WorkNext]_workVars PROVE WorkInv'
  OBVIOUS
<1>1. (TypeOK /\ SuccessInv /\ PairsOK /\ Cleared)'
  BY WorkTypes, SuccessStep, PairsStep DEF WorkInv
<1> SUFFICES ASSUME Blameless' PROVE RunInv'
  BY <1>1 DEF WorkInv
<1>2. CASE \E w \in Workloads : \E pairs \in Pairs(w) : Start(w, pairs)
  BY <1>2 DEF Start, RunInv
<1>3. CASE RemoveThrows \/ FileOperationFails
  BY <1>3 DEF RemoveThrows, FileOperationFails, Blameless
<1>4. CASE RemoveData \/ ClearIndex \/ RemoveIndex \/ DestroyWithoutFiles \/ Return_to_shell \/ RunKilled
  <2>1. /\ UNCHANGED <<expected, faulty>>
        /\ status' \in {status, "0", "signal"}
        /\ step' \notin {"fill", "reopen", "verify"}
    BY <1>4 DEF RemoveData, ClearIndex, RemoveIndex, DestroyWithoutFiles, Return_to_shell, RunKilled, run
  <2>2. Blameless
    BY <2>1 DEF Blameless
  <2> QED
    BY <2>1, <2>2 DEF WorkInv, RunInv
<1>5. CASE Create \/ Put \/ Overwrite \/ Filled \/ Verify \/ Threw \/ DatabaseStep
  <2>1. UNCHANGED <<expected, faulty>>
    BY <1>5 DEF Create, Put, Overwrite, Filled, Verify, Threw, DatabaseStep, run
  <2>2. Blameless
    BY <2>1 DEF Blameless
  <2> QED
    BY <1>5, <2>2, RunStep DEF WorkInv
<1>6. CASE UNCHANGED workVars
  <2>1. Blameless /\ RunInv
    BY <1>6 DEF workVars, run, Blameless, WorkInv
  <2>2. step \in {"fill", "reopen", "verify"} => IInv'
    BY <1>6, <2>1, InvStep DEF RunInv, workVars, vars, rebuild_index, StartRebuild
  <2>3. UNCHANGED <<log, dbFile, idxFile, idx, pc, rec, resp, run>>
    BY <1>6 DEF workVars, vars, disk, locals
  <2>4. Filling => Filling'
    BY <2>3 DEF Filling, FirstSession, PutSoFar, storeBar, run
  <2>5. Stored => Stored'
    BY <2>3 DEF Stored, Whole, TornTail, storeBar, run
  <2> QED
    BY <2>1, <2>2, <2>3, <2>4, <2>5 DEF RunInv, run
<1> QED
  BY <1>2, <1>3, <1>4, <1>5, <1>6 DEF WorkNext, Proceed

(* A workload reports a failure only if it was asked to put a value that   *)
(* the database refuses, or if a file operation failed: neither what runs  *)
(* killed at any point left under the path, nor the reopen of its own      *)
(* database, makes it fail.                                                *)
THEOREM FailuresAreJustified == WorkSpec => []OnlyJustifiedFailures
<1>1. WorkInit => WorkInv
  <2> SUFFICES ASSUME WorkInit PROVE WorkInv
    OBVIOUS
  <2>1. TypeOK
    BY FlagsInit, DataInit DEF WorkInit, TypeOK
  <2>2. DOMAIN expected = {}
    BY DEF WorkInit
  <2> QED
    BY <2>1, <2>2 DEF WorkInit, Init, WorkInv, SuccessInv, PairsOK, Cleared, RunInv
<1>2. WorkInv => OnlyJustifiedFailures
  BY DEF WorkInv, RunInv, Blameless, OnlyJustifiedFailures
<1> QED
  BY <1>1, <1>2, WorkStep, PTL DEF WorkSpec
=============================================================================
