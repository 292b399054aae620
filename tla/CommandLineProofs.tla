------------------------- MODULE CommandLineProofs -------------------------
(***************************************************************************)
(* Proof that the reports of zidane never contradict each other, for every *)
(* set of keys and values, any number of runs, kills at every step and     *)
(* file operations that fail at every step.                                *)
(***************************************************************************)
EXTENDS CommandLineContract, DatabaseProofs

(* A call failed half-way.  Its process makes no other call; the object    *)
(* that is left cannot be closed, so the index stays marked dirty.         *)
Halted ==
    /\ pc = "idle" /\ resp = "throw"
    /\ dbFile = "ok" /\ idxFile = "ok"
    /\ ~indexClean /\ FileSize # cachedUpTo
    /\ \A i \in 1 .. Len(log) :
         \/ log[i].status = "Success"
         \/ i = Len(log) /\ log[i].status = "Truncated"

(* Where main() is determines where its database can be. *)
StageInv ==
    /\ command \in Commands \cup {NoCommand}
    /\ stage \in Stages
    /\ stage # "shell" => command \in Commands
    /\ caller # "api"
    /\ stage = "shell" => pc = "none"
    /\ stage = "open" => pc \in {"none", "idle"} \cup Constructing \cup Rebuilding
    /\ stage = "call" => pc \in {"idle"} \cup Writing
    /\ stage = "leave" => pc \in {"idle", "close_mark", "none"}

(* One call in each process: the database is in the states that IInv       *)
(* describes, although file operations fail, or it has just been halted.   *)
HealthInv ==
    /\ IInv \/ Halted
    /\ stage \in {"shell", "open"} => IInv
    /\ pc \in Committed => FileSize # cachedUpTo

(* Outside of calls the contents are among those that the reports allow;   *)
(* within one, the key of the call is as far as the call is.               *)
Wanted == IF command.op = "put" THEN command.value ELSE Absent
WasThere == \E v \in may[command.key] : v # Absent
MayInv ==
    /\ may \in [Keys -> SUBSET (Values \cup {Absent})]
    /\ \A k \in Keys : stage # "call" \/ k # command.key => storeBar[k] \in may[k]
    /\ stage = "call" =>
         /\ may[command.key] # {}
         /\ storeBar[command.key] \in Undecided(command)
         /\ pc \in {"put_append", "put_index", "put_checkpoint"} => command.op = "put" /\ ~Refused
         /\ pc \in Writing \ {"put_append", "put_index", "put_checkpoint"} =>
              command.op = "del" /\ WasThere
         /\ pc = "put_append" => rec.key = command.key /\ rec.value = command.value
         /\ pc = "erase_append" => rec.key = command.key
         /\ pc \in Committed \/ (pc = "idle" /\ resp = "ok") => storeBar[command.key] = Wanted
         /\ pc = "idle" /\ resp = "ok" /\ command.op = "del" => WasThere
         /\ pc = "idle" /\ resp = "absent" =>
              command.op = "del" /\ storeBar[command.key] = Absent /\ Absent \in may[command.key]

(* The invariant TLAPS proves inductive. *)
ContractInv == TypeOK /\ StageInv /\ HealthInv /\ MayInv

-----------------------------------------------------------------------------
(* Steps of main() as steps of the database.                               *)

(* Only a failing file operation takes the database out of the steps that  *)
(* keep IInv, and zidane never asks for a rebuild.                         *)
LEMMA CliIsDatabase ==
    ASSUME StageInv, [CliNext]_cliVars
    PROVE  /\ [Next]_vars /\ ~rebuild_index
           /\ [Faultless]_vars \/ (DatabaseStep /\ IOFail)
<1> USE DEF Next, Faultless, Call, rebuild_index, StartRebuild
<1>1. CASE \E c \in Commands : Launch(c)
  BY <1>1 DEF Launch, Open, OpenNew, OpenExisting
<1>2. CASE OpenThrew \/ run_get \/ Returned \/ Exit \/ UNCHANGED cliVars
  BY <1>2 DEF OpenThrew, run_get, Returned, Exit, cliVars, vars
<1>3. CASE run_put
  <2>1. command.key \in Keys /\ command.value \in Values
    BY <1>3 DEF run_put, StageInv, Commands, NoCommand
  <2> QED
    BY <1>3, <2>1 DEF run_put, PutStart, PutRejected
<1>4. CASE run_delete
  <2>1. command.key \in Keys
    BY <1>4 DEF run_delete, StageInv, Commands, NoCommand
  <2> QED
    BY <1>4, <2>1 DEF run_delete, EraseStart, EraseMissing
<1>5. CASE Leave
  BY <1>5 DEF Leave, CloseStart, DestroyUnclean, Gone
<1>6. CASE DatabaseStep
  BY <1>6, AtRest DEF DatabaseStep
<1>7. CASE ProcessKilled
  BY <1>7 DEF ProcessKilled, Crash, Kill, KillInAppend, Gone
<1> QED
  BY <1>1, <1>2, <1>3, <1>4, <1>5, <1>6, <1>7 DEF CliNext, Main

(* Where a step, or a failure, of a running call leads. *)
LEMMA StepMoves ==
    ASSUME TypeOK, Step \/ IOFail, caller # "api"
    PROVE  /\ pc \in Constructing \cup Rebuilding => pc' \in {"none", "idle"} \cup Constructing \cup Rebuilding
           /\ pc \in Writing => pc' \in {"idle"} \cup Writing
           /\ pc = "close_mark" => pc' \in {"none", "idle"}
           /\ pc \notin {"none", "idle"} /\ caller' # "api"
<1> USE DEF Constructing, Rebuilding, Writing, locals, Return, Gone, LocalsGone, Throw, StartRebuild
<1>1. CASE IOFail
  BY <1>1 DEF IOFail, FailAppend, FailIndexWrite, FailRebuild, FailReload, FailConstructor, FailClose
<1>2. CASE \/ NewIndexCreate \/ NewIndexSetup \/ NewIndexLoad \/ NewIndexInvalid \/ NewIndexNotEmpty
           \/ NewDbCreate \/ NewDbSetup \/ NewCheckpoint
  BY <1>2 DEF NewIndexCreate, NewIndexSetup, NewIndexLoad, NewIndexInvalid, NewIndexNotEmpty,
     NewDbCreate, NewDbSetup, NewCheckpoint
<1>3. CASE \/ LoadInvalidDb \/ LoadMissingIndex \/ LoadInvalidIndex \/ LoadCleanIndex
           \/ LoadUncleanIndex \/ MarkDirty
  BY <1>3 DEF LoadInvalidDb, LoadMissingIndex, LoadInvalidIndex, LoadCleanIndex, LoadUncleanIndex,
     MarkDirty
<1>4. CASE \/ RecoverWhole \/ RecoverTruncate \/ RecoverCorrupt \/ Replay \/ ReplayCorrupt \/ Install
           \/ RebuildCheckpointInCall \/ RebuildCheckpointInConstructor
  BY <1>4 DEF RecoverWhole, RecoverTruncate, RecoverCorrupt, Replay, ReplayCorrupt, Install,
     RebuildCheckpointInCall, RebuildCheckpointInConstructor
<1>5. CASE \/ PutAppend \/ PutIndex \/ PutCheckpoint \/ EraseAppend \/ EraseZero \/ EraseUnlink
           \/ EraseCheckpoint \/ CloseMark
  BY <1>5 DEF PutAppend, PutIndex, PutCheckpoint, EraseAppend, EraseZero, EraseUnlink,
     EraseCheckpoint, CloseMark
<1> QED
  BY <1>1, <1>2, <1>3, <1>4, <1>5 DEF Step

(* The stages of main() and the database in step with each other. *)
LEMMA StageStep ==
    ASSUME TypeOK, StageInv, [CliNext]_cliVars
    PROVE  StageInv'
<1> USE DEF StageInv, Stages
<1>1. CASE \E c \in Commands : Launch(c)
  BY <1>1 DEF Launch, Open, OpenNew, OpenExisting, locals, Constructing
<1>2. CASE OpenThrew \/ run_get \/ Returned \/ Exit \/ UNCHANGED cliVars
  BY <1>2 DEF OpenThrew, run_get, Returned, Exit, cliVars, cli, vars, locals
<1>3. CASE run_put
  BY <1>3 DEF run_put, PutStart, PutRejected, locals, Writing
<1>4. CASE run_delete
  BY <1>4 DEF run_delete, EraseStart, EraseMissing, locals, Writing
<1>5. CASE Leave
  BY <1>5 DEF Leave, CloseStart, DestroyUnclean, Gone, LocalsGone, cli
<1>6. CASE DatabaseStep
  <2>1. UNCHANGED <<command, stage>> /\ (Step \/ IOFail) /\ stage # "shell"
    BY <1>6 DEF DatabaseStep, cli
  <2> QED
    BY <2>1, StepMoves
<1>7. CASE ProcessKilled
  BY <1>7 DEF ProcessKilled, Crash, Kill, KillInAppend, Gone, LocalsGone
<1> QED
  BY <1>1, <1>2, <1>3, <1>4, <1>5, <1>6, <1>7 DEF CliNext, Main

-----------------------------------------------------------------------------
(* Failing file operations.                                                *)

(* When no object is left the files alone decide; an index is safe to find *)
(* as it was, or dirty.                                                    *)
LEMMA FilesOnly ==
    ASSUME IInv \/ Halted, TypeOK', pc' = "none", caller' = "none", UNCHANGED <<dbFile, log>>,
           UNCHANGED <<idxFile, idx, indexedUpTo, indexClean>> \/ ~indexClean'
    PROVE  IInv'
<1>1. FilesMatchProgress'
  BY DEF IInv, Halted, FilesMatchProgress, Writing
<1>2. OnlyTheTailIsTorn'
  BY DEF IInv, Halted, OnlyTheTailIsTorn, TornTail
<1>3. CleanIndexRepresentsLog'
  BY DEF IInv, Halted, CleanIndexRepresentsLog, index_metadata_clean, FileSize
<1>4. (DirtyWhileWriting /\ IndexInStep /\ CheckpointInStep)'
  BY DEF DirtyWhileWriting, IndexInStep, CheckpointInStep, InCall, Writing
<1> QED
  BY <1>1, <1>2, <1>3, <1>4 DEF IInv

(* A failing file operation leaves what a later open can rely on, or halts *)
(* the one call of the process.                                            *)
LEMMA FailStep ==
    ASSUME IInv, TypeOK', IOFail, caller # "api", pc \in Committed => FileSize # cachedUpTo
    PROVE  /\ IInv' \/ Halted'
           /\ pc \in Constructing \cup Rebuilding => IInv'
           /\ pc' \notin Committed
           /\ storeBar' = storeBar
<1> USE DEF IInv, TypeOK, DataOK
<1>1. log \in Seq(Items)
  OBVIOUS
<1>2. ASSUME UNCHANGED log PROVE storeBar' = storeBar
  BY <1>2 DEF storeBar
<1>3. CASE FailAppend
  <2>1. /\ pc \in {"put_append", "erase_append"} /\ pc' = "idle" /\ resp' = "throw" /\ caller' = "none"
        /\ UNCHANGED <<dbFile, idxFile, idx, indexedUpTo, indexClean, cachedUpTo>>
    BY <1>3 DEF FailAppend, Return, LocalsGone, handle
  <2>2. /\ dbFile = "ok" /\ idxFile = "ok" /\ ~indexClean /\ ~TornTail
        /\ indexedUpTo = FileSize /\ cachedUpTo = FileSize /\ Represents(idx, log, Len(log))
    BY <2>1 DEF FilesMatchProgress, DirtyWhileWriting, OnlyTheTailIsTorn, CheckpointInStep,
       IndexInStep, Writing
  <2>3. CASE log' = log
    <3>1. (FilesMatchProgress /\ DirtyWhileWriting)'
      BY <2>1, <2>2 DEF FilesMatchProgress, DirtyWhileWriting, Writing
    <3>2. (OnlyTheTailIsTorn /\ CleanIndexRepresentsLog)'
      BY <2>1, <2>2, <2>3 DEF OnlyTheTailIsTorn, TornTail, CleanIndexRepresentsLog,
         index_metadata_clean
    <3>3. (IndexInStep /\ CheckpointInStep)'
      BY <2>1, <2>2, <2>3 DEF IndexInStep, CheckpointInStep, InCall, FileSize
    <3>4. IInv'
      BY <3>1, <3>2, <3>3
    <3> QED
      BY <1>2, <2>1, <2>3, <3>4 DEF Committed, Constructing, Rebuilding
  <2>4. CASE log' \in Appended(Fragment)
    <3>1. \A i \in 1 .. Len(log) : log[i].status = "Success"
      BY <2>2 DEF TornTail
    <3>2. /\ Len(log') = Len(log) + 1
          /\ log'[Len(log) + 1] = Fragment
          /\ \A i \in 1 .. Len(log) : log'[i] = log[i]
      BY <1>1, <2>4, <3>1, FragmentIsItem, AppendedFacts
    <3>3. \A i \in 1 .. Len(log') : log'[i].status = "Success" => i <= Len(log) /\ log'[i] = log[i]
      BY <1>1, <3>2 DEF Fragment
    <3>4. \A i \in 1 .. Len(log) : log[i].status = "Success" => i <= Len(log') /\ log'[i] = log[i]
      BY <1>1, <3>2
    <3>5. storeBar' = storeBar
      BY <1>1, <3>3, <3>4, SameContents DEF storeBar
    <3>6. \A i \in 1 .. Len(log') :
            \/ log'[i].status = "Success"
            \/ i = Len(log') /\ log'[i].status = "Truncated"
      BY <1>1, <3>1, <3>2 DEF Fragment
    <3>7. FileSize' # cachedUpTo'
      BY <1>1, <2>1, <2>2, <3>2 DEF FileSize, HeaderSize
    <3>8. Halted'
      BY <2>1, <2>2, <3>6, <3>7 DEF Halted
    <3> QED
      BY <2>1, <3>5, <3>8 DEF Committed, Constructing, Rebuilding
  <2> QED
    BY <1>3, <2>3, <2>4 DEF FailAppend
<1>4. CASE FailIndexWrite
  <2>1. pc \in Committed /\ pc' = "idle" /\ resp' = "throw" /\ UNCHANGED <<disk, cachedUpTo>>
    BY <1>4 DEF FailIndexWrite, Return, handle, Committed
  <2>2. dbFile = "ok" /\ idxFile = "ok" /\ ~indexClean /\ ~TornTail
    BY <2>1 DEF FilesMatchProgress, DirtyWhileWriting, OnlyTheTailIsTorn, Writing, Committed
  <2>3. Halted'
    BY <2>1, <2>2 DEF Halted, FileSize, TornTail, disk
  <2> QED
    BY <1>2, <2>1, <2>3 DEF Committed, Constructing, Rebuilding, disk
<1>5. CASE FailRebuild \/ FailReload \/ FailConstructor
  <2>1. /\ pc' = "none" /\ caller' = "none" /\ UNCHANGED <<dbFile, log>>
        /\ UNCHANGED <<idxFile, idx, indexedUpTo, indexClean>> \/ ~indexClean'
    BY <1>5 DEF FailRebuild, FailReload, FailConstructor, Throw, Gone, LocalsGone, disk
  <2> QED
    BY <1>2, <2>1, FilesOnly DEF Committed
<1>6. CASE FailClose
  <2>1. pc = "close_mark" /\ pc' \in {"none", "idle"} /\ caller' = "none" /\ UNCHANGED disk
        /\ (pc' = "idle" => cachedUpTo' = cachedUpTo)
    BY <1>6 DEF FailClose, Return, Gone, LocalsGone, handle
  <2>2. CASE pc' = "none"
    BY <1>2, <2>1, <2>2, FilesOnly DEF disk, Committed
  <2>3. CASE pc' = "idle"
    <3>1. (FilesMatchProgress /\ DirtyWhileWriting)'
      BY <2>1, <2>3 DEF FilesMatchProgress, DirtyWhileWriting, Writing, disk
    <3>2. (OnlyTheTailIsTorn /\ CleanIndexRepresentsLog)'
      BY <2>1, <2>3 DEF OnlyTheTailIsTorn, TornTail, CleanIndexRepresentsLog,
         index_metadata_clean, FileSize, disk
    <3>3. (IndexInStep /\ CheckpointInStep)'
      BY <2>1, <2>3 DEF IndexInStep, CheckpointInStep, InCall, FileSize, disk
    <3>4. IInv'
      BY <3>1, <3>2, <3>3
    <3> QED
      BY <1>2, <2>1, <2>3, <3>4 DEF disk, Committed, Constructing, Rebuilding
  <2> QED
    BY <2>1, <2>2, <2>3
<1> QED
  BY <1>3, <1>4, <1>5, <1>6 DEF IOFail

(* One call in each process is why failures are harmless: what a half-done *)
(* call leaves is never written to again before it is recovered.           *)
LEMMA HealthStep ==
    ASSUME TypeOK, TypeOK', StageInv, HealthInv, [CliNext]_cliVars
    PROVE  HealthInv'
<1>1. CASE Halted /\ ~IInv
  <2>1. /\ stage \in {"call", "leave"} /\ pc = "idle" /\ FileSize # cachedUpTo
        /\ command \in Commands
    BY <1>1 DEF HealthInv, Halted, StageInv, Stages
  <2>2. ~DatabaseStep
    BY <2>1, AtRest DEF DatabaseStep
  <2>3. CASE UNCHANGED vars /\ stage' \in {"call", "leave"}
    BY <1>1, <2>1, <2>3 DEF HealthInv, Halted, vars, disk, handle, FileSize, Committed
  <2>4. CASE Leave \/ ProcessKilled
    <3>1. pc' = "none" /\ caller' = "none" /\ UNCHANGED disk
      BY <2>1, <2>4 DEF Leave, CloseStart, DestroyUnclean, ProcessKilled, Crash, Kill, KillInAppend,
         Gone, LocalsGone
    <3> QED
      BY <1>1, <3>1, FilesOnly DEF disk, HealthInv, Committed
  <2> QED
    BY <2>1, <2>2, <2>3, <2>4 DEF CliNext, Main, Launch, OpenThrew, run_put, run_delete, run_get,
       Returned, Exit, cliVars, cli
<1>2. CASE IInv /\ DatabaseStep /\ IOFail
  <2>1. stage' = stage /\ (stage = "open" => pc \in Constructing \cup Rebuilding) /\ stage # "shell"
    BY <1>2, AtRest DEF DatabaseStep, cli, StageInv
  <2> QED
    BY <1>2, <2>1, FailStep DEF HealthInv, StageInv
<1>3. CASE IInv /\ [Faultless]_vars
  <2>1. IInv'
    BY <1>3, CliIsDatabase, InvStep
  <2>2. ASSUME pc' \in Committed PROVE FileSize' # cachedUpTo'
    <3>1. CASE PutAppend \/ EraseAppend
      <4>1. /\ log \in Seq(Items) /\ Complete(rec) \in Items
            /\ log' \in Appended(Complete(rec)) /\ cachedUpTo' = cachedUpTo
        BY <3>1, CompleteIsItem DEF PutAppend, EraseAppend, handle, TypeOK, DataOK
      <4>2. Len(log') = Len(log) + 1 /\ Len(log) \in Nat
        BY <4>1, AppendedFacts
      <4>3. cachedUpTo = FileSize
        BY <1>3, <3>1 DEF PutAppend, EraseAppend, IInv, CheckpointInStep
      <4> QED
        BY <4>1, <4>2, <4>3 DEF FileSize, HeaderSize
    <3>2. CASE PutIndex \/ EraseZero \/ EraseUnlink \/ UNCHANGED vars
      <4>1. pc \in Committed /\ UNCHANGED <<log, cachedUpTo>>
        BY <2>2, <3>2 DEF PutIndex, EraseZero, EraseUnlink, vars, disk, handle, Committed
      <4> QED
        BY <4>1 DEF HealthInv, FileSize
    <3>3. CASE Open \/ Call \/ Crash \/ Environment
      BY <2>2, <3>3 DEF Open, OpenNew, OpenExisting, Call, PutStart, PutRejected, EraseMissing,
         EraseStart, rebuild_index, recover_records, StartRebuild, CloseStart, CloseRefused,
         DestroyUnclean, Gone, Crash, Kill, KillInAppend, Environment, RemoveIndexFile,
         DamageIndexFile, RemoveDbFile, locals, Committed
    <3>4. CASE Step /\ ~(PutAppend \/ EraseAppend \/ PutIndex \/ EraseZero \/ EraseUnlink)
      BY <2>2, <3>4 DEF Step, NewIndexCreate, NewIndexSetup, NewIndexLoad,
         NewIndexInvalid, NewIndexNotEmpty, NewDbCreate, NewDbSetup, NewCheckpoint,
         LoadInvalidDb, LoadMissingIndex, LoadInvalidIndex, LoadCleanIndex, LoadUncleanIndex,
         MarkDirty, RecoverWhole, RecoverTruncate, RecoverCorrupt, Replay, ReplayCorrupt,
         Install, RebuildCheckpointInCall, RebuildCheckpointInConstructor, PutCheckpoint,
         EraseCheckpoint, CloseMark, StartRebuild, Return, Gone, Throw, Committed
    <3> QED
      BY <1>3, <3>1, <3>2, <3>3, <3>4 DEF Faultless
  <2> QED
    BY <2>1, <2>2 DEF HealthInv
<1> QED
  BY <1>1, <1>2, <1>3, CliIsDatabase DEF HealthInv

-----------------------------------------------------------------------------
(* The reports.                                                            *)

(* Only the append of put() and erase() changes what the database holds. *)
LEMMA CliContents ==
    ASSUME TypeOK, TypeOK', StageInv, HealthInv, HealthInv', [CliNext]_cliVars
    PROVE  storeBar' = storeBar \/ (DatabaseStep /\ (PutAppend \/ EraseAppend))
<1>1. ASSUME UNCHANGED log PROVE storeBar' = storeBar
  BY <1>1 DEF storeBar
<1>2. CASE DatabaseStep /\ IOFail
  <2>1. IInv
    BY <1>2, AtRest DEF HealthInv, Halted
  <2> QED
    BY <1>2, <2>1, FailStep DEF HealthInv, StageInv
<1>3. CASE DatabaseStep /\ Step
  <2>1. IInv
    BY <1>3, AtRest DEF HealthInv, Halted
  <2>2. IInv'
    BY <1>3, <2>1, CliIsDatabase, InvStep DEF Faultless
  <2>3. CASE NewDbCreate \/ RecoverTruncate
    BY <2>1, <2>2, <2>3, ContentsKept
  <2>4. CASE PutAppend \/ EraseAppend
    BY <1>3, <2>4
  <2>5. CASE ~(NewDbCreate \/ RecoverTruncate \/ PutAppend \/ EraseAppend)
    <3>1. UNCHANGED log
      BY <1>3, <2>5 DEF Step, NewIndexCreate, NewIndexSetup, NewIndexLoad,
         NewIndexInvalid, NewIndexNotEmpty, NewDbSetup, NewCheckpoint,
         LoadInvalidDb, LoadMissingIndex, LoadInvalidIndex, LoadCleanIndex, LoadUncleanIndex,
         MarkDirty, RecoverWhole, RecoverCorrupt, Replay, ReplayCorrupt,
         Install, RebuildCheckpointInCall, RebuildCheckpointInConstructor, PutIndex, PutCheckpoint,
         EraseZero, EraseUnlink, EraseCheckpoint, CloseMark, disk
    <3> QED
      BY <1>1, <3>1
  <2> QED
    BY <2>3, <2>4, <2>5
<1>4. CASE ProcessKilled
  <2>1. CASE Kill
    BY <1>1, <2>1 DEF Kill, disk
  <2>2. CASE KillInAppend
    <3>1. IInv
      BY <2>2 DEF HealthInv, Halted, KillInAppend
    <3>2. IInv'
      BY <1>4, <3>1 DEF HealthInv, ProcessKilled
    <3> QED
      BY <2>2, <3>1, <3>2, ContentsKept
  <2> QED
    BY <1>4, <2>1, <2>2 DEF ProcessKilled, Crash
<1>5. CASE \E c \in Commands : Launch(c)
  BY <1>1, <1>5 DEF Launch, Open, OpenNew, OpenExisting, disk
<1>6. CASE Main \/ UNCHANGED cliVars
  BY <1>1, <1>6 DEF Main, OpenThrew, run_put, run_delete, run_get, Returned, Leave, Exit, PutStart,
     PutRejected, EraseStart, EraseMissing, CloseStart, DestroyUnclean, cliVars, vars, disk
<1> QED
  BY <1>2, <1>3, <1>4, <1>5, <1>6 DEF CliNext, DatabaseStep

(* The start of a call, with nothing else known than what the reports      *)
(* allow.                                                                  *)
LEMMA CallStarts ==
    ASSUME TypeOK, StageInv, HealthInv, MayInv, run_put \/ run_delete, storeBar' = storeBar, may' = may
    PROVE  MayInv'
<1> DEFINE K == command.key
<1>1. /\ stage = "open" /\ stage' = "call" /\ command' = command /\ command \in Commands
      /\ IInv /\ pc = "idle"
  BY DEF run_put, run_delete, PutStart, PutRejected, EraseStart, EraseMissing, StageInv, HealthInv
<1>2. K \in Keys /\ storeBar[K] \in may[K] /\ \A k \in Keys : storeBar[k] \in may[k]
  BY <1>1 DEF Commands, MayInv
<1>3. Undecided(command)' = Undecided(command) /\ Refused' = Refused /\ Wanted' = Wanted
      /\ WasThere' = WasThere
  BY <1>1 DEF Undecided, Refused, Wanted, WasThere
<1>4. storeBar[K] \in Undecided(command)
  BY <1>2 DEF Undecided
<1>5. CASE run_put
  <2>1. command.op = "put"
    BY <1>5 DEF run_put
  <2>2. CASE PutStart(K, command.value)
    <3>1. /\ pc' = "put_append" /\ rec'.key = K /\ rec'.value = command.value
          /\ ~Refused
      BY <2>2 DEF PutStart, Refused
    <3> QED
      BY <1>1, <1>2, <1>3, <1>4, <2>1, <3>1 DEF MayInv, Writing, Committed
  <2>3. CASE PutRejected(K, command.value)
    <3>1. pc' = "idle" /\ resp' = "throw"
      BY <1>1, <2>3 DEF PutRejected
    <3> QED
      BY <1>1, <1>2, <1>3, <1>4, <3>1 DEF MayInv, Writing, Committed
  <2> QED
    BY <1>5, <2>2, <2>3 DEF run_put
<1>6. CASE run_delete
  <2>1. command.op = "del"
    BY <1>6 DEF run_delete
  <2>2. idx[K] = NoEntry <=> storeBar[K] = Absent
    <3>1. log \in Seq(Items) /\ idx \in Maps /\ AllComplete(log) /\ Represents(idx, log, Len(log))
      BY <1>1 DEF IInv, TypeOK, DataOK, OnlyTheTailIsTorn, TornTail, AllComplete, IndexInStep
    <3> QED
      BY <1>2, <3>1, ExactIndexAnswers
  <2>3. CASE EraseStart(K)
    <3>1. pc' = "erase_append" /\ rec'.key = K /\ WasThere
      BY <1>2, <2>2, <2>3 DEF EraseStart, WasThere
    <3> QED
      BY <1>1, <1>2, <1>3, <1>4, <2>1, <3>1 DEF MayInv, Writing, Committed
  <2>4. CASE EraseMissing(K)
    <3>1. pc' = "idle" /\ resp' = "absent" /\ storeBar[K] = Absent
      BY <1>1, <2>2, <2>4 DEF EraseMissing
    <3> QED
      BY <1>1, <1>2, <1>3, <1>4, <2>1, <3>1 DEF MayInv, Writing, Committed
  <2> QED
    BY <1>6, <2>3, <2>4 DEF run_delete
<1> QED
  BY <1>5, <1>6

(* A report, or a kill, replaces what was known about the key of the call. *)
LEMMA ReportIsTrue ==
    ASSUME TypeOK, StageInv, MayInv, stage = "call", NEW status,
           pc = "idle", status = "0" <=> resp = "ok"
    PROVE  storeBar[command.key] \in Reported(command, status)
<1>1. command \in Commands /\ command.op \in {"put", "get", "del"}
  BY DEF StageInv, Commands
<1>2. CASE resp = "ok" /\ command.op = "put"
  BY <1>2 DEF MayInv, Reported, Wanted
<1>3. CASE resp = "ok" /\ command.op = "del"
  <2>1. storeBar[command.key] = Absent /\ may[command.key] # {Absent}
    BY <1>3 DEF MayInv, Wanted, WasThere
  <2> QED
    BY <1>3, <2>1 DEF Reported
<1>4. CASE resp = "ok" /\ command.op = "get"
  BY <1>4 DEF MayInv, Reported
<1>5. CASE resp = "absent"
  BY <1>5 DEF MayInv, Reported
<1>6. CASE resp \notin {"ok", "absent"}
  BY <1>6 DEF MayInv, Reported
<1> QED
  BY <1>1, <1>2, <1>3, <1>4, <1>5, <1>6

(* The sets a report leaves contain only contents. *)
LEMMA ReportTypes ==
    ASSUME StageInv, MayInv, stage # "shell", NEW status
    PROVE  /\ command.key \in Keys
           /\ Undecided(command) \subseteq Values \cup {Absent}
           /\ Reported(command, status) \subseteq Values \cup {Absent}
<1>1. command \in Commands
  BY DEF StageInv
<1>2. command.key \in Keys /\ (command.op = "put" => command.value \in Values)
  BY <1>1 DEF Commands
<1>3. may[command.key] \subseteq Values \cup {Absent}
  BY <1>2 DEF MayInv
<1>4. Undecided(command) \subseteq Values \cup {Absent}
  BY <1>2, <1>3 DEF Undecided
<1> QED
  BY <1>2, <1>3, <1>4 DEF Reported

(* The steps of put() and erase() themselves. *)
LEMMA CallProceeds ==
    ASSUME TypeOK, TypeOK', StageInv, HealthInv, MayInv, DatabaseStep, stage = "call", may' = may,
           storeBar' = storeBar \/ PutAppend \/ EraseAppend
    PROVE  MayInv'
<1> DEFINE K == command.key
<1>1. UNCHANGED <<command, stage>> /\ pc \in Writing /\ (Step \/ IOFail)
  BY AtRest DEF DatabaseStep, cli, StageInv
<1>2. K \in Keys
  BY ReportTypes
<1>3. /\ Undecided(command)' = Undecided(command) /\ Refused' = Refused /\ Wanted' = Wanted
      /\ WasThere' = WasThere
  BY <1>1 DEF Undecided, Refused, Wanted, WasThere
<1>4. ~Refused => Wanted \in Undecided(command)
  BY DEF Wanted, Undecided
<1>5. CASE PutAppend \/ EraseAppend
  <2>1. /\ pc \in {"put_append", "erase_append"} /\ pc' \in Committed /\ rec.key = K
        /\ pc = "put_append" <=> pc' = "put_index"
        /\ pc = "erase_append" <=> pc' = "erase_zero"
    BY <1>5 DEF PutAppend, EraseAppend, Committed, MayInv
  <2>2. /\ pc = "put_append" => command.op = "put" /\ ~Refused /\ rec.value = Wanted
        /\ pc = "erase_append" => command.op = "del" /\ ~Refused /\ WasThere /\ Wanted = Absent
    BY <2>1 DEF MayInv, Writing, Wanted, Refused
  <2>3. IInv /\ IInv'
    <3>1. IInv
      BY <2>1 DEF HealthInv, Halted
    <3>2. [Faultless]_vars /\ ~rebuild_index
      BY <1>5, <2>1 DEF Faultless, Step, rebuild_index
    <3> QED
      BY <3>1, <3>2, InvStep
  <2>4. storeBar' = [storeBar EXCEPT ![K] = Wanted]
    BY <1>5, <2>1, <2>2, <2>3, AppendCommits DEF IInv, IndexInStep
  <2>5. DOMAIN storeBar = Keys
    BY DEF storeBar, Contents
  <2> QED
    BY <1>1, <1>2, <1>3, <1>4, <2>1, <2>2, <2>4, <2>5 DEF MayInv, Writing, Committed
<1>6. CASE PutIndex \/ PutCheckpoint \/ EraseZero \/ EraseUnlink \/ EraseCheckpoint
  <2>1. /\ pc \in Committed /\ storeBar' = storeBar
        /\ pc' \in Committed \/ (pc' = "idle" /\ resp' = "ok")
        /\ pc \in {"put_index", "put_checkpoint"} /\ pc' \in Committed => pc' = "put_checkpoint"
        /\ pc \notin {"put_index", "put_checkpoint"} /\ pc' \in Committed =>
              pc' \in {"erase_unlink", "erase_checkpoint"}
    BY <1>6 DEF PutIndex, PutCheckpoint, EraseZero, EraseUnlink, EraseCheckpoint, Return, Committed,
       PutAppend, EraseAppend
  <2>2. IF pc \in {"put_index", "put_checkpoint"} THEN command.op = "put" /\ ~Refused
                                                ELSE command.op = "del" /\ WasThere
    BY <2>1 DEF MayInv, Writing, Committed
  <2> QED
    BY <1>1, <1>2, <1>3, <2>1, <2>2 DEF MayInv, Writing, Committed
<1>7. CASE IOFail
  <2>1. pc' = "idle" /\ resp' = "throw"
    BY <1>1, <1>7 DEF IOFail, FailAppend, FailIndexWrite, FailRebuild, FailReload, FailConstructor,
       FailClose, Return, Writing
  <2>2. storeBar' = storeBar
    BY <2>1 DEF PutAppend, EraseAppend
  <2> QED
    BY <1>1, <1>2, <1>3, <2>1, <2>2 DEF MayInv, Writing, Committed
<1> QED
  BY <1>1, <1>5, <1>6, <1>7 DEF Writing, Step, NewIndexCreate, NewIndexSetup, NewIndexLoad,
     NewIndexInvalid, NewIndexNotEmpty, NewDbCreate, NewDbSetup, NewCheckpoint,
     LoadInvalidDb, LoadMissingIndex, LoadInvalidIndex, LoadCleanIndex, LoadUncleanIndex,
     MarkDirty, RecoverWhole, RecoverTruncate, RecoverCorrupt, Replay, ReplayCorrupt,
     Install, RebuildCheckpointInCall, RebuildCheckpointInConstructor, CloseMark

(* Every step keeps the contents among those that the reports allow. *)
LEMMA MayStep ==
    ASSUME TypeOK, TypeOK', StageInv, HealthInv, HealthInv', MayInv, [ContractNext]_contractVars
    PROVE  MayInv'
<1> DEFINE K == command.key
<1>1. CASE UNCHANGED contractVars
  <2>1. UNCHANGED <<log, pc, rec, resp, command, stage, may>>
    BY <1>1 DEF contractVars, cliVars, cli, vars, disk, locals
  <2>2. UNCHANGED storeBar /\ Undecided(command)' = Undecided(command)
        /\ UNCHANGED <<Refused, Wanted, WasThere>>
    BY <2>1 DEF storeBar, Undecided, Refused, Wanted, WasThere
  <2> QED
    BY <2>1, <2>2 DEF MayInv
<1>2. CASE ContractNext
  <2>1. CliNext /\ Remember
    BY <1>2 DEF ContractNext
  <2>2. storeBar' = storeBar \/ (DatabaseStep /\ (PutAppend \/ EraseAppend))
    BY <2>1, CliContents
  <2>3. stage # "call" /\ stage' # "call" /\ may' = may /\ storeBar' = storeBar => MayInv'
    BY DEF MayInv
  <2>4. CASE \E c \in Commands : Launch(c)
    BY <2>1, <2>2, <2>3, <2>4, AtRest DEF Launch, Remember, DatabaseStep
  <2>5. CASE OpenThrew \/ Exit \/ Leave
    <3>1. stage # "call" /\ stage' # "call" /\ may' = may
      BY <2>1, <2>5 DEF OpenThrew, Exit, Leave, Remember, cli
    <3>2. storeBar' = storeBar
      BY <2>5 DEF OpenThrew, Exit, Leave, CloseStart, DestroyUnclean, vars, disk, storeBar
    <3> QED
      BY <2>3, <3>1, <3>2
  <2>6. CASE run_put \/ run_delete
    <3>1. may' = may
      BY <2>1, <2>6 DEF run_put, run_delete, Remember
    <3>2. storeBar' = storeBar
      BY <2>6 DEF run_put, run_delete, PutStart, PutRejected, EraseStart, EraseMissing, disk, storeBar
    <3> QED
      BY <2>6, <3>1, <3>2, CallStarts
  <2>7. CASE run_get
    <3>1. /\ stage = "open" /\ stage' = "leave" /\ pc = "idle" /\ storeBar' = storeBar
          /\ may' = [may EXCEPT ![K] = @ \cap {get(K)}]
      BY <2>1, <2>7 DEF run_get, Remember, vars, disk, storeBar
    <3>2. K \in Keys
      BY <3>1, ReportTypes
    <3>3. get(K) = storeBar[K]
      BY <3>1, <3>2, IdleAnswers DEF HealthInv, AnswersAreContents
    <3> QED
      BY <3>1, <3>2, <3>3 DEF MayInv
  <2>8. CASE Returned
    <3>1. /\ stage = "call" /\ stage' = "leave" /\ pc = "idle" /\ storeBar' = storeBar
          /\ may' = [may EXCEPT ![K] = Reported(command, code')] /\ (code' = "0" <=> resp = "ok")
      BY <2>1, <2>8 DEF Returned, Remember, vars, disk, storeBar
    <3>2. K \in Keys /\ Reported(command, code') \subseteq Values \cup {Absent}
      BY <3>1, ReportTypes
    <3>3. storeBar[K] \in Reported(command, code')
      BY <3>1, ReportIsTrue
    <3> QED
      BY <3>1, <3>2, <3>3 DEF MayInv
  <2>9. CASE ProcessKilled
    <3>1. stage' = "shell" /\ storeBar' = storeBar
      BY <2>2, <2>9 DEF ProcessKilled, DatabaseStep, cli
    <3>2. CASE stage = "call"
      <4>1. may' = [may EXCEPT ![K] = Undecided(command)]
        BY <2>1, <3>1, <3>2 DEF Remember
      <4>2. K \in Keys /\ Undecided(command) \subseteq Values \cup {Absent}
        BY <3>2, ReportTypes
      <4> QED
        BY <3>1, <3>2, <4>1, <4>2 DEF MayInv
    <3>3. CASE stage # "call"
      <4>1. may' = may
        BY <2>1, <3>1, <3>3 DEF Remember
      <4> QED
        BY <2>3, <3>1, <3>3, <4>1
    <3> QED
      BY <3>2, <3>3
  <2>10. CASE DatabaseStep
    <3>1. stage' = stage /\ may' = may
      BY <2>1, <2>10 DEF DatabaseStep, cli, Remember
    <3>2. CASE stage = "call"
      BY <2>2, <2>10, <3>1, <3>2, CallProceeds
    <3>3. CASE stage # "call"
      <4>1. pc \notin {"put_append", "erase_append"}
        BY <2>10, <3>3 DEF DatabaseStep, StageInv, Stages, Constructing, Rebuilding
      <4>2. storeBar' = storeBar
        BY <2>2, <4>1 DEF PutAppend, EraseAppend
      <4> QED
        BY <2>3, <3>1, <3>3, <4>2
    <3> QED
      BY <3>2, <3>3
  <2> QED
    BY <2>1, <2>4, <2>5, <2>6, <2>7, <2>8, <2>9, <2>10 DEF CliNext, Main
<1> QED
  BY <1>1, <1>2

(* No report of zidane ever contradicts an earlier one: what is stored is  *)
(* always among the contents that the messages and exit statuses allow.    *)
THEOREM ReportsNeverDisagree == ContractSpec => []ReportsAgree
<1>1. ContractInit => ContractInv
  <2> SUFFICES ASSUME ContractInit PROVE ContractInv
    OBVIOUS
  <2>1. Init /\ command = NoCommand /\ stage = "shell" /\ may = [k \in Keys |-> {Absent}]
    BY DEF ContractInit, CliInit
  <2>2. TypeOK /\ IInv
    BY <2>1, InvInit DEF IInv
  <2>3. StageInv /\ HealthInv
    BY <2>1, <2>2 DEF Init, StageInv, HealthInv, Stages, Committed
  <2>4. \A k \in Keys : storeBar[k] = Absent
    <3>1. log \in Seq(Items) /\ Len(log) = 0
      BY <2>1 DEF Init
    <3>2. \A k \in Keys : LatestComplete(log, k) = {}
      BY <3>1 DEF LatestComplete
    <3> QED
      BY <3>1, <3>2, ContentsOfKey DEF storeBar
  <2> QED
    BY <2>1, <2>2, <2>3, <2>4 DEF ContractInv, MayInv
<1>2. ContractInv /\ [ContractNext]_contractVars => ContractInv'
  <2> SUFFICES ASSUME ContractInv, [ContractNext]_contractVars PROVE ContractInv'
    OBVIOUS
  <2>1. [CliNext]_cliVars
    BY DEF ContractNext, contractVars
  <2>2. TypeOK'
    BY <2>1, CliIsDatabase, FlagsStep, DataStep DEF ContractInv, TypeOK
  <2>3. StageInv' /\ HealthInv'
    BY <2>1, <2>2, StageStep, HealthStep DEF ContractInv
  <2> QED
    BY <2>2, <2>3, MayStep DEF ContractInv
<1>3. ContractInv => ReportsAgree
  <2> SUFFICES ASSUME ContractInv, NEW k \in Keys PROVE may[k] # {}
    BY DEF ReportsAgree
  <2> QED
    BY DEF ContractInv, MayInv
<1> QED
  BY <1>1, <1>2, <1>3, PTL DEF ContractSpec
=============================================================================
