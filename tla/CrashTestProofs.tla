-------------------------- MODULE CrashTestProofs --------------------------
(***************************************************************************)
(* Proofs about matrix crash-test: worker and parent never use the         *)
(* database together, the worker cannot miss its failpoint, and what       *)
(* recovery makes of a worker killed there is what the test expects.       *)
(***************************************************************************)
EXTENDS CrashTest, DatabaseProofs, SequenceTheorems

-----------------------------------------------------------------------------
(* What a test that nothing from outside disturbs goes through.            *)

Replaces == failpoint = "after_modify_existing_entry"
Cleanly == failpoint = "clean_db_close"

TeamPut == [key |-> "team", value |-> "madrid"]
PlayerPut == [key |-> "player", value |-> "benzema"]

(* The puts still to come are a suffix of InitialPuts, ... *)
ScriptOK ==
    /\ script \in Seq({TeamPut, PlayerPut})
    /\ Len(script) <= 2
    /\ Len(script) = 2 => Replaces /\ script[1] = TeamPut /\ script[2] = PlayerPut
    /\ Len(script) = 1 => script[1] = IF Replaces THEN PlayerPut ELSE TeamPut

(* ... and the others are stored, or the last of them is about to be. *)
TeamDue == Len(script) = 2 \/ (Len(script) = 1 /\ ~Replaces) \/ (pc = "put_append" /\ rec.key = "team")
PlayerDue == ~Replaces \/ Len(script) > 0 \/ (pc = "put_append" /\ rec.key = "player")
Preparing ==
    /\ FirstSession /\ ScriptOK
    /\ pc \in Constructing => Len(script) > 0
    /\ pc = "put_append" => [key |-> rec.key, value |-> rec.value] \in {TeamPut, PlayerPut}
    /\ pc = "put_append" /\ rec.key = "player" => Replaces /\ Len(script) = 0
    /\ ~TeamDue => storeBar["team"] = "madrid"
    /\ storeBar["player"] = IF PlayerDue THEN Absent ELSE "benzema"

(* What the worker finds, and what it leaves. *)
Sound == IInv /\ Whole /\ resp # "throw" /\ storeBar["team"] = "madrid"
Before == storeBar["player"] = IF Replaces THEN "benzema" ELSE Absent
After == storeBar["player"] = "bellingham"

(* A running worker has its failpoint still ahead, wherever it is. *)
AtOpen == stage = "open" /\ pc \in Reopening /\ Before
AtAppend ==
    /\ stage = "call" /\ pc = "put_append" /\ Before
    /\ failpoint # "before_db_append"
    /\ rec.key = "player" /\ rec.value = "bellingham"
AtIndex ==
    /\ stage = "call" /\ pc = "put_index" /\ After
    /\ failpoint \notin {"before_db_append", "after_db_append"}
    /\ rec.key = "player" /\ (idx["player"] = NoEntry <=> ~Replaces)
AtCheckpoint ==
    /\ stage = "call" /\ pc = "put_checkpoint" /\ After
    /\ failpoint \in {"after_update_indexed_up_to_offset", "before_set_index_clean",
                      "clean_db_close"}
AtReturn ==
    /\ stage \in {"call", "leave"} /\ pc = "idle" /\ After
    /\ failpoint \in {"before_set_index_clean", "clean_db_close"}
AtClose == stage = "leave" /\ pc = "close_mark" /\ After /\ Cleanly
Working ==
    /\ command = Worker
    /\ AtOpen \/ AtAppend \/ AtIndex \/ AtCheckpoint \/ AtReturn \/ AtClose

(* At its failpoint: the index is dirty unless the close was complete. *)
Fields ==
    /\ storeBar["player"] = ExpectedPlayer
    /\ IF Cleanly THEN indexClean /\ indexedUpTo = FileSize ELSE ~indexClean
Stopped ==
    /\ Sound /\ Fields
    /\ pc \in {"none", "idle", "close_mark", "put_append", "put_index", "put_checkpoint"}
    /\ pc = "none" => report = NoReport
Caught == Sound /\ Fields /\ pc = "none" /\ report = NoReport

(* The open of the parent that follows. *)
Recovering ==
    /\ Sound /\ storeBar["player"] = ExpectedPlayer
    /\ pc \in Reopening
    /\ pc = "ctor_load" => Fields /\ report = NoReport
    /\ pc \in {"recover", "replay", "rebuild_checkpoint"} => ~Cleanly /\ caller = "unclean_index"
    /\ pc \in {"replay", "rebuild_checkpoint"} => truncated = 0
    /\ pc \in {"ctor_mark_dirty", "idle"} => report = ExpectedReport

(* The parent's bookkeeping. *)
BookInv ==
    /\ failpoint \in Failpoints
    /\ SoleUser
    /\ child \in {"none", "reaped", "forked", "running", "SIGSTOP", "SIGTSTP", "exited", "killed"}
    /\ killSent => tpc \in {"reap_stopped", "reap_failed", "reopen", "verify", "remove", "done"}
    /\ reached => tpc \in {"reopen", "verify", "remove", "done"}
    /\ tpc \in {"start", "init", "fork"} => child = "none"

UndisturbedInv ==
    /\ child \notin {"SIGTSTP", "exited"}
    /\ child = "killed" => killSent
    /\ tpc = "start" => pc = "none" /\ dbFile = "missing" /\ log = <<>> /\ idxFile = "missing" /\ TypeOK
    /\ tpc = "init" => IInv /\ resp # "throw" /\ Preparing
    /\ tpc = "fork" => Sound /\ Before /\ pc \in {"close_mark", "none"}
    /\ child = "forked" => Sound /\ Before /\ pc = "none"
    /\ child = "running" => Sound /\ Working
    /\ child = "SIGSTOP" => Stopped
    /\ tpc \in {"kill_stopped", "reap_stopped"} => child = "SIGSTOP" \/ (child = "killed" /\ Caught)
    /\ tpc = "reopen" => Caught
    /\ tpc = "verify" => Recovering
    /\ tpc \in {"remove", "done"} /\ reached => verdict = "0"

(* The invariant TLAPS proves inductive. *)
TestInv == BookInv /\ (disturbed \/ UndisturbedInv)

-----------------------------------------------------------------------------
(* Who uses the database.                                                  *)

(* The parent's bookkeeping, whatever happens from outside. *)
LEMMA BookStep == BookInv /\ [TestNext]_testVars => BookInv'
<1> SUFFICES ASSUME BookInv, [TestNext]_testVars PROVE BookInv'
  OBVIOUS
<1> USE DEF BookInv, SoleUser
<1>1. CASE MakeWorkspace \/ InitPut \/ InitDone \/ TestThrew \/ Fork \/ ForkFails
  BY <1>1 DEF MakeWorkspace, InitPut, InitDone, TestThrew, Fork, ForkFails, Fail
<1>2. CASE Exec \/ ExecFails \/ StopInside \/ WorkerStep \/ WorkerEnds \/ StoppedFromOutside
  BY <1>2 DEF Exec, ExecFails, StopInside, WorkerStep, WorkerEnds, StoppedFromOutside
<1>3. CASE KilledFromOutside \/ KilledByParent
  BY <1>3 DEF KilledFromOutside, KilledByParent, WorkerDies, Alive
<1>4. CASE \/ PollNothing \/ DeadlineAhead \/ DeadlinePassed \/ PollError \/ PollFailpoint
           \/ PollOtherStop \/ PollEnded
  BY <1>4 DEF PollNothing, DeadlineAhead, DeadlinePassed, PollError, PollFailpoint, PollOtherStop,
     PollEnded, Fail
<1>5. CASE \/ SendKill("kill_stopped", "reap_stopped") \/ SendKill("kill_late", "reap_failed")
           \/ SendKill("kill_left", "reap_failed") \/ ReapStopped \/ ReapAfterFailure
  BY <1>5 DEF SendKill, ReapStopped, ReapAfterFailure, Fail
<1>6. CASE Reopen \/ Verify \/ RemoveWorkspace
  BY <1>6 DEF Reopen, Verify, RemoveWorkspace
<1>7. CASE ParentDatabase \/ FileOperationFails \/ Finished \/ UNCHANGED testVars
  BY <1>7 DEF ParentDatabase, FileOperationFails, Finished, testVars, harness
<1> QED
  BY <1>1, <1>2, <1>3, <1>4, <1>5, <1>6, <1>7 DEF TestNext, Parent, WorkerActs, Outside

(* The parent opens the database, and removes it, only when no worker is   *)
(* left that could write to it.                                            *)
THEOREM ParentIsSoleUser == TestSpec => []SoleUser
<1>1. TestInit => BookInv
  BY DEF TestInit, BookInv, SoleUser
<1>2. BookInv => SoleUser
  BY DEF BookInv
<1> QED
  BY <1>1, <1>2, BookStep, PTL DEF TestSpec

-----------------------------------------------------------------------------
(* The initial session.                                                    *)

(* One put, or two when the worker is to replace an entry. *)
LEMMA InitialPutsFacts ==
    /\ InitialPuts \in Seq({TeamPut, PlayerPut})
    /\ Replaces => Len(InitialPuts) = 2 /\ InitialPuts[1] = TeamPut /\ InitialPuts[2] = PlayerPut
    /\ ~Replaces => Len(InitialPuts) = 1 /\ InitialPuts[1] = TeamPut
<1>1. Replaces => InitialPuts = <<TeamPut>> \o <<PlayerPut>>
  BY DEF InitialPuts, Replaces, TeamPut, PlayerPut
<1>2. ~Replaces => InitialPuts = <<TeamPut>> \o <<>>
  BY DEF InitialPuts, Replaces, TeamPut, PlayerPut
<1> DEFINE S == {TeamPut, PlayerPut}
           s1 == <<TeamPut>>
           s2 == <<PlayerPut>>
<1>3. /\ s1 \in Seq(S) /\ Len(s1) = 1 /\ s1[1] = TeamPut
      /\ s2 \in Seq(S) /\ Len(s2) = 1 /\ s2[1] = PlayerPut
  OBVIOUS
<1> HIDE DEF S, s1, s2
<1>4. /\ s1 \o s2 \in Seq(S) /\ Len(s1 \o s2) = 2
      /\ (s1 \o s2)[1] = TeamPut /\ (s1 \o s2)[2] = PlayerPut
  <2>1. \A i \in 1 .. Len(s1) + Len(s2) : (s1 \o s2)[i] = IF i <= Len(s1) THEN s1[i] ELSE s2[i - Len(s1)]
    BY <1>3, ConcatProperties
  <2>2. s1 \o s2 \in Seq(S) /\ Len(s1 \o s2) = Len(s1) + Len(s2)
    BY <1>3, ConcatProperties
  <2> QED
    BY <1>3, <2>1, <2>2
<1>5. s1 \o <<>> = s1
  BY <1>3, ConcatEmptySeq
<1> QED
  BY <1>1, <1>2, <1>3, <1>4, <1>5 DEF S, s1, s2

(* Keys and values of the test belong to the database. *)
LEMMA TestData ==
    /\ "team" \in Keys /\ "player" \in Keys /\ "team" \notin TooLargeKeys /\ "player" \notin TooLargeKeys
    /\ {"madrid", "benzema", "bellingham"} \subseteq Values
    /\ "bellingham" \notin TooLargeValues
    /\ DOMAIN storeBar = Keys
BY CrashTestAssumption DEF storeBar, Contents

(* The contents of an empty log. *)
LEMMA EmptyContents ==
    ASSUME log = <<>>, NEW k \in Keys
    PROVE  storeBar[k] = Absent
<1>1. log \in Seq(Items) /\ Len(log) = 0
  OBVIOUS
<1>2. LatestComplete(log, k) = {}
  BY <1>1 DEF LatestComplete
<1> QED
  BY <1>1, <1>2, ContentsOfKey DEF storeBar

(* An undisturbed test starts its initial session in an empty directory, ... *)
LEMMA Prepare ==
    ASSUME MakeWorkspace, TypeOK, pc = "none", dbFile = "missing", log = <<>>, idxFile = "missing"
    PROVE  IInv' /\ resp' # "throw" /\ Preparing'
<1>1. IInv
  BY ClearedFiles
<1>2. Open /\ failpoint' = failpoint /\ script' = InitialPuts
  BY DEF MakeWorkspace
<1>3. [Faultless]_vars /\ ~rebuild_index
  BY <1>2 DEF Faultless, Open, OpenNew, OpenExisting, rebuild_index, StartRebuild
<1>4. IInv'
  BY <1>1, <1>3, InvStep
<1>5. pc' = "ctor_index" /\ resp' = "none" /\ idxFile' = "missing" /\ log' = <<>>
  BY <1>2 DEF Open, OpenNew, OpenExisting, disk
<1>6. storeBar'["player"] = Absent
  <2>1. storeBar["player"] = Absent
    <3>1. "player" \in Keys
      BY TestData
    <3> QED
      BY <3>1, EmptyContents
  <2>2. storeBar' = storeBar
    BY <1>5 DEF storeBar
  <2> QED
    BY <2>1, <2>2
<1>7. Replaces' = Replaces
  BY <1>2 DEF Replaces
<1>8. ScriptOK' /\ Len(script') > 0 /\ TeamDue' /\ PlayerDue'
  <2>1. CASE Replaces
    <3>1. /\ script' \in Seq({TeamPut, PlayerPut})
          /\ Len(script') = 2 /\ script'[1] = TeamPut /\ script'[2] = PlayerPut
      BY <1>2, <2>1, InitialPutsFacts
    <3> QED
      BY <1>7, <2>1, <3>1 DEF ScriptOK, TeamDue, PlayerDue
  <2>2. CASE ~Replaces
    <3>1. script' \in Seq({TeamPut, PlayerPut}) /\ Len(script') = 1 /\ script'[1] = TeamPut
      BY <1>2, <2>2, InitialPutsFacts
    <3> QED
      BY <1>7, <2>2, <3>1 DEF ScriptOK, TeamDue, PlayerDue
  <2> QED
    BY <2>1, <2>2
<1> QED
  BY <1>4, <1>5, <1>6, <1>8 DEF Preparing, FirstSession

(* ... makes its puts ... *)
LEMMA PreparingPut ==
    ASSUME IInv, Preparing, InitPut
    PROVE  IInv' /\ resp' # "throw" /\ Preparing'
<1>1. /\ pc = "idle" /\ script # <<>> /\ script' = Tail(script) /\ failpoint' = failpoint
      /\ PutStart(Head(script).key, Head(script).value)
  BY DEF InitPut, PutStart
<1>2. script \in Seq({TeamPut, PlayerPut}) /\ Len(script) \in 1 .. 2 /\ Head(script) = script[1]
  <2>1. script \in Seq({TeamPut, PlayerPut})
    BY DEF Preparing, ScriptOK
  <2>2. Len(script) <= 2
    BY DEF Preparing, ScriptOK
  <2>3. Len(script) \in Nat /\ Len(script) # 0
    BY <1>1, <2>1, EmptySeq
  <2>4. Len(script) \in 1 .. 2
    <3> DEFINE n == Len(script)
    <3>1. n <= 2 /\ n \in Nat /\ n # 0
      BY <2>2, <2>3
    <3> HIDE DEF n
    <3>2. n \in 1 .. 2
      BY <3>1
    <3> QED
      BY <3>2 DEF n
  <2>5. Head(script) = script[1]
    BY <1>1, <2>1
  <2> QED
    BY <2>1, <2>4, <2>5
<1>3. script' \in Seq({TeamPut, PlayerPut}) /\ Len(script') = Len(script) - 1
      /\ (Len(script) = 2 => script'[1] = script[2])
  BY <1>1, <1>2
<1>4. Head(script).key \in Keys /\ Head(script).value \in Values
  BY <1>2, TestData DEF TeamPut, PlayerPut
<1>5. [Faultless]_vars /\ ~rebuild_index
  BY <1>1, <1>4 DEF Faultless, Call, PutStart, rebuild_index, StartRebuild
<1>6. IInv'
  BY <1>5, InvStep
<1>7. /\ pc' = "put_append" /\ resp' = "none" /\ log' = log
      /\ rec'.key = script[1].key /\ rec'.value = script[1].value
  BY <1>1, <1>2 DEF PutStart, disk
<1>8. storeBar' = storeBar
  BY <1>7 DEF storeBar
<1>9. Replaces' = Replaces
  BY <1>1 DEF Replaces
<1>10. CASE Len(script) = 2
  <2>1. Replaces /\ script[1] = TeamPut /\ script[2] = PlayerPut
    BY <1>10 DEF Preparing, ScriptOK
  <2>2. ScriptOK' /\ TeamDue' /\ PlayerDue' /\ PlayerDue
    BY <1>3, <1>7, <1>9, <1>10, <2>1 DEF ScriptOK, TeamDue, PlayerDue, TeamPut
  <2> QED
    BY <1>6, <1>7, <1>8, <2>1, <2>2 DEF Preparing, FirstSession, Constructing, TeamPut
<1>11. CASE Len(script) = 1 /\ Replaces
  <2>1. script[1] = PlayerPut
    BY <1>11 DEF Preparing, ScriptOK
  <2>2. ScriptOK' /\ Len(script') = 0
    BY <1>3, <1>9, <1>11 DEF ScriptOK
  <2>3. PlayerDue' /\ PlayerDue /\ ~TeamDue
    BY <1>1, <1>7, <1>11, <2>1 DEF PlayerDue, TeamDue, PlayerPut
  <2> QED
    BY <1>6, <1>7, <1>8, <1>9, <1>11, <2>1, <2>2, <2>3 DEF Preparing, FirstSession, Constructing, PlayerPut
<1>12. CASE Len(script) = 1 /\ ~Replaces
  <2>1. script[1] = TeamPut
    BY <1>12 DEF Preparing, ScriptOK
  <2>2. ScriptOK' /\ TeamDue' /\ PlayerDue' /\ PlayerDue
    BY <1>3, <1>7, <1>9, <1>12, <2>1 DEF ScriptOK, TeamDue, PlayerDue, TeamPut
  <2> QED
    BY <1>6, <1>7, <1>8, <2>1, <2>2 DEF Preparing, FirstSession, Constructing, TeamPut
<1> QED
  BY <1>2, <1>10, <1>11, <1>12

(* ... each of which is stored ... *)
LEMMA PreparingStep ==
    ASSUME IInv, resp # "throw", Preparing, Step, UNCHANGED <<failpoint, script>>
    PROVE  IInv' /\ resp' # "throw" /\ Preparing'
<1>1. [Faultless]_vars /\ ~rebuild_index
  BY AtRest DEF Faultless, rebuild_index
<1>2. IInv'
  BY <1>1, InvStep
<1>3. /\ FirstSession' /\ resp' # "throw" /\ pc' # "put_append"
      /\ pc' \in Constructing => pc \in Constructing
      /\ IF pc = "put_append" THEN storeBar' = [storeBar EXCEPT ![rec.key] = rec.value]
                             ELSE storeBar' = storeBar
  BY <1>2, FirstSessionStep DEF Preparing
<1>4. Replaces' = Replaces /\ ScriptOK'
  BY DEF Replaces, ScriptOK, Preparing
<1>5. CASE pc # "put_append"
  <2>1. TeamDue' = TeamDue /\ PlayerDue' = PlayerDue
    BY <1>3, <1>4, <1>5 DEF TeamDue, PlayerDue
  <2> QED
    BY <1>2, <1>3, <1>4, <1>5, <2>1 DEF Preparing
<1>6. CASE pc = "put_append" /\ rec.key = "team"
  <2>1. rec.value = "madrid"
    BY <1>6 DEF Preparing, TeamPut, PlayerPut
  <2>2. storeBar'["team"] = "madrid" /\ storeBar'["player"] = storeBar["player"]
    BY <1>3, <1>6, <2>1, TestData
  <2>3. PlayerDue' = PlayerDue
    BY <1>3, <1>4, <1>6 DEF PlayerDue
  <2> QED
    BY <1>2, <1>3, <1>4, <2>2, <2>3 DEF Preparing, Constructing
<1>7. CASE pc = "put_append" /\ rec.key = "player"
  <2>1. rec.value = "benzema" /\ Replaces /\ Len(script) = 0
    BY <1>7 DEF Preparing, TeamPut, PlayerPut
  <2>2. storeBar'["player"] = "benzema" /\ storeBar'["team"] = storeBar["team"]
    BY <1>3, <1>7, <2>1, TestData
  <2>3. ~PlayerDue' /\ ~TeamDue
    BY <1>3, <1>4, <1>7, <2>1 DEF PlayerDue, TeamDue
  <2> QED
    BY <1>2, <1>3, <1>4, <1>7, <2>2, <2>3 DEF Preparing, Constructing
<1> QED
  BY <1>5, <1>6, <1>7 DEF Preparing, TeamPut, PlayerPut

(* ... and closes the database, which is then what the worker needs. *)
LEMMA Prepared ==
    ASSUME IInv, Preparing, InitDone
    PROVE  Sound' /\ Before' /\ pc' = "close_mark"
<1>1. pc = "idle" /\ script = <<>> /\ failpoint' = failpoint
  BY DEF InitDone, CloseStart, DestroyUnclean
<1>2. dbFile = "ok" /\ idxFile = "ok" /\ FileSize = cachedUpTo /\ ~TornTail
  BY <1>1 DEF IInv, FilesMatchProgress, CheckpointInStep, OnlyTheTailIsTorn
<1>3. CloseStart("dtor")
  BY <1>2 DEF InitDone, DestroyUnclean
<1>4. [Faultless]_vars /\ ~rebuild_index
  BY <1>3 DEF Faultless, Call, CloseStart, rebuild_index, StartRebuild
<1>5. IInv'
  BY <1>4, InvStep
<1>6. pc' = "close_mark" /\ resp' = "none" /\ UNCHANGED <<log, dbFile, idxFile>>
  BY <1>3 DEF CloseStart, disk
<1>7. storeBar' = storeBar /\ Replaces' = Replaces
  BY <1>1, <1>6 DEF storeBar, Replaces
<1>8. ~TeamDue /\ (PlayerDue <=> ~Replaces)
  BY <1>1 DEF TeamDue, PlayerDue
<1> QED
  BY <1>2, <1>5, <1>6, <1>7, <1>8 DEF Preparing, Sound, Whole, TornTail, Before

-----------------------------------------------------------------------------
(* The worker.                                                             *)

(* It opens the prepared database, ... *)
LEMMA WorkerOpens ==
    ASSUME Sound, Before, pc = "none", Exec
    PROVE  Sound' /\ Working' /\ child' = "running"
<1>1. Open /\ command' = Worker /\ stage' = "open" /\ child' = "running" /\ failpoint' = failpoint
  BY DEF Exec, Launch
<1>2. IInv'
  <2>1. [Faultless]_vars /\ ~rebuild_index
    BY <1>1 DEF Faultless, Open, OpenNew, OpenExisting, rebuild_index, StartRebuild
  <2> QED
    BY <2>1, InvStep DEF Sound
<1>3. pc' = "ctor_load" /\ resp' = "none" /\ UNCHANGED <<log, dbFile, idxFile>>
  BY <1>1 DEF Open, OpenNew, OpenExisting, disk, Sound, Whole
<1>4. storeBar' = storeBar
  BY <1>3 DEF storeBar
<1>5. Sound' /\ Before'
  BY <1>1, <1>2, <1>3, <1>4 DEF Sound, Whole, TornTail, Before, Replaces
<1> QED
  BY <1>1, <1>3, <1>5 DEF Working, AtOpen, Reopening

(* ... starts its put, ... *)
LEMMA WorkerPuts ==
    ASSUME BookInv, Sound, Working, WorkerStep, stage = "open", pc = "idle"
    PROVE  Sound' /\ ((child' = "running" /\ Working') \/ (child' = "SIGSTOP" /\ Stopped'))
<1>1. run_put /\ failpoint' = failpoint /\ command = Worker /\ Before
  <2>1. command = Worker /\ Before
    BY DEF Working, AtOpen, AtAppend, AtIndex, AtCheckpoint, AtReturn, AtClose
  <2> QED
    BY <2>1, AtRest DEF WorkerStep, Returned, Leave
<1>2. /\ PutStart("player", "bellingham")
      /\ command' = command /\ stage' = "call"
  BY <1>1, TestData DEF run_put, Worker, PutRejected
<1>3. IInv'
  <2>1. [Faultless]_vars /\ ~rebuild_index
    BY <1>2, TestData DEF Faultless, Call, PutStart, rebuild_index, StartRebuild
  <2> QED
    BY <2>1, InvStep DEF Sound
<1>4. /\ pc' = "put_append" /\ resp' = "none" /\ UNCHANGED <<log, dbFile, idxFile>>
      /\ rec'.key = "player" /\ rec'.value = "bellingham"
  BY <1>2 DEF PutStart, disk
<1>5. storeBar' = storeBar
  BY <1>4 DEF storeBar
<1>6. Sound' /\ Before' /\ ~indexClean'
  BY <1>1, <1>3, <1>4, <1>5 DEF Sound, Whole, TornTail, Before, Replaces, IInv, DirtyWhileWriting, Writing
<1>7. FailpointsAfter = {"before_db_append"}
  BY DEF FailpointsAfter
<1>8. CASE failpoint = "before_db_append"
  <2>1. child' = "SIGSTOP"
    BY <1>7, <1>8 DEF WorkerStep
  <2>2. storeBar'["player"] = Absent /\ ExpectedPlayer' = Absent /\ ~Cleanly'
    BY <1>1, <1>5, <1>8 DEF Before, Replaces, ExpectedPlayer, Cleanly
  <2> QED
    BY <1>4, <1>6, <2>1, <2>2 DEF Stopped, Fields
<1>9. CASE failpoint # "before_db_append"
  <2>1. child' = "running"
    BY <1>7, <1>9 DEF WorkerStep
  <2> QED
    BY <1>1, <1>2, <1>4, <1>6, <1>9, <2>1 DEF Working, AtAppend
<1> QED
  BY <1>8, <1>9

(* ... and, once the record is in the file, has After to show. *)
LEMMA WorkerAppends ==
    ASSUME BookInv, Sound, Working, WorkerStep, stage = "call", pc = "put_append"
    PROVE  Sound' /\ ((child' = "running" /\ Working') \/ (child' = "SIGSTOP" /\ Stopped'))
<1>1. /\ Step /\ UNCHANGED <<command, stage, failpoint>> /\ command = Worker /\ Before
      /\ failpoint # "before_db_append" /\ rec.key = "player" /\ rec.value = "bellingham"
  <2>1. command = Worker /\ AtAppend
    BY DEF Working, AtOpen, AtIndex, AtCheckpoint, AtReturn, AtClose
  <2> QED
    BY <2>1 DEF AtAppend, WorkerStep, run_put, Returned, Leave, CloseStart, DestroyUnclean, cli
<1>2. PutAppend
  BY <1>1 DEF Step, NewIndexCreate, NewIndexSetup, NewIndexLoad,
     NewIndexInvalid, NewIndexNotEmpty, NewDbCreate, NewDbSetup, NewCheckpoint,
     LoadInvalidDb, LoadMissingIndex, LoadInvalidIndex, LoadCleanIndex, LoadUncleanIndex,
     MarkDirty, RecoverWhole, RecoverTruncate, RecoverCorrupt, Replay, ReplayCorrupt,
     Install, RebuildCheckpointInCall, RebuildCheckpointInConstructor,
     PutIndex, PutCheckpoint, EraseAppend, EraseZero, EraseUnlink, EraseCheckpoint, CloseMark
<1>3. IInv'
  BY <1>1, InvStep DEF Sound, Faultless, rebuild_index
<1>4. pc' = "put_index" /\ UNCHANGED <<resp, dbFile, idxFile, idx, rec>>
  BY <1>2 DEF PutAppend
<1>5. storeBar' = [storeBar EXCEPT !["player"] = "bellingham"]
  BY <1>1, <1>2, <1>3, AppendCommits DEF Sound, IInv, IndexInStep
<1>6. After' /\ storeBar'["team"] = storeBar["team"]
  BY <1>5, TestData DEF After
<1>7. ~TornTail' /\ ~indexClean'
  BY <1>3, <1>4 DEF IInv, OnlyTheTailIsTorn, DirtyWhileWriting, Writing
<1>8. Sound'
  BY <1>3, <1>4, <1>6, <1>7 DEF Sound, Whole
<1>9. idx["player"] = NoEntry <=> ~Replaces
  <2>1. log \in Seq(Items) /\ idx \in Maps /\ AllComplete(log) /\ Represents(idx, log, Len(log))
    BY DEF Sound, Whole, IInv, TypeOK, DataOK, TornTail, AllComplete, IndexInStep
  <2>2. idx["player"] = NoEntry <=> storeBar["player"] = Absent
    BY <2>1, TestData, ExactIndexAnswers
  <2> QED
    BY <1>1, <2>2 DEF Before, Absent
<1>10. FailpointsAfter = {"after_db_append"}
  BY DEF FailpointsAfter
<1>11. CASE failpoint = "after_db_append"
  <2>1. child' = "SIGSTOP" /\ ExpectedPlayer' = "bellingham" /\ ~Cleanly'
    BY <1>1, <1>10, <1>11 DEF WorkerStep, ExpectedPlayer, Cleanly
  <2> QED
    BY <1>4, <1>6, <1>7, <1>8, <2>1 DEF Stopped, Fields, After
<1>12. CASE failpoint # "after_db_append"
  <2>1. child' = "running"
    BY <1>10, <1>12 DEF WorkerStep
  <2> QED
    BY <1>1, <1>4, <1>6, <1>8, <1>9, <1>12, <2>1 DEF Working, AtIndex, Replaces
<1> QED
  BY <1>11, <1>12

(* From then on its index catches up and is closed. *)
LEMMA WorkerFinishes ==
    ASSUME BookInv, Sound, command = Worker, WorkerStep,
           AtIndex \/ AtCheckpoint \/ AtReturn \/ AtClose
    PROVE  Sound' /\ ((child' = "running" /\ Working') \/ (child' = "SIGSTOP" /\ Stopped'))
<1>1. /\ After /\ command = Worker /\ failpoint \in Failpoints /\ failpoint # "before_db_append"
      /\ UNCHANGED <<failpoint, command>>
      /\ (run_put \/ Returned \/ Leave \/ (Step /\ UNCHANGED cli))
  <2>1. After /\ failpoint # "before_db_append"
    BY DEF AtIndex, AtCheckpoint, AtReturn, AtClose, Cleanly
  <2>2. run_put \/ Returned \/ Leave \/ (Step /\ UNCHANGED cli)
    BY DEF WorkerStep
  <2>3. command' = command /\ failpoint' = failpoint
    BY <2>2 DEF WorkerStep, run_put, Returned, Leave, cli
  <2> QED
    BY <2>1, <2>2, <2>3 DEF BookInv
<1>2. ExpectedPlayer' = "bellingham" /\ Replaces' = Replaces /\ Cleanly' = Cleanly
  BY <1>1 DEF ExpectedPlayer, Replaces, Cleanly
<1>3. ASSUME [Faultless]_vars, ~rebuild_index, UNCHANGED <<log, dbFile, idxFile>>, resp' # "throw"
      PROVE  Sound' /\ After'
  <2>1. IInv'
    BY <1>3, InvStep DEF Sound
  <2>2. storeBar' = storeBar
    BY <1>3 DEF storeBar
  <2> QED
    BY <1>1, <1>3, <2>1, <2>2 DEF Sound, Whole, TornTail, After
<1>4. CASE AtIndex
  <2> USE DEF AtIndex
  <2>1. /\ Step /\ stage' = stage /\ stage = "call" /\ failpoint # "after_db_append"
        /\ rec.key = "player" /\ (idx["player"] = NoEntry <=> ~Replaces)
    BY <1>1, <1>4 DEF AtIndex, run_put, Returned, Leave, CloseStart, DestroyUnclean,
       PutStart, PutRejected, cli
  <2>2. PutIndex
    BY <1>4, <2>1 DEF Step, NewIndexCreate, NewIndexSetup, NewIndexLoad,
       NewIndexInvalid, NewIndexNotEmpty, NewDbCreate, NewDbSetup, NewCheckpoint,
       LoadInvalidDb, LoadMissingIndex, LoadInvalidIndex, LoadCleanIndex, LoadUncleanIndex,
       MarkDirty, RecoverWhole, RecoverTruncate, RecoverCorrupt, Replay, ReplayCorrupt,
       Install, RebuildCheckpointInCall, RebuildCheckpointInConstructor,
       PutAppend, PutCheckpoint, EraseAppend, EraseZero, EraseUnlink, EraseCheckpoint, CloseMark
  <2>3. pc' = "put_checkpoint" /\ UNCHANGED <<log, dbFile, idxFile, resp>>
    BY <2>2 DEF PutIndex
  <2>4. Sound' /\ After'
    BY <1>3, <1>4, <2>1, <2>3 DEF Sound, Faultless, rebuild_index
  <2>5. failpoint \notin {"before_update_bucket_head", "after_update_bucket_head",
                         "after_modify_existing_entry"}
    BY <1>4, <2>1 DEF WorkerStep, FailpointsBefore, Replaces
  <2>6. FailpointsAfter = {"before_update_indexed_up_to_offset"}
    BY <1>4 DEF FailpointsAfter
  <2>7. CASE failpoint = "before_update_indexed_up_to_offset"
    <3>1. child' = "SIGSTOP" /\ ~Cleanly
      BY <2>6, <2>7 DEF WorkerStep, Cleanly
    <3>2. ~indexClean'
      BY <2>3, <2>4 DEF Sound, IInv, DirtyWhileWriting, Writing
    <3> QED
      BY <1>2, <2>3, <2>4, <3>1, <3>2 DEF Stopped, Fields, After
  <2>8. CASE failpoint # "before_update_indexed_up_to_offset"
    <3>1. child' = "running"
      BY <2>6, <2>8 DEF WorkerStep
    <3>2. failpoint \in {"after_update_indexed_up_to_offset", "before_set_index_clean", "clean_db_close"}
      BY <1>1, <2>1, <2>5, <2>8 DEF Failpoints
    <3> QED
      BY <1>1, <2>1, <2>3, <2>4, <3>1, <3>2 DEF Working, AtCheckpoint
  <2> QED
    BY <2>7, <2>8
<1>5. CASE AtCheckpoint
  <2> USE DEF AtCheckpoint
  <2>1. /\ Step /\ stage' = stage /\ stage = "call"
        /\ failpoint \in {"after_update_indexed_up_to_offset", "before_set_index_clean", "clean_db_close"}
    BY <1>1, <1>5 DEF AtCheckpoint, run_put, Returned, Leave, CloseStart, DestroyUnclean,
       PutStart, PutRejected, cli
  <2>2. PutCheckpoint
    BY <1>5, <2>1 DEF Step, NewIndexCreate, NewIndexSetup, NewIndexLoad,
       NewIndexInvalid, NewIndexNotEmpty, NewDbCreate, NewDbSetup, NewCheckpoint,
       LoadInvalidDb, LoadMissingIndex, LoadInvalidIndex, LoadCleanIndex, LoadUncleanIndex,
       MarkDirty, RecoverWhole, RecoverTruncate, RecoverCorrupt, Replay, ReplayCorrupt,
       Install, RebuildCheckpointInCall, RebuildCheckpointInConstructor,
       PutAppend, PutIndex, EraseAppend, EraseZero, EraseUnlink, EraseCheckpoint, CloseMark
  <2>3. pc' = "idle" /\ resp' = "ok" /\ UNCHANGED <<log, dbFile, idxFile>>
    BY <2>2 DEF PutCheckpoint, Return
  <2>4. Sound' /\ After'
    BY <1>3, <1>5, <2>1, <2>3 DEF Faultless, rebuild_index
  <2>5. FailpointsAfter = {"after_update_indexed_up_to_offset"}
    BY <1>5 DEF FailpointsAfter
  <2>6. CASE failpoint = "after_update_indexed_up_to_offset"
    <3>1. child' = "SIGSTOP" /\ ~Cleanly
      BY <2>5, <2>6 DEF WorkerStep, Cleanly
    <3>2. ~indexClean'
      BY <2>3, <2>4 DEF Sound, IInv, DirtyWhileWriting
    <3> QED
      BY <1>2, <2>3, <2>4, <3>1, <3>2 DEF Stopped, Fields, After
  <2>7. CASE failpoint # "after_update_indexed_up_to_offset"
    <3>1. child' = "running"
      BY <2>5, <2>7 DEF WorkerStep
    <3> QED
      BY <1>1, <2>1, <2>3, <2>4, <2>7, <3>1 DEF Working, AtReturn
  <2> QED
    BY <2>6, <2>7
<1>6. CASE AtReturn /\ stage = "call"
  <2> USE DEF AtReturn
  <2>1. /\ Returned /\ stage' = "leave" /\ UNCHANGED vars
        /\ failpoint \in {"before_set_index_clean", "clean_db_close"}
    BY <1>1, <1>6, AtRest DEF AtReturn, run_put, Returned, Leave
  <2>2. Sound' /\ After' /\ pc' = "idle"
    BY <1>3, <1>6, <2>1 DEF vars, disk, Sound, rebuild_index, StartRebuild
  <2>3. child' = "running"
    BY <1>6 DEF WorkerStep, FailpointsAfter
  <2> QED
    BY <1>1, <2>1, <2>2, <2>3 DEF Working, AtReturn
<1>7. CASE AtReturn /\ stage = "leave"
  <2> USE DEF AtReturn
  <2>1. FileSize = cachedUpTo
    BY <1>7 DEF Sound, IInv, CheckpointInStep
  <2>2. CloseStart("dtor") /\ stage' = "leave" /\ failpoint \in {"before_set_index_clean", "clean_db_close"}
    BY <1>1, <1>7, <2>1, AtRest DEF AtReturn, run_put, Returned, Leave, DestroyUnclean, cli
  <2>3. pc' = "close_mark" /\ resp' = "none" /\ UNCHANGED <<log, dbFile, idxFile>>
    BY <2>2 DEF CloseStart, disk
  <2>4. Sound' /\ After'
    BY <1>3, <2>2, <2>3 DEF Faultless, Call, rebuild_index, StartRebuild
  <2>5. FailpointsAfter = {"before_set_index_clean"}
    BY <1>7, <2>1 DEF FailpointsAfter
  <2>6. CASE failpoint = "before_set_index_clean"
    <3>1. child' = "SIGSTOP" /\ ~Cleanly
      BY <2>5, <2>6 DEF WorkerStep, Cleanly
    <3>2. ~indexClean'
      BY <2>3, <2>4 DEF Sound, IInv, DirtyWhileWriting
    <3> QED
      BY <1>2, <2>3, <2>4, <3>1, <3>2 DEF Stopped, Fields, After
  <2>7. CASE failpoint = "clean_db_close"
    <3>1. child' = "running"
      BY <2>5, <2>7 DEF WorkerStep
    <3> QED
      BY <1>1, <2>2, <2>3, <2>4, <2>7, <3>1 DEF Working, AtClose, Cleanly
  <2> QED
    BY <2>2, <2>6, <2>7
<1>8. CASE AtClose
  <2> USE DEF AtClose
  <2>1. Step /\ Cleanly
    BY <1>1, <1>8 DEF AtClose, run_put, Returned, Leave, CloseStart, DestroyUnclean,
       PutStart, PutRejected
  <2>2. CloseMark
    BY <1>8, <2>1, OnlyCloseMark
  <2>3. /\ pc' = "none" /\ resp' = "ok" /\ UNCHANGED <<log, dbFile, idxFile, indexedUpTo>>
        /\ indexClean' = TRUE /\ report' = NoReport
    BY <2>2 DEF CloseMark, Gone
  <2>4. Sound' /\ After'
    BY <1>3, <1>8, <2>1, <2>3 DEF Faultless, rebuild_index
  <2>5. indexedUpTo = FileSize
    BY <1>8 DEF Sound, IInv, CheckpointInStep
  <2>6. child' = "SIGSTOP"
    BY <1>8, <2>1 DEF WorkerStep, FailpointsAfter, Cleanly
  <2> QED
    BY <1>2, <2>1, <2>3, <2>4, <2>5, <2>6 DEF Stopped, Fields, After, FileSize
<1> QED
  BY <1>4, <1>5, <1>6, <1>7, <1>8 DEF AtReturn

(* Every step of the worker. *)
LEMMA WorkerStepKept ==
    ASSUME BookInv, Sound, Working, WorkerStep
    PROVE  Sound' /\ ((child' = "running" /\ Working') \/ (child' = "SIGSTOP" /\ Stopped'))
<1>0. command = Worker
  BY DEF Working
<1>1. CASE AtOpen /\ pc # "idle"
  <2> USE DEF AtOpen
  <2>1. Step /\ UNCHANGED <<command, stage, failpoint>>
    BY <1>1 DEF WorkerStep, run_put, PutStart, PutRejected, Returned, Leave, cli
  <2>2. Whole' /\ UNCHANGED log /\ resp' # "throw" /\ pc' \in Reopening
    BY <1>1, <2>1, ReopenStep DEF Sound
  <2>3. IInv'
    BY <1>1, <2>1, InvStep DEF Sound, Faultless, rebuild_index
  <2>4. storeBar' = storeBar
    BY <2>2 DEF storeBar
  <2>5. child' = "running"
    BY <1>1 DEF WorkerStep, FailpointsAfter, Reopening
  <2> QED
    BY <1>0, <1>1, <2>1, <2>2, <2>3, <2>4, <2>5 DEF Sound, Working, Before, Replaces
<1>2. CASE AtOpen /\ pc = "idle"
  BY <1>2, WorkerPuts DEF AtOpen
<1>3. CASE AtAppend
  BY <1>3, WorkerAppends DEF AtAppend
<1>4. CASE AtIndex \/ AtCheckpoint \/ AtReturn \/ AtClose
  BY <1>0, <1>4, WorkerFinishes
<1> QED
  BY <1>1, <1>2, <1>3, <1>4 DEF Working

(* The worker stops itself inside Index::set(). *)
LEMMA WorkerStopsInside ==
    ASSUME Sound, Working, StopInside
    PROVE  Stopped'
<1>1. /\ UNCHANGED <<vars, failpoint>> /\ pc = "put_index"
      /\ failpoint \in {"before_update_bucket_head", "after_update_bucket_head",
                       "after_modify_existing_entry"}
  BY DEF StopInside, FailpointsBefore, cliVars
<1>2. UNCHANGED <<log, dbFile, idxFile, resp, pc, indexClean>>
  BY <1>1 DEF vars, disk
<1>3. After
  BY <1>1 DEF Working, AtOpen, AtAppend, AtIndex, AtCheckpoint, AtReturn, AtClose, Reopening
<1>4. IInv'
  BY <1>1, InvStep DEF Sound, rebuild_index
<1>5. storeBar' = storeBar /\ TornTail' = TornTail
  BY <1>2 DEF storeBar, TornTail
<1>6. ~indexClean'
  BY <1>1, <1>2 DEF Sound, IInv, DirtyWhileWriting, Writing
<1>7. ExpectedPlayer' = "bellingham" /\ ~Cleanly'
  BY <1>1 DEF ExpectedPlayer, Cleanly
<1>8. Sound' /\ storeBar'["player"] = "bellingham"
  BY <1>2, <1>3, <1>4, <1>5 DEF Sound, Whole, After
<1> QED
  BY <1>1, <1>2, <1>6, <1>7, <1>8 DEF Stopped, Fields

(* SIGKILL at a failpoint leaves the files as they are. *)
LEMMA StoppedIsCaught ==
    ASSUME Stopped, child = "SIGSTOP", NEW hit, WorkerDies(hit)
    PROVE  Caught'
<1>1. log' = log /\ failpoint' = failpoint
  BY DEF WorkerDies
<1>2. CASE ProcessKilled
  <2>1. Crash
    BY <1>2 DEF ProcessKilled
  <2>2. IInv'
    BY <2>1, InvStep DEF Stopped, Sound, Faultless, rebuild_index, StartRebuild, Crash, Kill, KillInAppend, Gone
  <2>3. /\ pc' = "none" /\ resp' = "none" /\ report' = NoReport
        /\ UNCHANGED <<dbFile, idxFile, indexClean, indexedUpTo>>
    BY <2>1 DEF Crash, Kill, KillInAppend, Gone, disk
  <2>4. /\ storeBar' = storeBar /\ TornTail' = TornTail /\ FileSize' = FileSize
        /\ ExpectedPlayer' = ExpectedPlayer /\ Cleanly' = Cleanly
    BY <1>1 DEF storeBar, TornTail, FileSize, ExpectedPlayer, Cleanly
  <2> QED
    BY <2>2, <2>3, <2>4 DEF Stopped, Caught, Sound, Whole, Fields
<1>3. CASE pc = "none" /\ UNCHANGED vars
  <2>1. UNCHANGED <<log, dbFile, idxFile, resp, pc, indexClean, indexedUpTo, report>>
    BY <1>3 DEF vars, disk, handle
  <2>2. IInv'
    BY <1>3, InvStep DEF Stopped, Sound, rebuild_index, StartRebuild
  <2>3. /\ storeBar' = storeBar /\ TornTail' = TornTail /\ FileSize' = FileSize
        /\ ExpectedPlayer' = ExpectedPlayer /\ Cleanly' = Cleanly
    BY <1>1 DEF storeBar, TornTail, FileSize, ExpectedPlayer, Cleanly
  <2> QED
    BY <1>3, <2>1, <2>2, <2>3 DEF Stopped, Caught, Sound, Whole, Fields
<1> QED
  BY <1>2, <1>3 DEF WorkerDies

-----------------------------------------------------------------------------
(* The reopen.                                                             *)

(* The parent opens what the worker left, ... *)
LEMMA ReopenCaught ==
    ASSUME Caught, Reopen
    PROVE  Recovering'
<1>1. Open /\ failpoint' = failpoint
  BY DEF Reopen
<1>2. /\ pc' = "ctor_load" /\ resp' = "none" /\ report' = NoReport
      /\ UNCHANGED <<log, dbFile, idxFile, indexClean, indexedUpTo>>
  BY <1>1 DEF Open, OpenNew, OpenExisting, disk, handle, Caught, Sound, Whole
<1>3. IInv'
  BY <1>1, InvStep DEF Caught, Sound, Faultless, rebuild_index
<1>4. /\ storeBar' = storeBar /\ TornTail' = TornTail /\ FileSize' = FileSize
      /\ ExpectedPlayer' = ExpectedPlayer /\ Cleanly' = Cleanly
  BY <1>1, <1>2 DEF storeBar, TornTail, FileSize, ExpectedPlayer, Cleanly
<1> QED
  BY <1>2, <1>3, <1>4 DEF Caught, Recovering, Sound, Whole, Fields, Reopening

(* ... recovers it unless it was closed, and reports just that ... *)
LEMMA RecoveringStep ==
    ASSUME Recovering, Step, UNCHANGED failpoint
    PROVE  Recovering'
<1>1. /\ Whole' /\ UNCHANGED log /\ resp' # "throw" /\ pc' \in Reopening
      /\ \/ LoadCleanIndex \/ LoadUncleanIndex \/ MarkDirty \/ RecoverWhole \/ Replay \/ Install
         \/ RebuildCheckpointInCall \/ RebuildCheckpointInConstructor
  BY ReopenStep DEF Recovering, Sound
<1>2. IInv'
  BY AtRest, InvStep DEF Recovering, Sound, Faultless, rebuild_index
<1>3. /\ storeBar' = storeBar /\ FileSize' = FileSize
      /\ ExpectedPlayer' = ExpectedPlayer /\ Cleanly' = Cleanly /\ ExpectedReport' = ExpectedReport
  BY <1>1 DEF storeBar, FileSize, ExpectedPlayer, Cleanly, ExpectedReport
<1>4. Sound' /\ storeBar'["player"] = ExpectedPlayer'
  BY <1>1, <1>2, <1>3 DEF Recovering, Sound
<1>5. CASE LoadCleanIndex
  <2>1. pc = "ctor_load" /\ pc' = "ctor_mark_dirty" /\ indexClean /\ report' = report
    BY <1>5 DEF LoadCleanIndex, index_metadata_clean
  <2>2. Cleanly /\ report' = ExpectedReport
    BY <2>1 DEF Recovering, Fields, Cleanly, ExpectedReport
  <2> QED
    BY <1>1, <1>3, <1>4, <2>1, <2>2 DEF Recovering
<1>6. CASE LoadUncleanIndex
  <2>1. pc = "ctor_load" /\ pc' = "recover" /\ caller' = "unclean_index" /\ ~index_metadata_clean
    BY <1>6 DEF LoadUncleanIndex
  <2>2. ~Cleanly
    BY <2>1 DEF Recovering, Fields, index_metadata_clean
  <2> QED
    BY <1>1, <1>3, <1>4, <2>1, <2>2 DEF Recovering
<1>7. CASE MarkDirty
  <2>1. pc = "ctor_mark_dirty" /\ pc' = "idle" /\ report' = report
    BY <1>7 DEF MarkDirty, Return, handle
  <2> QED
    BY <1>1, <1>3, <1>4, <2>1 DEF Recovering
<1>8. CASE RecoverWhole \/ Replay \/ Install
  <2>1. /\ pc \in {"recover", "replay"} /\ pc' \in {"replay", "rebuild_checkpoint"}
        /\ caller' = caller /\ (truncated' = 0 \/ (truncated' = truncated /\ pc = "replay"))
    BY <1>8 DEF RecoverWhole, Replay, Install, StartRebuild, locals
  <2> QED
    BY <1>1, <1>3, <1>4, <2>1 DEF Recovering
<1>9. CASE RebuildCheckpointInCall
  BY <1>9 DEF RebuildCheckpointInCall, Recovering
<1>10. CASE RebuildCheckpointInConstructor
  <2>1. pc = "rebuild_checkpoint" /\ pc' = "ctor_mark_dirty"
        /\ report' = [reason |-> caller, action |-> "full_index_rebuild", truncated |-> truncated]
    BY <1>10 DEF RebuildCheckpointInConstructor
  <2>2. report' = ExpectedReport
    BY <2>1 DEF Recovering, ExpectedReport, Cleanly
  <2> QED
    BY <1>1, <1>3, <1>4, <2>1, <2>2 DEF Recovering
<1> QED
  BY <1>1, <1>5, <1>6, <1>7, <1>8, <1>9, <1>10

(* ... and finds the contents it expects. *)
LEMMA Verified ==
    ASSUME Recovering, Verify
    PROVE  verdict' = "0"
<1>1. pc = "idle"
  BY DEF Verify, CloseStart, DestroyUnclean
<1>2. get("team") = "madrid" /\ get("player") = ExpectedPlayer
  BY <1>1, IdleAnswers, TestData DEF Recovering, Sound, AnswersAreContents
<1>3. report = ExpectedReport
  BY <1>1 DEF Recovering
<1> QED
  BY <1>2, <1>3 DEF Verify

-----------------------------------------------------------------------------
(* The whole test.                                                         *)

(* What depends on the database and its user alone. *)
LEMMA Frame ==
    ASSUME UNCHANGED <<cliVars, failpoint>>
    PROVE  /\ IInv => IInv'
           /\ Sound => Sound'
           /\ Before => Before'
           /\ Working => Working'
           /\ Stopped => Stopped'
           /\ Caught => Caught'
           /\ Recovering => Recovering'
<1>1. /\ UNCHANGED vars
      /\ UNCHANGED <<log, dbFile, idxFile, idx, resp, pc, rec, indexClean, indexedUpTo, report, caller,
                     truncated, command, stage>>
  BY DEF cliVars, cli, vars, disk, handle, locals
<1>2. IInv => IInv'
  BY <1>1, InvStep DEF rebuild_index, StartRebuild
<1>3. /\ storeBar' = storeBar /\ TornTail' = TornTail /\ FileSize' = FileSize
      /\ ExpectedPlayer' = ExpectedPlayer /\ Cleanly' = Cleanly /\ ExpectedReport' = ExpectedReport
      /\ Replaces' = Replaces
  BY <1>1 DEF storeBar, TornTail, FileSize, ExpectedPlayer, Cleanly, ExpectedReport, Replaces
<1>4. Sound => Sound'
  BY <1>1, <1>2, <1>3 DEF Sound, Whole
<1>5. (Before => Before') /\ (After => After') /\ (Fields => Fields')
  BY <1>1, <1>3 DEF Before, After, Fields
<1>6. Working => Working'
  BY <1>1, <1>3, <1>5 DEF Working, AtOpen, AtAppend, AtIndex, AtCheckpoint, AtReturn, AtClose
<1>7. (Stopped => Stopped') /\ (Caught => Caught')
  BY <1>1, <1>4, <1>5 DEF Stopped, Caught
<1>8. Recovering => Recovering'
  BY <1>1, <1>3, <1>4, <1>5 DEF Recovering
<1> QED
  BY <1>2, <1>4, <1>5, <1>6, <1>7, <1>8

(* What an undisturbed test goes through, step by step. *)
LEMMA UndisturbedStep ==
    ASSUME BookInv, UndisturbedInv, [TestNext]_testVars, ~disturbed'
    PROVE  UndisturbedInv'
<1> USE DEF UndisturbedInv
<1>1. CASE MakeWorkspace
  <2>1. tpc = "start" /\ tpc' = "init" /\ child' = child /\ child = "none"
    BY <1>1 DEF MakeWorkspace, BookInv
  <2>2. IInv' /\ resp' # "throw" /\ Preparing'
    BY <1>1, <2>1, Prepare
  <2> QED
    BY <2>1, <2>2
<1>2. CASE InitPut
  <2>1. tpc = "init" /\ tpc' = "init" /\ child' = child /\ child = "none"
    BY <1>2 DEF InitPut, BookInv
  <2>2. IInv' /\ resp' # "throw" /\ Preparing'
    BY <1>2, <2>1, PreparingPut
  <2> QED
    BY <2>1, <2>2
<1>3. CASE InitDone
  <2>1. tpc = "init" /\ tpc' = "fork" /\ child' = child /\ child = "none"
    BY <1>3 DEF InitDone, BookInv
  <2>2. Sound' /\ Before' /\ pc' = "close_mark"
    BY <1>3, <2>1, Prepared
  <2> QED
    BY <2>1, <2>2
<1>4. CASE TestThrew
  BY <1>4 DEF TestThrew, Recovering, Sound
<1>5. CASE ParentDatabase
  <2>1. /\ Step /\ UNCHANGED <<failpoint, script, tpc, child, killSent, reached, verdict>>
        /\ tpc \in {"init", "fork", "verify", "remove"}
    BY <1>5 DEF ParentDatabase, harness
  <2>2. child \in {"none", "reaped"}
    BY <2>1 DEF BookInv, SoleUser
  <2>3. CASE tpc = "init"
    <3>1. IInv' /\ resp' # "throw" /\ Preparing'
      BY <2>1, <2>3, PreparingStep
    <3> QED
      BY <2>1, <2>2, <2>3, <3>1
  <2>4. CASE tpc = "fork"
    <3>1. CloseMark
      BY <2>1, <2>4, OnlyCloseMark
    <3>2. pc' = "none" /\ resp' = "ok" /\ UNCHANGED <<log, dbFile, idxFile>>
      BY <3>1 DEF CloseMark, Gone
    <3>3. IInv'
      BY <2>1, <2>4, <3>1, InvStep DEF Sound, Faultless, rebuild_index, CloseMark
    <3>4. storeBar' = storeBar /\ TornTail' = TornTail /\ Replaces' = Replaces
      BY <2>1, <3>2 DEF storeBar, TornTail, Replaces
    <3>5. Sound' /\ Before'
      BY <2>4, <3>2, <3>3, <3>4 DEF Sound, Whole, Before
    <3> QED
      BY <2>1, <2>2, <2>4, <3>2, <3>5
  <2>5. CASE tpc = "verify"
    <3>1. Recovering'
      BY <2>1, <2>5, RecoveringStep
    <3> QED
      BY <2>1, <2>2, <2>5, <3>1
  <2>6. CASE tpc = "remove"
    BY <2>1, <2>2, <2>6
  <2> QED
    BY <2>1, <2>3, <2>4, <2>5, <2>6
<1>6. CASE Fork
  <2>1. /\ tpc = "fork" /\ pc = "none" /\ child' = "forked" /\ tpc' = "poll"
        /\ UNCHANGED <<cliVars, failpoint>>
    BY <1>6 DEF Fork
  <2>2. Sound' /\ Before' /\ pc' = "none"
    BY <2>1, Frame DEF cliVars, vars
  <2> QED
    BY <2>1, <2>2
<1>7. CASE PollNothing \/ DeadlineAhead \/ DeadlinePassed \/ PollFailpoint
           \/ SendKill("kill_stopped", "reap_stopped")
           \/ SendKill("kill_late", "reap_failed") \/ SendKill("kill_left", "reap_failed")
  <2>1. UNCHANGED <<cliVars, failpoint, child>> /\ (killSent => killSent')
    BY <1>7 DEF PollNothing, DeadlineAhead, DeadlinePassed, PollFailpoint, SendKill
  <2>2. /\ Sound => Sound' 
        /\ Before => Before'
        /\ Working => Working'
        /\ Stopped => Stopped'
        /\ Caught => Caught'
        /\ pc' = pc
    BY <2>1, Frame DEF cliVars, vars
  <2>3. /\ tpc' \in {"poll", "deadline", "kill_late", "kill_stopped", "reap_stopped", "reap_failed"}
        /\ tpc' = "kill_stopped" => child = "SIGSTOP"
        /\ tpc' = "reap_stopped" => tpc = "kill_stopped"
    BY <1>7 DEF PollNothing, DeadlineAhead, DeadlinePassed, PollFailpoint, SendKill, Fail
  <2> QED
    BY <2>1, <2>2, <2>3
<1>8. CASE PollOtherStop \/ PollEnded
  BY <1>8 DEF PollOtherStop, PollEnded, Ended, BookInv
<1>9. CASE ReapStopped
  <2>1. tpc = "reap_stopped" /\ child = "killed"
    BY <1>9 DEF ReapStopped, Ended
  <2>2. tpc' = "reopen" /\ child' = "reaped" /\ UNCHANGED <<cliVars, failpoint>>
    BY <1>9, <2>1 DEF ReapStopped
  <2>3. Caught'
    BY <2>1, <2>2, Frame
  <2> QED
    BY <2>2, <2>3
<1>10. CASE ReapAfterFailure
  BY <1>10 DEF ReapAfterFailure, BookInv
<1>11. CASE Reopen
  <2>1. tpc = "reopen" /\ tpc' = "verify" /\ child' = child
    BY <1>11 DEF Reopen
  <2>2. child \in {"none", "reaped"}
    BY <2>1 DEF BookInv, SoleUser
  <2>3. Recovering'
    BY <1>11, <2>1, ReopenCaught
  <2> QED
    BY <2>1, <2>2, <2>3
<1>12. CASE Verify
  <2>1. tpc = "verify" /\ tpc' = "remove" /\ child' = child
    BY <1>12 DEF Verify
  <2>2. child \in {"none", "reaped"}
    BY <2>1 DEF BookInv, SoleUser
  <2>3. verdict' = "0"
    BY <1>12, <2>1, Verified
  <2> QED
    BY <2>1, <2>2, <2>3
<1>13. CASE RemoveWorkspace
  BY <1>13 DEF RemoveWorkspace, BookInv, SoleUser
<1>14. CASE Exec \/ StopInside \/ WorkerStep
  <2>1. UNCHANGED <<tpc, killSent, reached, verdict>> /\ child \in {"forked", "running"}
    BY <1>14 DEF Exec, StopInside, WorkerStep
  <2>2. tpc \notin {"start", "init", "fork", "kill_stopped", "reap_stopped", "reopen", "verify", "remove", "done"}
    BY <2>1 DEF BookInv, SoleUser
  <2>3. (child' = "running" /\ Sound' /\ Working') \/ (child' = "SIGSTOP" /\ Stopped')
    <3>1. CASE Exec
      BY <3>1, WorkerOpens DEF Exec
    <3>2. CASE StopInside
      BY <3>2, WorkerStopsInside DEF StopInside
    <3>3. CASE WorkerStep
      BY <3>3, WorkerStepKept DEF WorkerStep
    <3> QED
      BY <1>14, <3>1, <3>2, <3>3
  <2> QED
    BY <2>1, <2>2, <2>3
<1>15. CASE WorkerEnds
  <2>1. child = "running" /\ pc = "none"
    BY <1>15 DEF WorkerEnds, OpenThrew, Exit
  <2> QED
    BY <2>1 DEF Working, AtOpen, AtAppend, AtIndex, AtCheckpoint, AtReturn, AtClose, Reopening
<1>16. CASE KilledByParent
  <2>1. /\ killSent /\ child \in Alive /\ child' = "killed"
        /\ UNCHANGED <<tpc, killSent, reached, verdict>> /\ WorkerDies(FALSE)
    BY <1>16 DEF KilledByParent, WorkerDies
  <2>2. tpc \in {"reap_stopped", "reap_failed"}
    BY <2>1 DEF BookInv, SoleUser, Alive
  <2>3. tpc = "reap_stopped" => Caught'
    BY <2>1, StoppedIsCaught DEF Alive
  <2> QED
    BY <2>1, <2>2, <2>3
<1>17. CASE Outside
  BY <1>17 DEF Outside, ForkFails, ExecFails, PollError, FileOperationFails, StoppedFromOutside,
     KilledFromOutside, WorkerDies
<1>18. CASE Finished \/ UNCHANGED testVars
  <2>1. /\ UNCHANGED <<cliVars, failpoint, script>>
        /\ UNCHANGED <<tpc, child, killSent, reached, verdict>>
        /\ UNCHANGED <<pc, dbFile, log, idxFile, resp, rec, idx, vars>>
    BY <1>18 DEF Finished, testVars, harness, cliVars, vars, disk, locals
  <2>2. /\ IInv => IInv'
        /\ Sound => Sound'
        /\ Before => Before'
        /\ Working => Working'
        /\ Stopped => Stopped'
        /\ Caught => Caught'
        /\ Recovering => Recovering'
    BY <2>1, Frame
  <2>3. Preparing => Preparing'
    BY <2>1 DEF Preparing, FirstSession, ScriptOK, TeamDue, PlayerDue, Replaces, storeBar
  <2>4. TypeOK => TypeOK'
    BY <2>1, FlagsStep, DataStep DEF TypeOK
  <2> QED
    BY <2>1, <2>2, <2>3, <2>4
<1> QED
  BY <1>1, <1>2, <1>3, <1>4, <1>5, <1>6, <1>7, <1>8, <1>9, <1>10, <1>11, <1>12, <1>13, <1>14, <1>15,
     <1>16, <1>17, <1>18 DEF TestNext, Parent, WorkerActs

(* Nothing takes back that the test was disturbed. *)
LEMMA DisturbedStays == disturbed /\ [TestNext]_testVars => disturbed'
BY Zenon DEF TestNext, Parent, WorkerActs, Outside, MakeWorkspace, InitPut, InitDone, TestThrew, ParentDatabase,
   Fork, PollNothing, PollFailpoint, PollOtherStop, PollEnded, SendKill, ReapStopped, ReapAfterFailure,
   Reopen, Verify, RemoveWorkspace, Exec, StopInside, WorkerStep, WorkerEnds, ForkFails, ExecFails,
   PollError, FileOperationFails, StoppedFromOutside, KilledFromOutside, WorkerDies, DeadlineAhead,
   DeadlinePassed, KilledByParent, Finished, testVars, harness

(* The invariant is inductive. *)
LEMMA TestInvariant == TestSpec => []TestInv
<1>1. TestInit => TestInv
  <2> SUFFICES ASSUME TestInit PROVE TestInv
    OBVIOUS
  <2>1. BookInv
    BY DEF TestInit, BookInv, SoleUser
  <2>2. TypeOK
    BY FlagsInit, DataInit DEF TestInit, CliInit, TypeOK
  <2> QED
    BY <2>1, <2>2 DEF TestInit, CliInit, Init, TestInv, UndisturbedInv
<1>2. TestInv /\ [TestNext]_testVars => TestInv'
  BY BookStep, UndisturbedStep, DisturbedStays DEF TestInv
<1> QED
  BY <1>1, <1>2, PTL DEF TestSpec

(* Unless something from outside interferes, the worker of every failpoint *)
(* stops there: it never runs to its end.                                  *)
THEOREM WorkersMeetTheirFailpoint == TestSpec => []WorkerMeetsFailpoint
<1>1. TestInv => WorkerMeetsFailpoint
  BY DEF TestInv, UndisturbedInv, WorkerMeetsFailpoint
<1> QED
  BY <1>1, TestInvariant, PTL

(* A worker that was killed at its failpoint always gives PASS: the report *)
(* and the contents the parent reads after its reopen are the expected.    *)
THEOREM ReachedTestsPass == TestSpec => []ReachedMeansPass
<1>1. TestInv => ReachedMeansPass
  BY DEF TestInv, UndisturbedInv, ReachedMeansPass
<1> QED
  BY <1>1, TestInvariant, PTL
=============================================================================
