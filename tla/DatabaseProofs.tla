--------------------------- MODULE DatabaseProofs ---------------------------
(***************************************************************************)
(* Proofs about Database for every set of keys and values, every length of *)
(* the log and every sequence of crashes: its types, that the index may be *)
(* trusted when its header says so, and that it implements KVStore.  IInv  *)
(* is inductive when file operations do not fail and rebuilds start at the *)
(* head of the log.                                                        *)
(***************************************************************************)
EXTENDS AcknowledgedWrites, TLAPS

-----------------------------------------------------------------------------
(* Lemmas about the log.                                                   *)

(* A complete record is an item of the log. *)
LEMMA CompleteIsItem ==
    ASSUME NEW r \in Records
    PROVE  Complete(r) \in Items
BY DEF Records, Complete, Items

(* So is a fragment. *)
LEMMA FragmentIsItem == Fragment \in Items
BY DEF Fragment, Items, FragmentStatus

(* What appending does: one more item, every other one in its place and    *)
(* reread only if it was a fragment.                                       *)
LEMMA AppendedFacts ==
    ASSUME log \in Seq(Items), NEW item \in Items, NEW l \in Appended(item)
    PROVE  /\ l \in Seq(Items)
           /\ Len(l) = Len(log) + 1
           /\ l[Len(log) + 1] = item
           /\ \A i \in 1 .. Len(log) : log[i].status # "Truncated" => l[i] = log[i]
<1>1. PICK reading \in [1 .. Len(log) -> FragmentStatus] :
        l = Append([i \in 1 .. Len(log) |-> Reread(log[i], reading[i])], item)
  BY DEF Appended
<1> DEFINE base == [i \in 1 .. Len(log) |-> Reread(log[i], reading[i])]
<1>2. ASSUME NEW i \in 1 .. Len(log)
      PROVE  Reread(log[i], reading[i]) \in Items
  <2>1. log[i] \in Items /\ reading[i] \in FragmentStatus
    OBVIOUS
  <2>2. CASE log[i].status # "Truncated"
    BY <2>1, <2>2 DEF Reread
  <2>3. CASE log[i].status = "Truncated"
    <3>1. log[i] \in [status : FragmentStatus]
      BY <2>1, <2>3 DEF Items
    <3>2. [log[i] EXCEPT !.status = reading[i]] \in [status : FragmentStatus]
      BY <2>1, <3>1
    <3> QED BY <2>3, <3>2 DEF Reread, Items
  <2> QED BY <2>2, <2>3
<1>3. base \in Seq(Items) /\ Len(base) = Len(log)
  BY <1>2
<1>4. \A i \in 1 .. Len(log) : log[i].status # "Truncated" => base[i] = log[i]
  BY DEF Reread
<1> HIDE DEF base
<1> QED BY <1>1, <1>3, <1>4 DEF base

(* The scan of recover_records() stops inside the log when it does not     *)
(* reach the end.                                                          *)
LEMMA ReadInside ==
    ASSUME log \in Seq(Items), NEW o, read_record(o) # "EndOfFile"
    PROVE  o \in 1 .. Len(log) /\ log[o] \in Items /\ read_record(o) = log[o].status
BY DEF read_record

(* No item of the log reads as the end of the file. *)
LEMMA EndIsOutside ==
    ASSUME log \in Seq(Items), NEW o, read_record(o) = "EndOfFile"
    PROVE  o \notin 1 .. Len(log)
<1> SUFFICES ASSUME o \in 1 .. Len(log) PROVE FALSE
  OBVIOUS
<1>1. log[o] \in Items /\ log[o].status = "EndOfFile"
  BY DEF read_record
<1> QED
  BY <1>1 DEF Items, FragmentStatus

(* A record that reads as Success is complete. *)
LEMMA SuccessIsComplete ==
    ASSUME NEW item \in Items, item.status = "Success"
    PROVE  /\ item.type \in {"Put", "Delete"}
           /\ item.key \in Keys
           /\ item.value \in Values
BY DEF Items, FragmentStatus

(* The operations on the map keep it a map. *)
LEMMA MapOperations ==
    ASSUME NEW ix \in Maps, NEW k \in Keys, NEW o \in Nat
    PROVE  index_set(ix, k, o) \in Maps /\ index_unlink(ix, k) \in Maps
BY DEF Maps, Offsets, NoEntry, index_set, index_unlink

-----------------------------------------------------------------------------
(* Type correctness.                                                       *)

(* The empty map and the empty report have their types. *)
LEMMA InitialTypes ==
    /\ EmptyIndex \in Maps
    /\ NoReport \in Reports
BY DEF EmptyIndex, Maps, NoEntry, NoReport, Reports

(* FlagsOK and DataOK hold initially ... *)
LEMMA FlagsInit == Init => FlagsOK
BY DEF Init, FlagsOK

(* ... both parts of the type invariant ... *)
LEMMA DataInit == Init => DataOK
BY InitialTypes DEF Init, DataOK, FileStates, Offsets, Labels

(* ... and every action keeps them. *)
LEMMA FlagsStep == FlagsOK /\ [Next]_vars => FlagsOK'
<1> SUFFICES ASSUME FlagsOK, [Next]_vars PROVE FlagsOK'
  OBVIOUS
<1> USE DEF FlagsOK, disk
<1>1. CASE Open
  BY <1>1, Zenon DEF Open, OpenNew, OpenExisting
<1>2. CASE Call
  BY <1>2, Zenon DEF Call, PutStart, PutRejected, EraseMissing, EraseStart,
     rebuild_index, recover_records, CloseStart, CloseRefused, DestroyUnclean
<1>3. CASE Step
  BY <1>3, Zenon DEF Step, NewIndexCreate, NewIndexSetup, NewIndexLoad,
     NewIndexInvalid, NewIndexNotEmpty, NewDbCreate, NewDbSetup, NewCheckpoint,
     LoadInvalidDb, LoadMissingIndex, LoadInvalidIndex, LoadCleanIndex, LoadUncleanIndex,
     MarkDirty, RecoverWhole, RecoverTruncate, RecoverCorrupt, Replay, ReplayCorrupt,
     Install, RebuildCheckpointInCall, RebuildCheckpointInConstructor, PutAppend,
     PutIndex, PutCheckpoint, EraseAppend, EraseZero, EraseUnlink, EraseCheckpoint,
     CloseMark
<1>4. CASE Crash
  BY <1>4, Zenon DEF Crash, Kill, KillInAppend
<1>5. CASE IOFail
  BY <1>5, Zenon DEF IOFail, FailAppend, FailIndexWrite, FailRebuild, FailReload,
     FailConstructor, FailClose
<1>6. CASE Environment
  BY <1>6, Zenon DEF Environment, RemoveIndexFile, DamageIndexFile, RemoveDbFile
<1>7. CASE UNCHANGED vars
  BY <1>7, Zenon DEF vars
<1> QED
  BY <1>1, <1>2, <1>3, <1>4, <1>5, <1>6, <1>7 DEF Next

(* The same for the rest of the type invariant, one action at a time. *)
LEMMA DataStep == DataOK /\ [Next]_vars => DataOK'
<1> SUFFICES ASSUME DataOK, [Next]_vars PROVE DataOK'
  OBVIOUS
<1> USE InitialTypes DEF DataOK, disk, handle, locals, Labels, FileStates, Reasons, Offsets,
        Return, Gone, LocalsGone, HeaderSize, FileSize
<1>1. CASE OpenNew
  BY <1>1 DEF OpenNew
<1>2. CASE OpenExisting
  BY <1>2 DEF OpenExisting
<1>3. ASSUME NEW k \in Keys, NEW v \in Values, PutStart(k, v) PROVE DataOK'
  <2>1. rec' \in Records
    BY <1>3 DEF PutStart, Records
  <2> QED BY <1>3, <2>1 DEF PutStart
<1>4. ASSUME NEW k \in Keys, NEW v \in Values, PutRejected(k, v) PROVE DataOK'
  BY <1>4 DEF PutRejected
<1>5. ASSUME NEW k \in Keys, EraseMissing(k) PROVE DataOK'
  BY <1>5 DEF EraseMissing
<1>6. ASSUME NEW k \in Keys, EraseStart(k) PROVE DataOK'
  <2>1. rec' \in Records
    BY <1>6, DatabaseAssumption DEF EraseStart, Records
  <2> QED BY <1>6, <2>1 DEF EraseStart
<1>7. CASE rebuild_index
  BY <1>7, DatabaseAssumption DEF rebuild_index, StartRebuild
<1>8. CASE recover_records
  BY <1>8 DEF recover_records
<1>9. ASSUME NEW by \in {"close", "dtor"}, CloseStart(by) PROVE DataOK'
  BY <1>9 DEF CloseStart
<1>10. CASE CloseRefused
  BY <1>10 DEF CloseRefused
<1>11. CASE DestroyUnclean
  BY <1>11 DEF DestroyUnclean
<1>12. CASE NewIndexCreate
  BY <1>12 DEF NewIndexCreate
<1>13. CASE NewIndexSetup
  BY <1>13 DEF NewIndexSetup
<1>14. CASE NewIndexLoad
  BY <1>14 DEF NewIndexLoad
<1>15. CASE NewIndexInvalid
  BY <1>15 DEF NewIndexInvalid
<1>16. CASE NewIndexNotEmpty
  BY <1>16 DEF NewIndexNotEmpty
<1>17. CASE NewDbCreate
  BY <1>17 DEF NewDbCreate
<1>18. CASE NewDbSetup
  BY <1>18 DEF NewDbSetup
<1>19. CASE NewCheckpoint
  BY <1>19 DEF NewCheckpoint, set_indexed_up_to_offset
<1>20. CASE LoadInvalidDb
  BY <1>20 DEF LoadInvalidDb
<1>21. CASE LoadMissingIndex
  BY <1>21 DEF LoadMissingIndex, StartRebuild
<1>22. CASE LoadInvalidIndex
  BY <1>22 DEF LoadInvalidIndex, StartRebuild
<1>23. CASE LoadCleanIndex
  BY <1>23 DEF LoadCleanIndex
<1>24. CASE LoadUncleanIndex
  BY <1>24 DEF LoadUncleanIndex
<1>25. CASE MarkDirty
  BY <1>25 DEF MarkDirty
<1>26. CASE RecoverWhole
  BY <1>26 DEF RecoverWhole, StartRebuild
<1>27. CASE RecoverTruncate
  <2>1. scan_records \in 1 .. Len(log)
    BY <1>27, ReadInside DEF RecoverTruncate
  <2>2. SubSeq(log, 1, scan_records - 1) \in Seq(Items)
    BY <2>1
  <2> QED BY <1>27, <2>1, <2>2 DEF RecoverTruncate, TruncatedBytes, resize_file, StartRebuild
<1>28. CASE RecoverCorrupt
  BY <1>28 DEF RecoverCorrupt, Throw
<1>29. CASE Replay
  <2>1. log[pos] \in Items /\ log[pos].status = "Success"
    BY <1>29, ReadInside DEF Replay
  <2>2. Apply(tmp, log[pos], pos) \in Maps
    BY <2>1, SuccessIsComplete, MapOperations DEF Apply
  <2> QED BY <1>29, <2>2 DEF Replay
<1>30. CASE ReplayCorrupt
  BY <1>30 DEF ReplayCorrupt, Throw
<1>31. CASE Install
  BY <1>31 DEF Install
<1>32. CASE RebuildCheckpointInCall
  BY <1>32 DEF RebuildCheckpointInCall, set_indexed_up_to_offset
<1>33. CASE RebuildCheckpointInConstructor
  <2>1. report' \in Reports
    BY <1>33 DEF RebuildCheckpointInConstructor, Reports
  <2> QED BY <1>33, <2>1 DEF RebuildCheckpointInConstructor, set_indexed_up_to_offset
<1>34. CASE PutAppend
  <2>1. log' \in Seq(Items) /\ Len(log') \in Nat
    BY <1>34, CompleteIsItem, AppendedFacts DEF PutAppend
  <2> QED BY <1>34, <2>1 DEF PutAppend
<1>35. CASE PutIndex
  <2>1. rec.key \in Keys
    BY <1>35 DEF PutIndex, Records
  <2>2. idx' \in Maps
    BY <1>35, <2>1, MapOperations DEF PutIndex
  <2> QED BY <1>35, <2>2 DEF PutIndex
<1>36. CASE PutCheckpoint
  BY <1>36 DEF PutCheckpoint, set_indexed_up_to_offset
<1>37. CASE EraseAppend
  <2>1. log' \in Seq(Items) /\ Len(log') \in Nat
    BY <1>37, CompleteIsItem, AppendedFacts DEF EraseAppend
  <2> QED BY <1>37, <2>1 DEF EraseAppend
<1>38. CASE EraseZero
  <2>1. rec.key \in Keys
    BY <1>38 DEF EraseZero, Records
  <2>2. idx' \in Maps
    BY <1>38, <2>1, MapOperations DEF EraseZero, NullOffset
  <2> QED BY <1>38, <2>2 DEF EraseZero
<1>39. CASE EraseUnlink
  <2>1. rec.key \in Keys
    BY <1>39 DEF EraseUnlink, Records
  <2>2. idx' \in Maps
    BY <1>39, <2>1, MapOperations DEF EraseUnlink
  <2> QED BY <1>39, <2>2 DEF EraseUnlink
<1>40. CASE EraseCheckpoint
  BY <1>40 DEF EraseCheckpoint, set_indexed_up_to_offset
<1>41. CASE CloseMark
  BY <1>41 DEF CloseMark
<1>42. CASE Kill
  BY <1>42 DEF Kill
<1>43. CASE KillInAppend
  <2>1. log' \in Seq(Items)
    BY <1>43, FragmentIsItem, AppendedFacts DEF KillInAppend
  <2> QED BY <1>43, <2>1 DEF KillInAppend
<1>44. CASE FailAppend
  <2>1. log' \in Seq(Items)
    BY <1>44, FragmentIsItem, AppendedFacts DEF FailAppend
  <2> QED BY <1>44, <2>1 DEF FailAppend
<1>45. CASE FailIndexWrite
  BY <1>45 DEF FailIndexWrite
<1>46. CASE FailRebuild
  BY <1>46 DEF FailRebuild, Throw
<1>47. CASE FailReload
  BY <1>47 DEF FailReload, Throw
<1>48. CASE FailConstructor
  BY <1>48 DEF FailConstructor
<1>49. CASE FailClose
  BY <1>49 DEF FailClose
<1>50. CASE RemoveIndexFile
  BY <1>50 DEF RemoveIndexFile
<1>51. CASE DamageIndexFile
  BY <1>51 DEF DamageIndexFile
<1>52. CASE RemoveDbFile
  BY <1>52 DEF RemoveDbFile
<1>53. CASE UNCHANGED vars
  BY <1>53 DEF vars
<1> QED
  BY <1>1, <1>2, <1>3, <1>4, <1>5, <1>6, <1>7, <1>8, <1>9, <1>10, <1>11, <1>12, <1>13,
     <1>14, <1>15, <1>16, <1>17, <1>18, <1>19, <1>20, <1>21, <1>22, <1>23, <1>24, <1>25,
     <1>26, <1>27, <1>28, <1>29, <1>30, <1>31, <1>32, <1>33, <1>34, <1>35, <1>36, <1>37,
     <1>38, <1>39, <1>40, <1>41, <1>42, <1>43, <1>44, <1>45, <1>46, <1>47, <1>48, <1>49,
     <1>50, <1>51, <1>52, <1>53 DEF Next, Open, Call, Step, Crash, IOFail, Environment

(* Type correctness of the database, with crashes, failing file operations *)
(* and removed or damaged files: TypeOK is an invariant.                   *)
THEOREM TypeCorrect == Spec => []TypeOK
<1>1. Init => TypeOK
  BY FlagsInit, DataInit DEF TypeOK
<1>2. TypeOK /\ [Next]_vars => TypeOK'
  BY FlagsStep, DataStep DEF TypeOK
<1> QED BY <1>1, <1>2, PTL DEF Spec

-----------------------------------------------------------------------------
(* Lemmas about Represents.                                                *)

(* The empty index represents the empty prefix of any log. *)
LEMMA RepresentsNothing ==
    ASSUME NEW l
    PROVE  Represents(EmptyIndex, l, 0)
BY DEF Represents, EmptyIndex, NoEntry

(* Only the represented prefix of the log matters. *)
LEMMA RepresentsPrefix ==
    ASSUME NEW ix, NEW l, NEW m, NEW n \in Nat,
           Represents(ix, l, n),
           \A i \in 1 .. n : m[i] = l[i]
    PROVE  Represents(ix, m, n)
<1>1. ASSUME NEW k \in Keys, NEW i PROVE IsLatest(l, n, k, i) <=> IsLatest(m, n, k, i)
  BY DEF IsLatest
<1>2. ASSUME NEW k \in Keys, NEW i, IsLatest(l, n, k, i) PROVE m[i] = l[i]
  BY <1>2 DEF IsLatest
<1> QED BY <1>1, <1>2 DEF Represents

(* Applying the next record of the log brings the index one record further.*)
(* This is what a replay step, the index update of put() and the one of    *)
(* erase() have in common.                                                 *)
LEMMA RepresentsApply ==
    ASSUME NEW ix \in Maps, NEW l, NEW n \in Nat,
           Represents(ix, l, n),
           l[n + 1].key \in Keys, l[n + 1].type \in {"Put", "Delete"}
    PROVE  Represents(Apply(ix, l[n + 1], n + 1), l, n + 1)
<1> DEFINE jx == Apply(ix, l[n + 1], n + 1)
           last == l[n + 1].key
<1> SUFFICES ASSUME NEW k \in Keys
             PROVE  IF jx[k] = NoEntry
                    THEN \A i \in 1 .. (n + 1) : IsLatest(l, n + 1, k, i) => l[i].type = "Delete"
                    ELSE IsLatest(l, n + 1, k, jx[k]) /\ l[jx[k]].type = "Put"
  BY DEF Represents
<1>1. CASE k = last
  <2>1. IsLatest(l, n + 1, k, n + 1)
    BY <1>1 DEF IsLatest
  <2>2. ASSUME NEW i, IsLatest(l, n + 1, k, i) PROVE i = n + 1
    BY <1>1, <2>2 DEF IsLatest
  <2>3. jx[k] = IF l[n + 1].type = "Put" THEN n + 1 ELSE NoEntry
    BY <1>1 DEF Apply, index_set, index_unlink, Maps
  <2> QED BY <2>1, <2>2, <2>3 DEF NoEntry
<1>2. CASE k # last
  <2>1. jx[k] = ix[k]
    BY <1>2 DEF Apply, index_set, index_unlink, Maps
  <2>2. ASSUME NEW i PROVE IsLatest(l, n + 1, k, i) <=> IsLatest(l, n, k, i)
    BY <1>2 DEF IsLatest
  <2>3. IF ix[k] = NoEntry
        THEN \A i \in 1 .. n : IsLatest(l, n, k, i) => l[i].type = "Delete"
        ELSE IsLatest(l, n, k, ix[k]) /\ l[ix[k]].type = "Put"
    BY DEF Represents
  <2>4. ASSUME NEW i, IsLatest(l, n, k, i) PROVE i \in 1 .. n
    BY <2>4 DEF IsLatest
  <2> QED BY <2>1, <2>2, <2>3, <2>4
<1> QED BY <1>1, <1>2

-----------------------------------------------------------------------------
(* The inductive step, one action at a time.                               *)

(* Where the scan of recover_records() stops when only the tail can be     *)
(* torn: at the fragment, or at the end of the file.                       *)
LEMMA ScanStops ==
    ASSUME log \in Seq(Items), OnlyTheTailIsTorn
    PROVE  /\ TornTail => scan_records = Len(log) /\ Len(log) > 0
                           /\ read_record(scan_records) = "Truncated"
           /\ ~TornTail => read_record(scan_records) = "EndOfFile"
<1>1. CASE TornTail
  <2>1. FailingOffset(Len(log)) /\ Len(log) > 0
    BY <1>1 DEF TornTail, OnlyTheTailIsTorn, FailingOffset, read_record
  <2>2. ASSUME NEW o \in 1 .. (Len(log) + 1), FailingOffset(o) PROVE o = Len(log)
    BY <1>1, <2>1, <2>2 DEF TornTail, OnlyTheTailIsTorn, FailingOffset, read_record
  <2>3. scan_records = Len(log)
    BY <2>1, <2>2 DEF scan_records
  <2> QED BY <1>1, <2>1, <2>3 DEF FailingOffset, OnlyTheTailIsTorn, read_record
<1>2. CASE ~TornTail
  <2>1. FailingOffset(Len(log) + 1)
    BY <1>2 DEF TornTail, FailingOffset, read_record
  <2>2. ASSUME NEW o \in 1 .. (Len(log) + 1), FailingOffset(o) PROVE o = Len(log) + 1
    BY <1>2, <2>2 DEF TornTail, FailingOffset, read_record
  <2>3. scan_records = Len(log) + 1
    BY <2>1, <2>2 DEF scan_records
  <2> QED BY <1>2, <2>3 DEF read_record
<1> QED BY <1>1, <1>2

(* The invariant holds of a directory without a database ... *)
LEMMA InvInit == Init => IInv
<1> SUFFICES ASSUME Init PROVE IInv
  OBVIOUS
<1>1. TypeOK
  BY FlagsInit, DataInit DEF TypeOK
<1> QED
  BY <1>1 DEF Init, IInv, FilesMatchProgress, OnlyTheTailIsTorn, TornTail, DirtyWhileWriting,
     IndexInStep, InCall, CheckpointInStep, CleanIndexRepresentsLog, Writing

(* The steps of a process whose file operations do not fail. *)
Faultless == Open \/ Call \/ Step \/ Crash \/ Environment

(* ... and every action keeps it, if rebuilds start at the head of the log.*)
LEMMA InvStep ==
    ASSUME IInv, [Faultless]_vars, rebuild_index => RebuildStarts \subseteq {0}
    PROVE  IInv'
<1>0. TypeOK'
  BY FlagsStep, DataStep DEF IInv, TypeOK, Faultless, Next
<1> USE DEF IInv, TypeOK, DataOK, FilesMatchProgress, OnlyTheTailIsTorn, TornTail, DirtyWhileWriting,
        IndexInStep, InCall, CheckpointInStep, CleanIndexRepresentsLog, Writing, Offsets,
        index_metadata_clean, AllComplete,
        disk, handle, locals, Return, Gone, LocalsGone, HeaderSize, FileSize
<1>1. CASE OpenNew
  BY <1>0, <1>1 DEF OpenNew
<1>2. CASE OpenExisting
  BY <1>0, <1>2 DEF OpenExisting
<1>3. ASSUME NEW k \in Keys, NEW v \in Values, PutStart(k, v) PROVE IInv'
  BY <1>0, <1>3 DEF PutStart
<1>4. ASSUME NEW k \in Keys, NEW v \in Values, PutRejected(k, v) PROVE IInv'
  BY <1>0, <1>4 DEF PutRejected
<1>5. ASSUME NEW k \in Keys, EraseMissing(k) PROVE IInv'
  BY <1>0, <1>5 DEF EraseMissing
<1>6. ASSUME NEW k \in Keys, EraseStart(k) PROVE IInv'
  BY <1>0, <1>6 DEF EraseStart
<1>7. CASE rebuild_index
  <2>1. Represents(EmptyIndex, log, 0)
    BY RepresentsNothing
  <2>2. pc' = "replay" /\ tmp' = EmptyIndex /\ pos' = 1
    BY <1>7 DEF rebuild_index, StartRebuild
  <2>3. Represents(tmp', log', pos' - 1)
    BY <1>7, <2>1, <2>2 DEF rebuild_index
  <2> QED BY <1>0, <1>7, <2>2, <2>3 DEF rebuild_index, StartRebuild
<1>8. CASE recover_records
  BY <1>0, <1>8 DEF recover_records
<1>9. ASSUME NEW by \in {"close", "dtor"}, CloseStart(by) PROVE IInv'
  BY <1>0, <1>9 DEF CloseStart
<1>10. CASE CloseRefused
  BY <1>0, <1>10 DEF CloseRefused
<1>11. CASE DestroyUnclean
  BY <1>0, <1>11 DEF DestroyUnclean
<1>12. CASE NewIndexCreate
  BY <1>0, <1>12 DEF NewIndexCreate
<1>13. CASE NewIndexSetup
  BY <1>0, <1>13 DEF NewIndexSetup
<1>14. CASE NewIndexLoad
  BY <1>0, <1>14 DEF NewIndexLoad
<1>15. CASE NewIndexInvalid
  BY <1>0, <1>15 DEF NewIndexInvalid
<1>16. CASE NewIndexNotEmpty
  BY <1>0, <1>16 DEF NewIndexNotEmpty
<1>17. CASE NewDbCreate
  BY <1>0, <1>17 DEF NewDbCreate
<1>18. CASE NewDbSetup
  <2>1. Represents(idx, log, Len(log))
    BY <1>18, RepresentsNothing DEF NewDbSetup
  <2> QED BY <1>0, <1>18, <2>1 DEF NewDbSetup
<1>19. CASE NewCheckpoint
  <2>1. Represents(idx, log, Len(log))
    BY <1>19, RepresentsNothing DEF NewCheckpoint
  <2> QED BY <1>0, <1>19, <2>1 DEF NewCheckpoint, set_indexed_up_to_offset
<1>20. CASE LoadInvalidDb
  BY <1>0, <1>20 DEF LoadInvalidDb
<1>21. CASE LoadMissingIndex
  <2>1. Represents(EmptyIndex, log, 0)
    BY RepresentsNothing
  <2>2. pc' = "replay" /\ tmp' = EmptyIndex /\ pos' = 1
    BY <1>21 DEF LoadMissingIndex, StartRebuild
  <2>3. Represents(tmp', log', pos' - 1)
    BY <1>21, <2>1, <2>2 DEF LoadMissingIndex
  <2> QED BY <1>0, <1>21, <2>2, <2>3 DEF LoadMissingIndex, StartRebuild
<1>22. CASE LoadInvalidIndex
  <2>1. Represents(EmptyIndex, log, 0)
    BY RepresentsNothing
  <2>2. pc' = "replay" /\ tmp' = EmptyIndex /\ pos' = 1
    BY <1>22 DEF LoadInvalidIndex, StartRebuild
  <2>3. Represents(tmp', log', pos' - 1)
    BY <1>22, <2>1, <2>2 DEF LoadInvalidIndex
  <2> QED BY <1>0, <1>22, <2>2, <2>3 DEF LoadInvalidIndex, StartRebuild
<1>23. CASE LoadCleanIndex
  BY <1>0, <1>23 DEF LoadCleanIndex
<1>24. CASE LoadUncleanIndex
  BY <1>0, <1>24 DEF LoadUncleanIndex
<1>25. CASE MarkDirty
  BY <1>0, <1>25 DEF MarkDirty
<1>26. CASE RecoverWhole
  <2>1. Represents(EmptyIndex, log, 0)
    BY RepresentsNothing
  <2>2. pc' = "replay" /\ tmp' = EmptyIndex /\ pos' = 1 /\ caller' = caller
    BY <1>26 DEF RecoverWhole, StartRebuild
  <2>3. Represents(tmp', log', pos' - 1)
    BY <1>26, <2>1, <2>2 DEF RecoverWhole
  <2>4. ~TornTail
    BY <1>26, ScanStops DEF RecoverWhole
  <2> QED BY <1>0, <1>26, <2>2, <2>3, <2>4 DEF RecoverWhole, StartRebuild
<1>27. CASE RecoverTruncate
  <2>1. TornTail /\ scan_records = Len(log) /\ Len(log) > 0
    BY <1>27, ScanStops DEF RecoverTruncate, TruncatedBytes, resize_file
  <2>2. Len(log') = Len(log) - 1 /\ \A i \in 1 .. Len(log') : log'[i] = log[i]
    BY <1>27, <2>1 DEF RecoverTruncate, TruncatedBytes, resize_file
  <2>3. ~TornTail'
    BY <2>2
  <2>4. Represents(EmptyIndex, log', 0)
    BY RepresentsNothing
  <2>5. pc' = "replay" /\ tmp' = EmptyIndex /\ pos' = 1 /\ caller' = caller
    BY <1>27 DEF RecoverTruncate, TruncatedBytes, resize_file, StartRebuild
  <2>6. Represents(tmp', log', pos' - 1)
    BY <2>4, <2>5
  <2>7. caller # "api" /\ ~indexClean /\ dbFile = "ok"
    BY <1>27, <2>1 DEF RecoverTruncate, TruncatedBytes, resize_file
  <2> HIDE DEF TornTail
  <2> QED BY <1>0, <1>27, <2>2, <2>3, <2>5, <2>6, <2>7 DEF RecoverTruncate, TruncatedBytes, resize_file, StartRebuild
<1>28. CASE RecoverCorrupt
  BY <1>28, ScanStops DEF RecoverCorrupt
<1>29. CASE Replay
  <2>1. pos \in 1 .. Len(log) /\ log[pos] \in Items /\ log[pos].status = "Success"
    BY <1>29, ReadInside DEF Replay
  <2>2. log[pos].key \in Keys /\ log[pos].type \in {"Put", "Delete"}
    BY <2>1, SuccessIsComplete
  <2>3. (pos - 1) \in Nat /\ (pos - 1) + 1 = pos
    BY <2>1
  <2>4. Represents(Apply(tmp, log[pos], pos), log, pos)
    BY <1>29, <2>2, <2>3, RepresentsApply DEF Replay
  <2>5. Represents(tmp', log', pos' - 1) /\ pos' = pos + 1
    BY <1>29, <2>1, <2>4 DEF Replay
  <2> QED BY <1>0, <1>29, <2>1, <2>5 DEF Replay
<1>30. CASE ReplayCorrupt
  <2>1. pos \in 1 .. Len(log) /\ log[pos].status # "Success"
    BY <1>30, ReadInside DEF ReplayCorrupt
  <2>2. caller # "api"
    BY <2>1
  <2> QED BY <1>0, <1>30, <2>2 DEF ReplayCorrupt, Throw
<1>31. CASE Install
  <2>1. pos = Len(log) + 1
    BY <1>31, DatabaseAssumption DEF Install, read_record
  <2>2. Represents(tmp, log, Len(log)) /\ ~TornTail
    BY <1>31, <2>1 DEF Install
  <2> QED BY <1>0, <1>31, <2>2 DEF Install
<1>32. CASE RebuildCheckpointInCall
  BY <1>0, <1>32 DEF RebuildCheckpointInCall, set_indexed_up_to_offset
<1>33. CASE RebuildCheckpointInConstructor
  BY <1>0, <1>33 DEF RebuildCheckpointInConstructor, set_indexed_up_to_offset
<1>34. CASE PutAppend
  <2>1. rec \in Records /\ ~TornTail /\ dbFile = "ok" /\ ~indexClean
    BY <1>34 DEF PutAppend
  <2>2. /\ Len(log') = Len(log) + 1
        /\ log'[Len(log')] = Complete(rec)
        /\ \A i \in 1 .. Len(log) : log'[i] = log[i]
    BY <1>34, <2>1, CompleteIsItem, AppendedFacts DEF PutAppend
  <2>3. Represents(idx, log', Len(log') - 1)
    BY <1>34, <2>2, RepresentsPrefix DEF PutAppend
  <2>4. ~TornTail'
    BY <2>1, <2>2 DEF Complete
  <2> QED BY <1>0, <1>34, <2>1, <2>2, <2>3, <2>4 DEF PutAppend
<1>35. CASE PutIndex
  <2>1. rec.key \in Keys /\ Len(log) > 0 /\ ~TornTail
    BY <1>35 DEF PutIndex, Records
  <2>2. log[Len(log)].key = rec.key /\ log[Len(log)].type = "Put"
    BY <1>35 DEF PutIndex, Complete
  <2>3. (Len(log) - 1) \in Nat /\ (Len(log) - 1) + 1 = Len(log)
    BY <2>1
  <2>4. Represents(Apply(idx, log[Len(log)], Len(log)), log, Len(log))
    BY <1>35, <2>1, <2>2, <2>3, RepresentsApply DEF PutIndex
  <2>5. Represents(idx', log, Len(log))
    BY <1>35, <2>2, <2>4 DEF PutIndex, Apply
  <2> QED BY <1>0, <1>35, <2>1, <2>5 DEF PutIndex
<1>36. CASE PutCheckpoint
  BY <1>0, <1>36 DEF PutCheckpoint, set_indexed_up_to_offset
<1>37. CASE EraseAppend
  <2>1. rec \in Records /\ ~TornTail /\ dbFile = "ok" /\ ~indexClean
    BY <1>37 DEF EraseAppend
  <2>2. /\ Len(log') = Len(log) + 1
        /\ log'[Len(log')] = Complete(rec)
        /\ \A i \in 1 .. Len(log) : log'[i] = log[i]
    BY <1>37, <2>1, CompleteIsItem, AppendedFacts DEF EraseAppend
  <2>3. Represents(idx, log', Len(log') - 1)
    BY <1>37, <2>2, RepresentsPrefix DEF EraseAppend
  <2>4. ~TornTail'
    BY <2>1, <2>2 DEF Complete
  <2> QED BY <1>0, <1>37, <2>1, <2>2, <2>3, <2>4 DEF EraseAppend
<1>38. CASE EraseZero
  <2>1. rec.key \in Keys /\ Len(log) > 0 /\ ~TornTail
    BY <1>38 DEF EraseZero, Records
  <2>2. log[Len(log)].key = rec.key /\ log[Len(log)].type = "Delete"
    BY <1>38 DEF EraseZero, Complete
  <2>3. (Len(log) - 1) \in Nat /\ (Len(log) - 1) + 1 = Len(log)
    BY <2>1
  <2>4. Represents(Apply(idx, log[Len(log)], Len(log)), log, Len(log))
    <3> DEFINE n == Len(log) - 1
    <3>1. idx \in Maps /\ Represents(idx, log, n)
      BY <1>38 DEF EraseZero
    <3>2. n \in Nat /\ log[n + 1].key \in Keys /\ log[n + 1].type \in {"Put", "Delete"}
      BY <2>1, <2>2, <2>3
    <3> HIDE DEF n
    <3>3. Represents(Apply(idx, log[n + 1], n + 1), log, n + 1)
      BY ONLY <3>1, <3>2, RepresentsApply
    <3> QED BY <2>3, <3>3 DEF n
  <2>5. index_unlink(idx', rec.key) = Apply(idx, log[Len(log)], Len(log))
    BY <1>38, <2>1, <2>2 DEF EraseZero, Apply, index_set, index_unlink, Maps
  <2>6. Represents(index_unlink(idx', rec.key), log, Len(log))
    BY <2>4, <2>5
  <2> QED BY <1>0, <1>38, <2>1, <2>6 DEF EraseZero
<1>39. CASE EraseUnlink
  BY <1>0, <1>39 DEF EraseUnlink
<1>40. CASE EraseCheckpoint
  BY <1>0, <1>40 DEF EraseCheckpoint, set_indexed_up_to_offset
<1>41. CASE CloseMark
  BY <1>0, <1>41 DEF CloseMark
<1>42. CASE Kill
  BY <1>0, <1>42 DEF Kill
<1>43. CASE KillInAppend
  <2>1. ~TornTail /\ dbFile = "ok" /\ ~indexClean
    BY <1>43 DEF KillInAppend
  <2>2. /\ Len(log') = Len(log) + 1
        /\ log'[Len(log')] = Fragment
        /\ \A i \in 1 .. Len(log) : log'[i] = log[i]
    BY <1>43, <2>1, FragmentIsItem, AppendedFacts DEF KillInAppend
  <2> QED BY <1>0, <1>43, <2>1, <2>2 DEF KillInAppend, Fragment
<1>44. CASE RemoveIndexFile
  BY <1>0, <1>44 DEF RemoveIndexFile
<1>45. CASE DamageIndexFile
  BY <1>0, <1>45 DEF DamageIndexFile
<1>46. CASE RemoveDbFile
  BY <1>0, <1>46 DEF RemoveDbFile
<1>47. CASE UNCHANGED vars
  BY <1>0, <1>47 DEF vars
<1> QED
  BY <1>1, <1>2, <1>3, <1>4, <1>5, <1>6, <1>7, <1>8, <1>9, <1>10, <1>11, <1>12, <1>13,
     <1>14, <1>15, <1>16, <1>17, <1>18, <1>19, <1>20, <1>21, <1>22, <1>23, <1>24,
     <1>25, <1>26, <1>27, <1>28, <1>29, <1>30, <1>31, <1>32, <1>33, <1>34, <1>35,
     <1>36, <1>37, <1>38, <1>39, <1>40, <1>41, <1>42, <1>43, <1>44, <1>45, <1>46,
     <1>47
     DEF Faultless, Open, Call, Step, Crash, Environment

-----------------------------------------------------------------------------
(* The results.                                                            *)

(* IInv is an invariant of every behaviour in which the process may be     *)
(* killed at any step, cut an append short, and find its files removed or  *)
(* damaged when it comes back.                                             *)
THEOREM InductiveInvariant ==
    ASSUME ~IOFaults, RebuildStarts \subseteq {0}
    PROVE  Spec => []IInv
<1>1. Init => IInv
  BY InvInit
<1>2. [Next]_vars => [Faultless]_vars
  BY DEF Next, Faultless, IOFail, FailAppend, FailIndexWrite, FailRebuild, FailReload,
     FailConstructor, FailClose
<1>3. IInv /\ [Next]_vars => IInv'
  BY <1>2, InvStep
<1> QED BY <1>1, <1>3, PTL DEF Spec

(* An index whose header lets the constructor skip recovery represents the *)
(* complete data log: what the comment in close() promises.                *)
THEOREM CleanIndexIsTrustworthy ==
    ASSUME ~IOFaults, RebuildStarts \subseteq {0}
    PROVE  Spec => []CleanIndexRepresentsLog
<1>1. IInv => CleanIndexRepresentsLog
  BY DEF IInv
<1> QED BY <1>1, InductiveInvariant, PTL

(* While the client can call, indexed_up_to_offset is the end of a prefix  *)
(* of the log that the index represents exactly.                           *)
THEOREM CheckpointIsCorrect ==
    ASSUME ~IOFaults, RebuildStarts \subseteq {0}
    PROVE  Spec => []CheckpointIsTrue
<1>1. IInv => CheckpointIsTrue
  BY DEF IInv, TypeOK, DataOK, IndexInStep, CheckpointInStep, CheckpointIsTrue, FileSize, HeaderSize
<1> QED BY <1>1, InductiveInvariant, PTL

(* No step removes or changes a complete record: the log is append-only    *)
(* except for the fragment that recovery cuts off.                         *)
THEOREM CompleteRecordsSurvive ==
    ASSUME ~IOFaults, RebuildStarts \subseteq {0}
    PROVE  Spec => CompleteRecordsAreKept
<1> DEFINE Kept == dbFile' = "ok" /\ dbFile = "ok" =>
                     \A i \in 1 .. Len(log) :
                        log[i].status = "Success" => i <= Len(log') /\ log'[i] = log[i]
<1>1. ASSUME IInv, [Next]_vars PROVE Kept
  <2> USE DEF IInv, TypeOK, DataOK, disk
  <2>1. CASE log' = log
    BY <1>1, <2>1
  <2>2. CASE RecoverTruncate
    <3>1. TornTail /\ scan_records = Len(log) /\ Len(log) > 0
      BY <1>1, <2>2, ScanStops DEF RecoverTruncate, TruncatedBytes, resize_file
    <3>2. log[Len(log)].status # "Success"
      BY <1>1, <3>1 DEF TornTail, OnlyTheTailIsTorn
    <3>3. Len(log') = Len(log) - 1 /\ \A i \in 1 .. Len(log') : log'[i] = log[i]
      BY <1>1, <2>2, <3>1 DEF RecoverTruncate, TruncatedBytes, resize_file
    <3> QED BY <1>1, <3>2, <3>3
  <2>3. CASE PutAppend \/ EraseAppend
    BY <1>1, <2>3, CompleteIsItem, AppendedFacts DEF PutAppend, EraseAppend
  <2>4. CASE KillInAppend
    BY <1>1, <2>4, FragmentIsItem, AppendedFacts DEF KillInAppend
  <2>5. CASE NewDbCreate \/ RemoveDbFile
    BY <1>1, <2>5 DEF NewDbCreate, RemoveDbFile
  <2>6. CASE IOFail
    BY <2>6 DEF IOFail, FailAppend, FailIndexWrite, FailRebuild, FailReload, FailConstructor,
       FailClose
  <2>7. \/ log' = log \/ RecoverTruncate \/ PutAppend \/ EraseAppend \/ KillInAppend
        \/ NewDbCreate \/ RemoveDbFile \/ IOFail
    BY <1>1 DEF vars, Next,
       disk, Open, Call, Step, Crash, Environment, OpenNew, OpenExisting, PutStart,
       PutRejected, EraseMissing, EraseStart, rebuild_index, recover_records,
       CloseStart, CloseRefused, DestroyUnclean, NewIndexCreate, NewIndexSetup,
       NewIndexLoad, NewIndexInvalid, NewIndexNotEmpty, NewDbSetup, NewCheckpoint,
       LoadInvalidDb, LoadMissingIndex, LoadInvalidIndex, LoadCleanIndex,
       LoadUncleanIndex, MarkDirty, RecoverWhole, RecoverCorrupt, Replay,
       ReplayCorrupt, Install, RebuildCheckpointInCall, RebuildCheckpointInConstructor,
       PutIndex, PutCheckpoint, EraseZero, EraseUnlink, EraseCheckpoint, CloseMark,
       Kill, RemoveIndexFile, DamageIndexFile
  <2> QED BY <2>1, <2>2, <2>3, <2>4, <2>5, <2>6, <2>7
<1> HIDE DEF Kept
<1>2. IInv /\ [Next]_vars => [Kept]_vars
  BY <1>1
<1>3. Spec => [][Kept]_vars
  BY <1>2, InductiveInvariant, PTL DEF Spec
<1> QED BY <1>3 DEF CompleteRecordsAreKept, Kept

(* The constructor refuses a database only for the reasons listed in       *)
(* Unopenable.                                                             *)
THEOREM RefusalsAreJustified ==
    ASSUME ~IOFaults, RebuildStarts \subseteq {0}
    PROVE  Spec => []RefusalIsJustified
<1>1. Init => RefusalIsJustified
  BY DEF Init, RefusalIsJustified
<1>2. ASSUME IInv, RefusalIsJustified, [Next]_vars PROVE RefusalIsJustified'
  <2> USE DEF IInv, RefusalIsJustified, Unopenable, TornTail, disk, handle, locals, Return, Gone
  <2>1. CASE Open
    BY <1>2, <2>1 DEF
       Open, OpenNew, OpenExisting
  <2>2. CASE Call
    BY <1>2, <2>2 DEF
       Call, PutStart, PutRejected, EraseMissing, EraseStart, rebuild_index,
       recover_records, CloseStart, CloseRefused, DestroyUnclean, StartRebuild
  <2>3. CASE Step
    <3>1. CASE NewIndexInvalid \/ NewIndexNotEmpty \/ LoadInvalidDb
      BY <1>2, <3>1 DEF NewIndexInvalid, NewIndexNotEmpty, LoadInvalidDb, FilesMatchProgress
    <3>2. CASE RecoverCorrupt
      BY <1>2, <3>2, ScanStops DEF RecoverCorrupt, TypeOK, DataOK
    <3>3. CASE ReplayCorrupt
      <4>1. pos \in 1 .. Len(log) /\ log[pos].status # "Success"
        BY <1>2, <3>3, ReadInside DEF ReplayCorrupt, TypeOK, DataOK
      <4>2. TornTail /\ idxFile # "ok" /\ dbFile = "ok"
        BY <1>2, <3>3, <4>1 DEF ReplayCorrupt, OnlyTheTailIsTorn, FilesMatchProgress
      <4> QED BY <1>2, <3>3, <4>1, <4>2 DEF ReplayCorrupt, Throw
    <3>4. CASE
          \/ NewIndexCreate \/ NewIndexSetup \/ NewIndexLoad \/ NewDbCreate
          \/ NewDbSetup \/ NewCheckpoint \/ LoadMissingIndex \/ LoadInvalidIndex
          \/ LoadCleanIndex \/ LoadUncleanIndex \/ MarkDirty \/ RecoverWhole
          \/ RecoverTruncate \/ Replay \/ Install \/ RebuildCheckpointInCall
          \/ RebuildCheckpointInConstructor \/ PutAppend \/ PutIndex \/ PutCheckpoint
          \/ EraseAppend \/ EraseZero \/ EraseUnlink \/ EraseCheckpoint \/ CloseMark
      BY <1>2, <3>4 DEF
         NewIndexCreate, NewIndexSetup, NewIndexLoad, NewDbCreate, NewDbSetup,
         NewCheckpoint, LoadMissingIndex, LoadInvalidIndex, LoadCleanIndex,
         LoadUncleanIndex, MarkDirty, RecoverWhole, RecoverTruncate, Replay, Install,
         RebuildCheckpointInCall, RebuildCheckpointInConstructor, PutAppend, PutIndex,
         PutCheckpoint, EraseAppend, EraseZero, EraseUnlink, EraseCheckpoint,
         CloseMark, set_indexed_up_to_offset, StartRebuild
    <3> QED BY <2>3, <3>1, <3>2, <3>3, <3>4 DEF Step
  <2>4. CASE Crash
    BY <1>2, <2>4 DEF
       Crash, Kill, KillInAppend
  <2>5. CASE IOFail
    BY <1>2, <2>5 DEF
       IOFail, FailAppend, FailIndexWrite, FailRebuild, FailReload, FailConstructor,
       FailClose, Throw
  <2>6. CASE Environment
    BY <1>2, <2>6 DEF
       Environment, RemoveIndexFile, DamageIndexFile, RemoveDbFile
  <2>7. CASE UNCHANGED vars
    BY <1>2, <2>7 DEF vars
  <2> QED BY <1>2, <2>1, <2>2, <2>3, <2>4, <2>5, <2>6, <2>7 DEF Next
<1>3. IInv /\ RefusalIsJustified /\ [Next]_vars => RefusalIsJustified'
  BY <1>2
<1> QED BY <1>1, <1>3, InductiveInvariant, PTL DEF Spec

(* A session that was not closed is noticed by the next one, whatever      *)
(* crashes, failing file operations or file removals lie between: no       *)
(* assumption is made.                                                     *)
THEOREM UnfinishedSessionsAreRecovered == Spec => []UnfinishedSessionIsRecovered
<1>1. Init => UnfinishedInv
  BY DEF Init, UnfinishedInv, UnfinishedSessionIsRecovered, Writing
<1>2. ASSUME UnfinishedInv, [Next]_vars PROVE UnfinishedInv'
  <2> USE DEF UnfinishedInv, UnfinishedSessionIsRecovered, Writing, disk, handle, locals,
          Return, Gone
  <2>1. CASE Open
    BY <1>2, <2>1 DEF
       Open, OpenNew, OpenExisting
  <2>2. CASE Call
    BY <1>2, <2>2 DEF
       Call, PutStart, PutRejected, EraseMissing, EraseStart, rebuild_index,
       recover_records, CloseStart, CloseRefused, DestroyUnclean, StartRebuild
  <2>3. CASE Step
    <3>1. CASE MarkDirty \/ CloseMark
      BY <1>2, <3>1 DEF MarkDirty, CloseMark
    <3>2. CASE LoadCleanIndex
      BY <1>2, <3>2 DEF LoadCleanIndex, index_metadata_clean
    <3>3. CASE RebuildCheckpointInConstructor
      BY <1>2, <3>3 DEF RebuildCheckpointInConstructor
    <3>4. CASE NewDbCreate \/ NewDbSetup \/ NewCheckpoint
      BY <1>2, <3>4 DEF NewDbCreate, NewDbSetup, NewCheckpoint
    <3>5. CASE
          \/ NewIndexCreate \/ NewIndexSetup \/ NewIndexLoad \/ NewIndexInvalid
          \/ NewIndexNotEmpty \/ LoadInvalidDb \/ LoadMissingIndex \/ LoadInvalidIndex
          \/ LoadUncleanIndex \/ RecoverWhole \/ RecoverTruncate \/ RecoverCorrupt
          \/ Replay \/ ReplayCorrupt \/ Install \/ RebuildCheckpointInCall \/ PutAppend
          \/ PutIndex \/ PutCheckpoint \/ EraseAppend \/ EraseZero \/ EraseUnlink
          \/ EraseCheckpoint
      BY <1>2, <3>5 DEF
         NewIndexCreate, NewIndexSetup, NewIndexLoad, NewIndexInvalid,
         NewIndexNotEmpty, LoadInvalidDb, LoadMissingIndex, LoadInvalidIndex,
         LoadUncleanIndex, RecoverWhole, RecoverTruncate, RecoverCorrupt, Replay,
         ReplayCorrupt, Install, RebuildCheckpointInCall, PutAppend, PutIndex,
         PutCheckpoint, EraseAppend, EraseZero, EraseUnlink, EraseCheckpoint,
         set_indexed_up_to_offset, StartRebuild, Throw
    <3> QED BY <2>3, <3>1, <3>2, <3>3, <3>4, <3>5 DEF Step
  <2>4. CASE Crash
    BY <1>2, <2>4 DEF
       Crash, Kill, KillInAppend
  <2>5. CASE IOFail
    BY <1>2, <2>5 DEF
       IOFail, FailAppend, FailIndexWrite, FailRebuild, FailReload, FailConstructor,
       FailClose, Throw
  <2>6. CASE Environment
    BY <1>2, <2>6 DEF
       Environment, RemoveIndexFile, DamageIndexFile, RemoveDbFile
  <2>7. CASE UNCHANGED vars
    BY <1>2, <2>7 DEF vars
  <2> QED BY <1>2, <2>1, <2>2, <2>3, <2>4, <2>5, <2>6, <2>7 DEF Next
<1>3. UnfinishedInv /\ [Next]_vars => UnfinishedInv'
  BY <1>2
<1>4. UnfinishedInv => UnfinishedSessionIsRecovered
  BY DEF UnfinishedInv
<1> QED BY <1>1, <1>3, <1>4, PTL DEF Spec

(* Only put() and erase() themselves reach the labels that WriteInv is     *)
(* about.                                                                  *)
LEMMA WriteStep == TypeOK /\ WriteInv /\ [Next]_vars => WriteInv'
<1> SUFFICES ASSUME TypeOK, WriteInv, [Next]_vars PROVE WriteInv'
  OBVIOUS
<1> USE DEF WriteInv
<1>1. ASSUME NEW k \in Keys, NEW v \in Values, PutStart(k, v) PROVE WriteInv'
  BY <1>1 DEF PutStart
<1>2. CASE PutAppend
  <2>1. log \in Seq(Items) /\ Complete(rec) \in Items
    BY <1>2, CompleteIsItem DEF PutAppend, TypeOK, DataOK
  <2>2. /\ Len(log') = Len(log) + 1 /\ Len(log) \in Nat
        /\ log'[Len(log) + 1] = Complete(rec)
    BY <1>2, <2>1, AppendedFacts DEF PutAppend
  <2> QED
    BY <1>2, <2>2 DEF PutAppend, FileSize, HeaderSize
<1>3. CASE PutIndex
  <2>1. rec.key \in Keys /\ idx \in Maps
    BY <1>3 DEF PutIndex, TypeOK, DataOK, Records
  <2>2. idx'[rec.key] = startOffset
    BY <1>3, <2>1 DEF PutIndex, index_set, Maps
  <2> QED
    BY <1>3, <2>2 DEF PutIndex, locals
<1>4. CASE EraseUnlink
  <2>1. rec.key \in Keys /\ idx \in Maps
    BY <1>4 DEF EraseUnlink, TypeOK, DataOK, Records
  <2>2. idx'[rec.key] = NoEntry
    BY <1>4, <2>1 DEF EraseUnlink, index_unlink, Maps
  <2> QED
    BY <1>4, <2>2 DEF EraseUnlink, locals
<1>5. CASE pc' \notin {"put_append", "put_index", "put_checkpoint", "erase_checkpoint"}
  BY <1>5
<1>6. CASE UNCHANGED <<disk, locals, pc>>
  BY <1>6 DEF disk, locals
<1>7. \/ \E k \in Keys, v \in Values : PutStart(k, v)
      \/ PutAppend \/ PutIndex \/ EraseUnlink \/ UNCHANGED <<disk, locals, pc>>
      \/ pc' \notin {"put_append", "put_index", "put_checkpoint", "erase_checkpoint"}
  <2>1. CASE Open \/ Call
    BY <2>1 DEF Open, OpenNew, OpenExisting, Call, PutRejected, EraseMissing, EraseStart,
       rebuild_index, recover_records, CloseStart, CloseRefused, DestroyUnclean, StartRebuild, Gone
  <2>2. CASE Step
    BY <2>2 DEF Step, Return, Gone, StartRebuild, Throw,
       NewIndexCreate, NewIndexSetup, NewIndexLoad, NewIndexInvalid, NewIndexNotEmpty, NewDbCreate,
       NewDbSetup, NewCheckpoint, LoadInvalidDb, LoadMissingIndex, LoadInvalidIndex,
       LoadCleanIndex, LoadUncleanIndex, MarkDirty, RecoverWhole, RecoverTruncate,
       RecoverCorrupt, Replay, ReplayCorrupt, Install, RebuildCheckpointInCall,
       RebuildCheckpointInConstructor, PutCheckpoint, EraseAppend, EraseZero, EraseCheckpoint,
       CloseMark
  <2>3. CASE Crash \/ IOFail \/ Environment
    BY <2>3 DEF Crash, Kill, KillInAppend, IOFail, FailAppend, FailIndexWrite, FailRebuild,
       FailReload, FailConstructor, FailClose, Environment, RemoveIndexFile, DamageIndexFile,
       RemoveDbFile, Return, Gone, Throw
  <2>4. CASE UNCHANGED vars
    BY <2>4 DEF vars
  <2> QED
    BY <2>1, <2>2, <2>3, <2>4 DEF Next
<1> QED
  BY <1>1, <1>2, <1>3, <1>4, <1>5, <1>6, <1>7

(* A put() or erase() that is about to return is what get() answers, with  *)
(* failing file operations, fragments in the log and rebuilds from any     *)
(* offset before it: no assumption is made.                                *)
THEOREM AcknowledgedWritesAreVisible == Spec => []AcknowledgedWriteIsVisible
<1>1. Init => WriteInv
  BY DEF Init, WriteInv
<1>2. TypeOK /\ WriteInv => AcknowledgedWriteIsVisible
  <2> SUFFICES ASSUME TypeOK, WriteInv PROVE AcknowledgedWriteIsVisible
    OBVIOUS
  <2>1. ASSUME pc = "put_checkpoint" PROVE get(rec.key) = rec.value
    <3>1. idx[rec.key] \in 1 .. Len(log) /\ log[idx[rec.key]] = Complete(rec) /\ rec.type = "Put"
      BY <2>1 DEF WriteInv
    <3>2. idx[rec.key] # NoEntry /\ read_record(idx[rec.key]) = "Success"
      BY <3>1 DEF NoEntry, read_record, Complete
    <3> QED
      BY <3>1, <3>2 DEF get, Complete
  <2>2. ASSUME pc = "erase_checkpoint" PROVE get(rec.key) = Absent
    BY <2>2 DEF WriteInv, get
  <2> QED
    BY <2>1, <2>2 DEF AcknowledgedWriteIsVisible
<1> QED
  BY <1>1, <1>2, WriteStep, TypeCorrect, PTL DEF Spec

(* The rebuild of a constructor brings its index one record further with   *)
(* each step, whatever state the files are in.                             *)
LEMMA RecoveryStep == TypeOK /\ RecoveryInv /\ [Next]_vars => RecoveryInv'
<1> SUFFICES ASSUME TypeOK, RecoveryInv, [Next]_vars PROVE RecoveryInv'
  OBVIOUS
<1> USE DEF RecoveryInv, RecoveredIndexIsExact, Reasons, handle, locals, disk
<1>1. CASE LoadMissingIndex \/ LoadInvalidIndex \/ RecoverWhole \/ RecoverTruncate
  <2>1. pc' = "replay" /\ tmp' = EmptyIndex /\ pos' = 1
    BY <1>1 DEF LoadMissingIndex, LoadInvalidIndex, RecoverWhole, RecoverTruncate, StartRebuild,
       HeaderSize
  <2>2. Represents(tmp', log', 0)
    BY <2>1, RepresentsNothing
  <2>3. Len(log') \in Nat
    BY DataStep DEF TypeOK, DataOK
  <2> QED
    BY <2>1, <2>2, <2>3
<1>2. CASE Replay
  <2> SUFFICES ASSUME caller \in Reasons PROVE RecoveryInv'
    BY <1>2 DEF Replay
  <2>1. pos \in 1 .. Len(log) /\ log[pos] \in Items /\ log[pos].status = "Success"
    BY <1>2, ReadInside DEF Replay, TypeOK, DataOK
  <2>2. log[pos].key \in Keys /\ log[pos].type \in {"Put", "Delete"}
    BY <2>1, SuccessIsComplete
  <2> DEFINE n == pos - 1
  <2>3. n \in Nat /\ n + 1 = pos /\ tmp \in Maps /\ Represents(tmp, log, n)
    BY <1>2, <2>1 DEF Replay, TypeOK, DataOK
  <2> HIDE DEF n
  <2>4. Represents(Apply(tmp, log[n + 1], n + 1), log, n + 1)
    BY ONLY <2>2, <2>3, RepresentsApply
  <2>5. Represents(tmp', log', pos' - 1) /\ pos' = pos + 1
    BY <1>2, <2>1, <2>3, <2>4 DEF Replay
  <2> QED
    BY <1>2, <2>1, <2>5 DEF Replay
<1>3. CASE Install
  <2>1. pc' = "rebuild_checkpoint" /\ UNCHANGED <<log, caller>> /\ idx' = tmp
    BY <1>3 DEF Install
  <2>2. ASSUME caller \in Reasons
        PROVE  AllComplete(log) /\ Represents(tmp, log, Len(log))
    <3>1. pos = Len(log) + 1
      BY <1>3, <2>2, EndIsOutside DEF Install, TypeOK, DataOK
    <3>2. Len(log) \in Nat
      BY DEF TypeOK, DataOK
    <3>3. pos - 1 = Len(log)
      BY <3>1, <3>2
    <3> QED
      BY <1>3, <2>2, <3>3 DEF Install, AllComplete
  <2> QED
    BY <2>1, <2>2 DEF AllComplete
<1>4. CASE RebuildCheckpointInConstructor
  BY <1>4 DEF RebuildCheckpointInConstructor, TypeOK, DataOK
<1>5. CASE OpenNew \/ OpenExisting \/ NewIndexCreate \/ NewIndexSetup \/ NewIndexLoad \/ NewDbCreate
           \/ NewDbSetup \/ NewCheckpoint \/ LoadCleanIndex \/ LoadUncleanIndex
  BY <1>5 DEF OpenNew, OpenExisting, NewIndexCreate, NewIndexSetup, NewIndexLoad, NewDbCreate,
     NewDbSetup, NewCheckpoint, LoadCleanIndex, LoadUncleanIndex, NoReport
<1>6. CASE UNCHANGED vars
  BY <1>6 DEF vars
<1>7. CASE rebuild_index
  BY <1>7 DEF rebuild_index, StartRebuild
<1>8. CASE pc' = "none" /\ report' = NoReport
  BY <1>8
<1>9. CASE pc' \in {"idle", "recover", "close_mark", "put_append", "put_index", "put_checkpoint",
                   "erase_append", "erase_zero", "erase_unlink", "erase_checkpoint"}
  BY <1>9
<1>10. CASE Call
  BY <1>7, <1>8, <1>9, <1>10 DEF Call, PutStart, PutRejected, EraseMissing, EraseStart, rebuild_index,
     StartRebuild, recover_records, CloseStart, CloseRefused, DestroyUnclean, Gone
<1>11. CASE Step
  BY <1>1, <1>2, <1>3, <1>4, <1>5, <1>8, <1>9, <1>11
     DEF Step, NewIndexInvalid, NewIndexNotEmpty, LoadInvalidDb, MarkDirty, RecoverCorrupt,
     ReplayCorrupt, RebuildCheckpointInCall, PutAppend, PutIndex, PutCheckpoint,
     EraseAppend, EraseZero, EraseUnlink, EraseCheckpoint, CloseMark, Return, Gone, Throw
<1>12. CASE Crash \/ IOFail
  BY <1>8, <1>9, <1>12 DEF Crash, Kill, KillInAppend, IOFail, FailAppend, FailIndexWrite, FailRebuild,
     FailReload, FailConstructor, FailClose, Return, Gone, Throw
<1>13. CASE Environment
  BY <1>8, <1>13 DEF Environment, RemoveIndexFile, DamageIndexFile, RemoveDbFile
<1> QED
  BY <1>5, <1>6, <1>10, <1>11, <1>12, <1>13 DEF Next, Open

(* Recovery in the constructor ends with an exact index and a log without  *)
(* fragments, also after file operations failed and after rebuilds that    *)
(* left out the head of the log: no assumption is made.                    *)
THEOREM RecoveryIsExact == Spec => []RecoveredIndexIsExact
<1>1. Init => RecoveryInv
  BY DEF Init, RecoveryInv, RecoveredIndexIsExact
<1>2. RecoveryInv => RecoveredIndexIsExact
  BY DEF RecoveryInv
<1> QED
  BY <1>1, <1>2, RecoveryStep, TypeCorrect, PTL DEF Spec

-----------------------------------------------------------------------------
(* Acknowledged writes.                                                    *)

(* No step moves a complete record: it stays where it is, or it is cut off *)
(* with all that follows it.                                               *)
LEMMA RecordsStayInPlace ==
    ASSUME TypeOK, [Next]_vars
    PROVE  /\ Len(log) \in Nat /\ Len(log') \in Nat
           /\ \A i \in 1 .. Len(log) :
                log[i].status = "Success" /\ i <= Len(log') => log'[i] = log[i]
<1> USE DEF TypeOK, DataOK, disk
<1>1. log \in Seq(Items) /\ log' \in Seq(Items)
  BY DataStep
<1>2. CASE log' = log
  BY <1>1, <1>2
<1>3. CASE RecoverTruncate
  <2>1. scan_records \in 1 .. Len(log)
    BY <1>1, <1>3, ReadInside DEF RecoverTruncate
  <2>2. log' = SubSeq(log, 1, scan_records - 1)
    BY <1>3 DEF RecoverTruncate, resize_file
  <2> HIDE DEF scan_records
  <2>3. \A i \in 1 .. Len(log') : log'[i] = log[i]
    BY <1>1, <2>1, <2>2
  <2> QED
    BY <1>1, <2>3
<1>4. ASSUME NEW item \in Items, log' \in Appended(item)
      PROVE  \A i \in 1 .. Len(log) : log[i].status = "Success" => log'[i] = log[i]
  BY <1>1, <1>4, AppendedFacts
<1>5. CASE PutAppend \/ EraseAppend
  BY <1>1, <1>4, <1>5, CompleteIsItem DEF PutAppend, EraseAppend
<1>6. CASE KillInAppend \/ FailAppend
  BY <1>1, <1>2, <1>4, <1>6, FragmentIsItem DEF KillInAppend, FailAppend
<1>7. CASE NewDbCreate \/ RemoveDbFile
  BY <1>1, <1>7 DEF NewDbCreate, RemoveDbFile
<1>8. \/ log' = log \/ RecoverTruncate \/ PutAppend \/ EraseAppend \/ KillInAppend
      \/ FailAppend \/ NewDbCreate \/ RemoveDbFile
  BY DEF vars, Next,
     Open, Call, Step, Crash, Environment, OpenNew, OpenExisting, PutStart,
     PutRejected, EraseMissing, EraseStart, rebuild_index, recover_records,
     CloseStart, CloseRefused, DestroyUnclean, NewIndexCreate, NewIndexSetup,
     NewIndexLoad, NewIndexInvalid, NewIndexNotEmpty, NewDbSetup, NewCheckpoint,
     LoadInvalidDb, LoadMissingIndex, LoadInvalidIndex, LoadCleanIndex,
     LoadUncleanIndex, MarkDirty, RecoverWhole, RecoverCorrupt, Replay,
     ReplayCorrupt, Install, RebuildCheckpointInCall, RebuildCheckpointInConstructor,
     PutIndex, PutCheckpoint, EraseZero, EraseUnlink, EraseCheckpoint, CloseMark,
     Kill, RemoveIndexFile, DamageIndexFile, IOFail, FailIndexWrite, FailRebuild, FailReload,
     FailConstructor, FailClose
<1> QED
  BY <1>1, <1>2, <1>3, <1>5, <1>6, <1>7, <1>8

(* Nothing comes between the append of a call and its end. *)
LEMMA LastRecordStep ==
    ASSUME TypeOK, EntriesInv, [Next]_vars
    PROVE  RecordIsLast'
<1> USE DEF EntriesInv, RecordIsLast, disk, locals, FileSize
<1>1. CASE PutAppend \/ EraseAppend
  <2>1. log \in Seq(Items) /\ Complete(rec) \in Items
    BY <1>1, CompleteIsItem DEF PutAppend, EraseAppend, TypeOK, DataOK
  <2>2. /\ log' \in Seq(Items) /\ Len(log') = Len(log) + 1 /\ Len(log) \in Nat
        /\ log'[Len(log) + 1] = Complete(rec)
    BY <1>1, <2>1, AppendedFacts DEF PutAppend, EraseAppend
  <2>3. log' # <<>> /\ log'[Len(log')] = Complete(rec)
    BY <2>2
  <2>4. CASE PutAppend
    BY <2>2, <2>3, <2>4 DEF PutAppend, HeaderSize
  <2>5. CASE EraseAppend
    BY <2>2, <2>3, <2>5 DEF EraseAppend, HeaderSize
  <2> QED
    BY <1>1, <2>4, <2>5
<1>2. CASE PutIndex \/ EraseZero \/ EraseUnlink
  BY <1>2 DEF PutIndex, EraseZero, EraseUnlink
<1>3. CASE UNCHANGED <<log, locals, pc>>
  BY <1>3
<1>4. CASE pc' \notin {"put_append", "put_index", "put_checkpoint", "erase_zero", "erase_unlink",
                       "erase_checkpoint"}
  BY <1>4
<1>5. CASE \E k \in Keys, v \in Values : PutStart(k, v)
  BY <1>5 DEF PutStart
<1>6. \/ PutAppend \/ EraseAppend \/ PutIndex \/ EraseZero \/ EraseUnlink
      \/ UNCHANGED <<log, locals, pc>> \/ \E k \in Keys, v \in Values : PutStart(k, v)
      \/ pc' \notin {"put_append", "put_index", "put_checkpoint", "erase_zero", "erase_unlink",
                     "erase_checkpoint"}
  BY DEF vars, Next,
     Open, Call, Step, Crash, Environment, OpenNew, OpenExisting,
     PutRejected, EraseMissing, EraseStart, rebuild_index, recover_records,
     CloseStart, CloseRefused, DestroyUnclean, NewIndexCreate, NewIndexSetup,
     NewIndexLoad, NewIndexInvalid, NewIndexNotEmpty, NewDbCreate, NewDbSetup, NewCheckpoint,
     LoadInvalidDb, LoadMissingIndex, LoadInvalidIndex, LoadCleanIndex,
     LoadUncleanIndex, MarkDirty, RecoverWhole, RecoverTruncate, RecoverCorrupt, Replay,
     ReplayCorrupt, Install, RebuildCheckpointInCall, RebuildCheckpointInConstructor,
     PutCheckpoint, EraseCheckpoint, CloseMark, Kill, KillInAppend, RemoveIndexFile,
     DamageIndexFile, RemoveDbFile, IOFail, FailAppend, FailIndexWrite, FailRebuild,
     FailReload, FailConstructor, FailClose, Return, Gone, Throw, StartRebuild
<1> QED
  BY <1>1, <1>2, <1>3, <1>4, <1>5, <1>6

(* A replay, from wherever it started, passes over no record of a key that *)
(* it keeps an older one of.                                               *)
LEMMA ReplayStep ==
    ASSUME TypeOK, EntriesInv, [Next]_vars
    PROVE  ReplayFindsNewest'
<1> USE DEF EntriesInv, ReplayFindsNewest, disk, locals
<1>1. CASE tmp' = EmptyIndex
  BY <1>1 DEF EmptyIndex
<1>2. CASE Replay
  <2>1. pos \in 1 .. Len(log) /\ log[pos] \in Items /\ log[pos].status = "Success"
    BY <1>2, ReadInside DEF Replay, TypeOK, DataOK
  <2>2. log[pos].key \in Keys /\ tmp \in Maps /\ Len(log) \in Nat /\ pos \in Nat
    BY <2>1, SuccessIsComplete DEF TypeOK, DataOK
  <2>3. pos' = pos + 1 /\ log' = log /\ pc = "replay"
    BY <1>2 DEF Replay
  <2> SUFFICES ASSUME NEW k \in Keys, tmp'[k] # NoEntry
               PROVE  /\ pos' <= Len(log') + 1 /\ tmp'[k] \in 1 .. (pos' - 1)
                      /\ log'[tmp'[k]].status = "Success"
                      /\ log'[tmp'[k]].type = "Put" /\ log'[tmp'[k]].key = k
                      /\ \A j \in (tmp'[k] + 1) .. (pos' - 1) :
                           log'[j].status = "Success" => log'[j].key # k
    BY DEF ReplayFindsNewest
  <2>4. CASE log[pos].key = k
    <3>1. tmp'[k] = IF log[pos].type = "Put" THEN pos ELSE NoEntry
      BY <1>2, <2>2, <2>4 DEF Replay, Apply, index_set, index_unlink, Maps
    <3>2. tmp'[k] = pos /\ log[pos].type = "Put"
      BY <3>1
    <3> QED
      BY <2>1, <2>2, <2>3, <2>4, <3>2
  <2>5. CASE log[pos].key # k
    <3>1. tmp'[k] = tmp[k]
      BY <1>2, <2>2, <2>5 DEF Replay, Apply, index_set, index_unlink, Maps
    <3>2. /\ tmp[k] \in 1 .. (pos - 1)
          /\ log[tmp[k]].status = "Success" /\ log[tmp[k]].type = "Put" /\ log[tmp[k]].key = k
      BY <2>3, <3>1
    <3>3. \A j \in (tmp[k] + 1) .. (pos - 1) : log[j].status = "Success" => log[j].key # k
      BY <2>3, <3>1
    <3> QED
      BY <2>1, <2>2, <2>3, <2>5, <3>1, <3>2, <3>3
  <2> QED
    BY <2>4, <2>5
<1>3. CASE UNCHANGED <<log, tmp, pos, pc>>
  BY <1>3
<1>4. CASE pc' # "replay"
  BY <1>4
<1>5. tmp' = EmptyIndex \/ Replay \/ UNCHANGED <<log, tmp, pos, pc>> \/ pc' # "replay"
  BY DEF vars, handle, Next,
     Open, Call, Step, Crash, Environment, OpenNew, OpenExisting, PutStart,
     PutRejected, EraseMissing, EraseStart, rebuild_index, recover_records,
     CloseStart, CloseRefused, DestroyUnclean, NewIndexCreate, NewIndexSetup,
     NewIndexLoad, NewIndexInvalid, NewIndexNotEmpty, NewDbCreate, NewDbSetup, NewCheckpoint,
     LoadInvalidDb, LoadMissingIndex, LoadInvalidIndex, LoadCleanIndex,
     LoadUncleanIndex, MarkDirty, RecoverWhole, RecoverTruncate, RecoverCorrupt,
     ReplayCorrupt, Install, RebuildCheckpointInCall, RebuildCheckpointInConstructor,
     PutAppend, PutIndex, PutCheckpoint, EraseAppend, EraseZero, EraseUnlink, EraseCheckpoint,
     CloseMark, Kill, KillInAppend, RemoveIndexFile, DamageIndexFile, RemoveDbFile, IOFail,
     FailAppend, FailIndexWrite, FailRebuild, FailReload, FailConstructor, FailClose,
     Return, Gone, Throw, StartRebuild
<1> QED
  BY <1>1, <1>2, <1>3, <1>4, <1>5

(* No step at all disturbs the two. *)
LEMMA EntriesInvStep == TypeOK /\ EntriesInv /\ [Next]_vars => EntriesInv'
BY LastRecordStep, ReplayStep DEF EntriesInv

LEMMA EntriesInvHolds == Spec => []EntriesInv
<1>1. Init => EntriesInv
  BY DEF Init, EntriesInv, RecordIsLast, ReplayFindsNewest
<1> QED
  BY <1>1, EntriesInvStep, TypeCorrect, PTL DEF Spec

(* The offset that an index entry changes to is that of the newest         *)
(* complete record of its key, and the record is a Put.                    *)
LEMMA EntryStep ==
    ASSUME TypeOK, WriteInv, EntriesInv, [Next]_vars,
           NEW k \in Keys, idx'[k] # idx[k], idx'[k] > 0
    PROVE  idx'[k] \in LatestComplete(log', k) /\ log'[idx'[k]].type = "Put"
<1> USE DEF EntriesInv, LatestComplete
<1>1. Len(log) \in Nat /\ idx \in Maps /\ tmp \in Maps
  BY DEF TypeOK, DataOK
<1>2. CASE PutIndex
  <2>1. /\ rec.key \in Keys /\ rec.type = "Put" /\ startOffset = Len(log)
        /\ log # <<>> /\ log[Len(log)] = Complete(rec)
    BY <1>2 DEF PutIndex, TypeOK, DataOK, Records, RecordIsLast
  <2>2. idx' = index_set(idx, rec.key, startOffset) /\ log' = log
    BY <1>2 DEF PutIndex
  <2>3. k = rec.key /\ idx'[k] = Len(log)
    BY <1>1, <2>1, <2>2 DEF index_set, Maps
  <2>4. Len(log) # 0
    BY <2>1 DEF TypeOK, DataOK
  <2> QED
    BY <1>1, <2>1, <2>2, <2>3, <2>4 DEF Complete
<1>3. CASE Install \/ FailReload
  <2>1. pc = "replay" /\ pos \notin 1 .. Len(log) /\ pos \in Nat /\ idx' = tmp /\ log' = log
    BY <1>3, EndIsOutside DEF Install, FailReload, TypeOK, DataOK, Offsets
  <2>2. tmp[k] # NoEntry
    BY <2>1 DEF NoEntry
  <2>3. /\ pos <= Len(log) + 1 /\ tmp[k] \in 1 .. (pos - 1)
        /\ log[tmp[k]].status = "Success" /\ log[tmp[k]].type = "Put" /\ log[tmp[k]].key = k
        /\ \A j \in (tmp[k] + 1) .. (pos - 1) : log[j].status = "Success" => log[j].key # k
    BY <2>1, <2>2 DEF ReplayFindsNewest
  <2>4. pos = Len(log) + 1
    BY <1>1, <2>1, <2>3
  <2> QED
    BY <1>1, <2>1, <2>3, <2>4
<1>4. CASE EraseZero \/ EraseUnlink
  <2>1. rec.key \in Keys
    BY <1>4 DEF EraseZero, EraseUnlink, TypeOK, DataOK, Records
  <2>2. idx'[k] = idx[k] \/ idx'[k] \in {NullOffset, NoEntry}
    BY <1>1, <1>4, <2>1 DEF EraseZero, EraseUnlink, index_set, index_unlink, Maps
  <2> QED
    BY <2>2 DEF NullOffset, NoEntry
<1>5. CASE NewIndexSetup
  BY <1>5 DEF NewIndexSetup, EmptyIndex, NoEntry
<1>6. \/ PutIndex \/ Install \/ FailReload \/ EraseZero \/ EraseUnlink \/ NewIndexSetup
  BY DEF vars, disk, Next,
     Open, Call, Step, Crash, Environment, OpenNew, OpenExisting, PutStart,
     PutRejected, EraseMissing, EraseStart, rebuild_index, recover_records,
     CloseStart, CloseRefused, DestroyUnclean, NewIndexCreate,
     NewIndexLoad, NewIndexInvalid, NewIndexNotEmpty, NewDbCreate, NewDbSetup, NewCheckpoint,
     LoadInvalidDb, LoadMissingIndex, LoadInvalidIndex, LoadCleanIndex,
     LoadUncleanIndex, MarkDirty, RecoverWhole, RecoverTruncate, RecoverCorrupt, Replay,
     ReplayCorrupt, RebuildCheckpointInCall, RebuildCheckpointInConstructor,
     PutAppend, PutCheckpoint, EraseAppend, EraseCheckpoint, CloseMark, Kill, KillInAppend,
     RemoveIndexFile, DamageIndexFile, RemoveDbFile, IOFail, FailAppend, FailIndexWrite,
     FailRebuild, FailConstructor, FailClose
<1> QED
  BY <1>2, <1>3, <1>4, <1>5, <1>6

(* Whatever fails, and whatever offset rebuilds start from, an entry is    *)
(* only ever changed to lead to the newest record of its key.              *)
THEOREM EntriesAlwaysBecomeNewest == Spec => EntriesBecomeNewest
<1>1. ASSUME TypeOK, WriteInv, EntriesInv, [Next]_vars
      PROVE  [\A k \in Keys :
                idx'[k] # idx[k] /\ idx'[k] > 0 =>
                   idx'[k] \in LatestComplete(log', k) /\ log'[idx'[k]].type = "Put"]_vars
  BY <1>1, EntryStep
<1>2. Init => WriteInv
  BY DEF Init, WriteInv
<1> QED
  BY <1>1, <1>2, EntriesInvHolds, WriteStep, TypeCorrect, PTL DEF Spec, EntriesBecomeNewest

(* What is remembered is a record of the key. *)
LEMMA AckedStep ==
    ASSUME TypeOK, WriteInv, AckInv, [Next]_vars, RememberAcked
    PROVE  AckedInLog'
<1> USE DEF AckInv, EntriesInv, AckedInLog
<1>1. ASSUME NEW k \in Keys, Acknowledging(k)
      PROVE  /\ endOffset - HeaderSize \in 1 .. Len(log) /\ endOffset - HeaderSize = Len(log)
             /\ log[endOffset - HeaderSize].status = "Success"
             /\ log[endOffset - HeaderSize].key = k
  <2>1. log # <<>> /\ endOffset = FileSize /\ log[Len(log)] = Complete(rec) /\ rec.key = k
    BY <1>1 DEF Acknowledging, RecordIsLast
  <2>2. Len(log) \in Nat /\ Len(log) # 0
    BY <2>1 DEF TypeOK, DataOK
  <2>3. endOffset - HeaderSize = Len(log)
    BY <2>1, <2>2 DEF FileSize, HeaderSize
  <2> QED
    BY <2>1, <2>2, <2>3 DEF Complete
<1>2. ASSUME NEW k \in Keys, Acknowledging(k) PROVE log' = log
  BY <1>2, Zenon DEF Acknowledging, vars, disk, Next,
     Open, Call, Step, Crash, Environment, OpenNew, OpenExisting, PutStart,
     PutRejected, EraseMissing, EraseStart, rebuild_index, recover_records,
     CloseStart, CloseRefused, DestroyUnclean, NewIndexCreate, NewIndexSetup,
     NewIndexLoad, NewIndexInvalid, NewIndexNotEmpty, NewDbCreate, NewDbSetup, NewCheckpoint,
     LoadInvalidDb, LoadMissingIndex, LoadInvalidIndex, LoadCleanIndex,
     LoadUncleanIndex, MarkDirty, RecoverWhole, RecoverTruncate, RecoverCorrupt, Replay,
     ReplayCorrupt, Install, RebuildCheckpointInCall, RebuildCheckpointInConstructor,
     PutAppend, PutIndex, PutCheckpoint, EraseAppend, EraseZero, EraseUnlink, EraseCheckpoint,
     CloseMark, Kill, KillInAppend, RemoveIndexFile, DamageIndexFile, RemoveDbFile, IOFail,
     FailAppend, FailIndexWrite, FailRebuild, FailReload, FailConstructor, FailClose
<1>3. ASSUME NEW k \in Keys
      PROVE  /\ acked'[k] \in Nat
             /\ acked'[k] # 0 => /\ acked'[k] \in 1 .. Len(log')
                                 /\ log'[acked'[k]].status = "Success"
                                 /\ log'[acked'[k]].key = k
  <2>1. CASE Acknowledging(k)
    <3>1. acked'[k] = endOffset - HeaderSize
      BY <2>1, Zenon DEF RememberAcked
    <3> QED
      BY <1>1, <1>2, <2>1, <3>1
  <2>2. CASE ~Acknowledging(k) /\ acked[k] <= Len(log')
    <3>1. acked'[k] = acked[k]
      BY <2>2 DEF RememberAcked
    <3> QED
      BY <2>2, <3>1, RecordsStayInPlace
  <2>3. CASE ~Acknowledging(k) /\ ~(acked[k] <= Len(log'))
    BY <2>3 DEF RememberAcked
  <2> QED
    BY <2>1, <2>2, <2>3
<1>4. acked' = [k \in Keys |-> acked'[k]]
  BY DEF RememberAcked
<1> QED
  BY <1>3, <1>4

(* The index is not older: what an update, or a rename, puts into it is    *)
(* the last record, no entry, or what a rebuild has found.                 *)
LEMMA EntriesStep ==
    ASSUME TypeOK, WriteInv, AckInv, [Next]_vars, RememberAcked
    PROVE  EntriesAreNotOlder'
<1> USE DEF AckInv, EntriesInv, EntriesAreNotOlder
<1>1. Len(log) \in Nat /\ idx \in Maps /\ tmp \in Maps
  BY DEF TypeOK, DataOK
<1>2. \A k \in Keys : acked[k] \in Nat /\ acked[k] <= Len(log)
  BY <1>1 DEF AckedInLog
<1>3. ASSUME NEW k \in Keys
      PROVE  acked'[k] \in Nat /\ (~Acknowledging(k) => acked'[k] <= acked[k])
  <2>1. acked'[k] \in Nat
    BY AckedStep DEF AckedInLog
  <2> QED
    BY <1>2, <2>1 DEF RememberAcked
<1>4. CASE idx' = idx /\ \A k \in Keys : ~Acknowledging(k)
  <2>1. \A k \in Keys : idx[k] \in Int
    BY <1>1 DEF Maps, Offsets, NoEntry
  <2> QED
    BY <1>2, <1>3, <1>4, <2>1
<1>5. CASE NewIndexSetup
  BY <1>5 DEF NewIndexSetup, EmptyIndex, NoEntry
<1>6. CASE PutIndex
  <2>1. rec.key \in Keys /\ startOffset = Len(log)
    BY <1>6 DEF PutIndex, TypeOK, DataOK, Records, RecordIsLast
  <2>2. ASSUME NEW k \in Keys PROVE idx'[k] = IF k = rec.key THEN Len(log) ELSE idx[k]
    BY <1>1, <1>6, <2>1 DEF PutIndex, index_set, Maps
  <2>3. ASSUME NEW k \in Keys PROVE ~Acknowledging(k) /\ idx[k] \in Int
    BY <1>1, <1>6 DEF PutIndex, Acknowledging, Maps, Offsets, NoEntry
  <2> QED
    BY <1>1, <1>2, <1>3, <2>2, <2>3
<1>7. CASE EraseZero \/ EraseUnlink
  <2>1. rec.key \in Keys
    BY <1>7 DEF EraseZero, EraseUnlink, TypeOK, DataOK, Records
  <2>2. ASSUME NEW k \in Keys PROVE idx'[k] = idx[k] \/ idx'[k] \in {NullOffset, NoEntry}
    BY <1>1, <1>7, <2>1 DEF EraseZero, EraseUnlink, index_set, index_unlink, Maps
  <2>3. ASSUME NEW k \in Keys PROVE ~Acknowledging(k) /\ idx[k] \in Int
    BY <1>1, <1>7 DEF EraseZero, EraseUnlink, Acknowledging, Maps, Offsets, NoEntry
  <2> QED
    BY <1>1, <1>2, <1>3, <2>2, <2>3 DEF NullOffset, NoEntry
<1>8. CASE Install \/ FailReload
  <2>1. pc = "replay" /\ pos \notin 1 .. Len(log) /\ pos \in Nat /\ idx' = tmp
    BY <1>8, EndIsOutside DEF Install, FailReload, TypeOK, DataOK, Offsets
  <2> SUFFICES ASSUME NEW k \in Keys, tmp[k] > 0 PROVE tmp[k] >= acked'[k]
    BY <2>1
  <2>2. tmp[k] # NoEntry /\ tmp[k] \in Nat /\ ~Acknowledging(k)
    BY <1>1, <2>1 DEF Maps, Offsets, NoEntry, Acknowledging
  <2>3. /\ pos <= Len(log) + 1 /\ tmp[k] \in 1 .. (pos - 1)
        /\ \A j \in (tmp[k] + 1) .. (pos - 1) : log[j].status = "Success" => log[j].key # k
    BY <2>1, <2>2 DEF ReplayFindsNewest
  <2>4. pos = Len(log) + 1
    BY <1>1, <2>1, <2>3
  <2>5. acked[k] # 0 => /\ acked[k] \in 1 .. Len(log)
                        /\ log[acked[k]].status = "Success" /\ log[acked[k]].key = k
    BY DEF AckedInLog
  <2>6. acked[k] <= tmp[k]
    BY <1>1, <1>2, <2>2, <2>3, <2>4, <2>5
  <2> QED
    BY <1>2, <1>3, <2>2, <2>6
<1>9. CASE PutCheckpoint \/ EraseCheckpoint
  <2> SUFFICES ASSUME NEW k \in Keys, idx[k] > 0 PROVE idx[k] >= acked'[k]
    BY <1>9 DEF PutCheckpoint, EraseCheckpoint
  <2>1. CASE Acknowledging(k)
    <3>1. acked'[k] = endOffset - HeaderSize /\ rec.key = k
      BY <2>1, Zenon DEF RememberAcked, Acknowledging
    <3>2. pc = "put_checkpoint" /\ idx[k] = startOffset
      BY <1>9, <3>1 DEF PutCheckpoint, EraseCheckpoint, WriteInv, NoEntry
    <3>3. startOffset = Len(log) /\ endOffset = FileSize
      BY <3>2 DEF RecordIsLast
    <3> QED
      BY <1>1, <3>1, <3>2, <3>3 DEF FileSize, HeaderSize
  <2>2. CASE ~Acknowledging(k)
    <3>1. idx[k] \in Int
      BY <1>1 DEF Maps, Offsets, NoEntry
    <3> QED
      BY <1>2, <1>3, <2>2, <3>1
  <2> QED
    BY <2>1, <2>2
<1>10. \/ idx' = idx /\ \A k \in Keys : ~Acknowledging(k)
       \/ NewIndexSetup \/ PutIndex \/ EraseZero \/ EraseUnlink \/ Install \/ FailReload
       \/ PutCheckpoint \/ EraseCheckpoint
  BY DEF Acknowledging, vars, disk, Next,
     Open, Call, Step, Crash, Environment, OpenNew, OpenExisting, PutStart,
     PutRejected, EraseMissing, EraseStart, rebuild_index, recover_records,
     CloseStart, CloseRefused, DestroyUnclean, NewIndexCreate,
     NewIndexLoad, NewIndexInvalid, NewIndexNotEmpty, NewDbCreate, NewDbSetup, NewCheckpoint,
     LoadInvalidDb, LoadMissingIndex, LoadInvalidIndex, LoadCleanIndex,
     LoadUncleanIndex, MarkDirty, RecoverWhole, RecoverTruncate, RecoverCorrupt, Replay,
     ReplayCorrupt, RebuildCheckpointInCall, RebuildCheckpointInConstructor,
     PutAppend, EraseAppend, CloseMark, Kill, KillInAppend, RemoveIndexFile, DamageIndexFile,
     RemoveDbFile, IOFail, FailAppend, FailIndexWrite, FailRebuild, FailConstructor,
     FailClose, Return, Gone, Throw, StartRebuild
<1> QED
  BY <1>4, <1>5, <1>6, <1>7, <1>8, <1>9, <1>10

(* Whatever fails and whatever offset rebuilds start from, no value that   *)
(* an acknowledged put() or erase() replaced is ever answered again.       *)
THEOREM AcknowledgedWritesAreNotUndone == HistorySpec => []AcknowledgedWriteIsNotUndone
<1>1. HistoryInit => AckInv
  BY DEF HistoryInit, Init, AckInv, AckedInLog, EntriesAreNotOlder, EntriesInv, RecordIsLast,
     ReplayFindsNewest, EmptyIndex, NoEntry
<1>2. [HistoryNext]_historyVars => [Next]_vars
  BY DEF HistoryNext, historyVars
<1>3. TypeOK /\ WriteInv /\ AckInv /\ [HistoryNext]_historyVars => AckInv'
  <2> SUFFICES ASSUME TypeOK, WriteInv, AckInv, [HistoryNext]_historyVars PROVE AckInv'
    OBVIOUS
  <2>1. CASE HistoryNext
    BY <2>1, AckedStep, EntriesStep, EntriesInvStep DEF HistoryNext, AckInv
  <2>2. CASE UNCHANGED historyVars
    BY <2>2 DEF historyVars, vars, disk, locals, AckInv, AckedInLog, EntriesAreNotOlder,
       EntriesInv, RecordIsLast, ReplayFindsNewest, FileSize
  <2> QED
    BY <2>1, <2>2
<1>4. AckInv => AcknowledgedWriteIsNotUndone
  <2> SUFFICES ASSUME AckInv, NEW k \in Keys, get(k) \notin {Absent, Error}
               PROVE  idx[k] >= acked[k]
    BY DEF AcknowledgedWriteIsNotUndone
  <2>1. idx[k] \in 1 .. Len(log)
    BY DEF get, read_record
  <2> QED
    BY <2>1 DEF AckInv, EntriesAreNotOlder
<1>5. HistoryInit => Init
  BY DEF HistoryInit
<1>6. Init => WriteInv
  BY DEF Init, WriteInv
<1>7. HistorySpec => Spec
  BY <1>2, <1>5, PTL DEF HistorySpec, Spec
<1> QED
  BY <1>1, <1>2, <1>3, <1>4, <1>5, <1>6, <1>7, WriteStep, TypeCorrect, PTL DEF HistorySpec

-----------------------------------------------------------------------------
(* Database implements KVStore: a client that sees calls and answers cannot*)
(* tell the two files, the index and its recovery from a map whose calls   *)
(* take effect at one instant.  IInv says what the files hold; the proof   *)
(* maps each step of the process to a step of KVStore or to none.          *)

(* The contents that the complete records of a log give.                   *)

(* Of two candidates for the newest complete record of a key one is the    *)
(* other.                                                                  *)
LEMMA LatestIsUnique ==
    ASSUME NEW l \in Seq(Items), NEW k,
           NEW i \in LatestComplete(l, k), NEW j \in LatestComplete(l, k)
    PROVE  i = j
BY DEF LatestComplete

(* The contents, for one key. *)
LEMMA ContentsOfKey ==
    ASSUME NEW l \in Seq(Items), NEW k \in Keys
    PROVE  /\ \A i \in LatestComplete(l, k) :
                Contents(l)[k] = IF l[i].type = "Put" THEN l[i].value ELSE Absent
           /\ LatestComplete(l, k) = {} => Contents(l)[k] = Absent
<1>1. ASSUME NEW i \in LatestComplete(l, k)
      PROVE  Contents(l)[k] = IF l[i].type = "Put" THEN l[i].value ELSE Absent
  <2>1. (CHOOSE j \in LatestComplete(l, k) : TRUE) = i
    BY LatestIsUnique
  <2>2. (\E j \in LatestComplete(l, k) : l[j].type = "Put") <=> l[i].type = "Put"
    BY LatestIsUnique
  <2> QED
    BY <2>1, <2>2 DEF Contents
<1> QED
  BY <1>1 DEF Contents

(* Two logs with the same newest complete record of a key agree on the key.*)
LEMMA SameLatest ==
    ASSUME NEW l \in Seq(Items), NEW m \in Seq(Items), NEW k \in Keys,
           \A i : i \in LatestComplete(l, k) <=> i \in LatestComplete(m, k),
           \A i \in LatestComplete(l, k) : m[i] = l[i]
    PROVE  Contents(m)[k] = Contents(l)[k]
<1>1. CASE LatestComplete(l, k) = {}
  <2>1. LatestComplete(m, k) = {}
    BY <1>1
  <2> QED
    BY <1>1, <2>1, ContentsOfKey
<1>2. CASE LatestComplete(l, k) # {}
  <2>1. PICK i \in LatestComplete(l, k) : i \in LatestComplete(m, k) /\ m[i] = l[i]
    BY <1>2
  <2> QED
    BY <2>1, ContentsOfKey
<1> QED
  BY <1>1, <1>2

(* The contents depend on the complete records only: two logs that agree   *)
(* on them have the same contents, whatever fragments they end in.         *)
LEMMA SameContents ==
    ASSUME NEW l \in Seq(Items), NEW m \in Seq(Items),
           \A i \in 1 .. Len(l) : l[i].status = "Success" => i <= Len(m) /\ m[i] = l[i],
           \A i \in 1 .. Len(m) : m[i].status = "Success" => i <= Len(l) /\ m[i] = l[i]
    PROVE  Contents(m) = Contents(l)
<1>1. ASSUME NEW k \in Keys PROVE Contents(m)[k] = Contents(l)[k]
  <2>1. ASSUME NEW i \in LatestComplete(l, k)
        PROVE  i \in LatestComplete(m, k) /\ m[i] = l[i]
    BY DEF LatestComplete
  <2>2. ASSUME NEW i \in LatestComplete(m, k) PROVE i \in LatestComplete(l, k)
    BY DEF LatestComplete
  <2> QED
    BY <2>1, <2>2, SameLatest
<1> QED
  BY <1>1 DEF Contents

(* A complete record at the end of a log without fragments is the effect   *)
(* of its call, and of no other.                                           *)
LEMMA RecordTakesEffect ==
    ASSUME NEW l \in Seq(Items), NEW m \in Seq(Items), AllComplete(l), NEW r \in Records,
           Len(m) = Len(l) + 1,
           m[Len(l) + 1] = Complete(r),
           \A i \in 1 .. Len(l) : m[i] = l[i]
    PROVE  Contents(m) = [Contents(l) EXCEPT ![r.key] = IF r.type = "Put" THEN r.value ELSE Absent]
<1> DEFINE n == Len(l) + 1
<1>1. /\ n \in Nat /\ n = Len(m) /\ n \in 1 .. n
      /\ m[n].status = "Success" /\ m[n].key = r.key /\ m[n].type = r.type /\ m[n].value = r.value
      /\ r.key \in Keys
  BY DEF Complete, Records
<1>2. ASSUME NEW k \in Keys, k # r.key PROVE Contents(m)[k] = Contents(l)[k]
  <2>1. ASSUME NEW i \in LatestComplete(l, k)
        PROVE  i \in LatestComplete(m, k) /\ m[i] = l[i]
    <3>1. i \in 1 .. Len(l) /\ m[i] = l[i]
      BY DEF LatestComplete
    <3>2. ASSUME NEW j \in (i + 1) .. Len(m) PROVE ~(m[j].status = "Success" /\ m[j].key = k)
      <4>1. j = n \/ (j \in (i + 1) .. Len(l) /\ m[j] = l[j])
        BY <1>1, <3>1
      <4> QED
        BY <1>1, <1>2, <4>1 DEF LatestComplete
    <3> QED
      BY <3>1, <3>2 DEF LatestComplete
  <2>2. ASSUME NEW i \in LatestComplete(m, k) PROVE i \in LatestComplete(l, k)
    <3>1. i \in 1 .. Len(m) /\ m[i].status = "Success" /\ m[i].key = k
      BY DEF LatestComplete
    <3>2. i \in 1 .. Len(l) /\ m[i] = l[i]
      BY <1>1, <1>2, <3>1
    <3> QED
      BY <3>1, <3>2 DEF LatestComplete
  <2> QED
    BY <2>1, <2>2, SameLatest
<1>3. Contents(m)[r.key] = IF r.type = "Put" THEN r.value ELSE Absent
  <2>1. n \in LatestComplete(m, r.key)
    BY <1>1 DEF LatestComplete
  <2> QED
    BY <1>1, <2>1, ContentsOfKey
<1> HIDE DEF n
<1>4. Contents(l) \in [Keys -> {Contents(l)[k] : k \in Keys}]
      /\ DOMAIN Contents(l) = Keys /\ DOMAIN Contents(m) = Keys
  BY DEF Contents
<1>5. Contents(m) = [k \in Keys |-> Contents(m)[k]]
  BY DEF Contents
<1> QED
  BY <1>1, <1>2, <1>3, <1>4, <1>5

(* When the index represents a log without fragments, get() answers with   *)
(* the contents.                                                           *)
LEMMA ExactIndexAnswers ==
    ASSUME log \in Seq(Items), idx \in Maps, AllComplete(log), Represents(idx, log, Len(log)),
           NEW k \in Keys
    PROVE  /\ get(k) = storeBar[k]
           /\ idx[k] = NoEntry <=> storeBar[k] = Absent
<1>1. ASSUME NEW i PROVE i \in LatestComplete(log, k) <=> IsLatest(log, Len(log), k, i)
  BY DEF LatestComplete, IsLatest, AllComplete
<1>2. CASE idx[k] = NoEntry
  <2>1. \A i \in LatestComplete(log, k) : log[i].type = "Delete"
    <3> SUFFICES ASSUME NEW i \in LatestComplete(log, k) PROVE log[i].type = "Delete"
      OBVIOUS
    <3>1. IsLatest(log, Len(log), k, i) /\ i \in 1 .. Len(log)
      BY <1>1 DEF IsLatest
    <3> QED
      BY <1>2, <3>1 DEF Represents
  <2>2. storeBar[k] = Absent
    BY <2>1 DEF storeBar, Contents
  <2> QED
    BY <1>2, <2>2 DEF get
<1>3. CASE idx[k] # NoEntry
  <2>1. IsLatest(log, Len(log), k, idx[k]) /\ log[idx[k]].type = "Put"
    BY <1>3 DEF Represents
  <2>2. idx[k] \in 1 .. Len(log) /\ log[idx[k]].key = k /\ log[idx[k]].status = "Success"
    BY <2>1 DEF IsLatest, AllComplete
  <2>3. storeBar[k] = log[idx[k]].value
    BY <1>1, <2>1, ContentsOfKey DEF storeBar
  <2>4. read_record(idx[k]) = "Success"
    BY <2>2 DEF read_record
  <2>5. get(k) = log[idx[k]].value
    BY <1>3, <2>1, <2>2, <2>4 DEF get
  <2>6. log[idx[k]] \in Items
    BY <2>2
  <2>7. log[idx[k]].value \in Values
    BY <2>2, <2>6, SuccessIsComplete
  <2> QED
    BY <1>3, <2>3, <2>5, <2>7, AbsentAssumption
<1> QED
  BY <1>2, <1>3

-----------------------------------------------------------------------------
(* What the client sees of each point of the program.                      *)

View(status, pending, answers) ==
    statusBar = status /\ pendingBar = pending /\ answersBar = answers

Constructing == {"ctor_index", "ctor_index_setup", "ctor_empty", "ctor_db_setup",
                 "ctor_checkpoint", "ctor_load", "ctor_mark_dirty"}
Rebuilding == {"recover", "replay", "rebuild_checkpoint"}
Committed == {"put_index", "put_checkpoint", "erase_zero", "erase_unlink", "erase_checkpoint"}

LocationsAreSeen ==
    /\ pc = "none" => View("down", KV!NoCall, KV!NoAnswers)
    /\ pc = "idle" => View("ready", KV!NoCall, storeBar)
    /\ pc \in Constructing \/ (pc \in Rebuilding /\ caller \in Reasons)
         => View("opening", KV!NoCall, KV!NoAnswers)
    /\ pc \in Committed \cup {"close_mark"} \/ (pc \in Rebuilding /\ caller = "api")
         => View("busy", KV!NoCall, KV!NoAnswers)
    /\ pc = "put_append" => View("busy", rec, KV!NoAnswers)
    /\ pc = "erase_append"
         => View("busy", [type |-> "Delete", key |-> rec.key], KV!NoAnswers)

(* The view at each label follows from who called and from what get()      *)
(* answers.                                                                *)
LEMMA LocationsSeen == CallerInv /\ AnswersAreContents => LocationsAreSeen
<1> SUFFICES ASSUME CallerInv, AnswersAreContents PROVE LocationsAreSeen
  OBVIOUS
<1>1. pc # "idle" => answersBar = KV!NoAnswers
  BY DEF answersBar, KV!NoAnswers
<1>2. pc = "idle" => answersBar = storeBar
  BY DEF answersBar, AnswersAreContents, storeBar, Contents
<1>3. pc \notin {"put_append", "erase_append"} => pendingBar = KV!NoCall
  BY DEF pendingBar, KV!NoCall
<1>4. /\ pc = "put_append" => pendingBar = rec
      /\ pc = "erase_append" => pendingBar = [type |-> "Delete", key |-> rec.key]
  BY DEF pendingBar
<1>5. pc \in Constructing \/ (pc \in Rebuilding /\ caller \in Reasons) => statusBar = "opening"
  BY DEF statusBar, CallerInv, Constructing, Rebuilding, Reasons
<1>6. /\ pc \in Committed \cup {"close_mark", "put_append", "erase_append"} => statusBar = "busy"
      /\ pc \in Rebuilding /\ caller = "api" => statusBar = "busy"
  BY DEF statusBar, CallerInv, Committed, Rebuilding
<1>7. (pc = "none" => statusBar = "down") /\ (pc = "idle" => statusBar = "ready")
  BY DEF statusBar
<1> QED
  BY <1>1, <1>2, <1>3, <1>4, <1>5, <1>6, <1>7
     DEF LocationsAreSeen, View, Constructing, Rebuilding, Committed

(* An open database answers with its contents. *)
LEMMA IdleAnswers == IInv => AnswersAreContents
<1> SUFFICES ASSUME IInv, pc = "idle", NEW k \in Keys PROVE get(k) = storeBar[k]
  BY DEF AnswersAreContents
<1>1. log \in Seq(Items) /\ idx \in Maps /\ Represents(idx, log, Len(log))
  BY DEF IInv, TypeOK, DataOK, IndexInStep
<1>2. AllComplete(log)
  BY DEF IInv, OnlyTheTailIsTorn, TornTail, AllComplete
<1> QED
  BY <1>1, <1>2, ExactIndexAnswers

(* A database that is not running a call does not write. *)
LEMMA AtRest ==
    ASSUME pc \in {"none", "idle"}
    PROVE  ~Step /\ ~IOFail
BY DEF Step, NewIndexCreate, NewIndexSetup, NewIndexLoad,
     NewIndexInvalid, NewIndexNotEmpty, NewDbCreate, NewDbSetup, NewCheckpoint,
     LoadInvalidDb, LoadMissingIndex, LoadInvalidIndex, LoadCleanIndex, LoadUncleanIndex,
     MarkDirty, RecoverWhole, RecoverTruncate, RecoverCorrupt, Replay, ReplayCorrupt,
     Install, RebuildCheckpointInCall, RebuildCheckpointInConstructor, PutAppend,
     PutIndex, PutCheckpoint, EraseAppend, EraseZero, EraseUnlink, EraseCheckpoint,
     CloseMark, IOFail, FailAppend, FailIndexWrite, FailRebuild, FailReload, FailConstructor, FailClose

(* Who called: inductive with the types, failing file operations included. *)
LEMMA CallerStep == TypeOK /\ CallerInv /\ [Next]_vars => CallerInv'
<1> SUFFICES ASSUME TypeOK, CallerInv, [Next]_vars PROVE CallerInv'
  OBVIOUS
<1> USE DEF CallerInv, Writing, Reasons, locals, Return, Gone, LocalsGone
<1>1. CASE Open
  BY <1>1 DEF Open, OpenNew, OpenExisting
<1>2. CASE Call
  BY <1>2 DEF Call, PutStart, PutRejected, EraseMissing, EraseStart, rebuild_index,
     recover_records, CloseStart, CloseRefused, DestroyUnclean, StartRebuild
<1>3. CASE Step
  <2>1. CASE RebuildCheckpointInConstructor
    BY <2>1 DEF RebuildCheckpointInConstructor, TypeOK, DataOK
  <2>2. CASE
        \/ NewIndexCreate \/ NewIndexSetup \/ NewIndexLoad \/ NewIndexInvalid
        \/ NewIndexNotEmpty \/ NewDbCreate \/ NewDbSetup \/ NewCheckpoint
        \/ LoadInvalidDb \/ LoadMissingIndex \/ LoadInvalidIndex
        \/ LoadCleanIndex \/ LoadUncleanIndex \/ MarkDirty
    BY <2>2 DEF NewIndexCreate, NewIndexSetup, NewIndexLoad, NewIndexInvalid,
       NewIndexNotEmpty, NewDbCreate, NewDbSetup, NewCheckpoint, LoadInvalidDb,
       LoadMissingIndex, LoadInvalidIndex, LoadCleanIndex, LoadUncleanIndex, MarkDirty, StartRebuild
  <2>3. CASE
        \/ RecoverWhole \/ RecoverTruncate \/ RecoverCorrupt
        \/ Replay \/ ReplayCorrupt \/ Install \/ RebuildCheckpointInCall
    BY <2>3 DEF RecoverWhole, RecoverTruncate, RecoverCorrupt, Replay, ReplayCorrupt, Install,
       RebuildCheckpointInCall, StartRebuild, Throw
  <2>4. CASE
        \/ PutAppend \/ PutIndex \/ PutCheckpoint
        \/ EraseAppend \/ EraseZero \/ EraseUnlink \/ EraseCheckpoint \/ CloseMark
    BY <2>4 DEF PutAppend, PutIndex, PutCheckpoint, EraseAppend, EraseZero, EraseUnlink,
       EraseCheckpoint, CloseMark
  <2> QED
    BY <1>3, <2>1, <2>2, <2>3, <2>4 DEF Step
<1>4. CASE Crash
  BY <1>4 DEF Crash, Kill, KillInAppend
<1>5. CASE IOFail
  BY <1>5 DEF IOFail, FailAppend, FailIndexWrite, FailRebuild, FailReload, FailConstructor,
     FailClose, Throw
<1>6. CASE Environment
  BY <1>6 DEF Environment, RemoveIndexFile, DamageIndexFile, RemoveDbFile
<1>7. CASE UNCHANGED vars
  BY <1>7 DEF vars
<1> QED
  BY <1>1, <1>2, <1>3, <1>4, <1>5, <1>6, <1>7 DEF Next

-----------------------------------------------------------------------------
(* The step simulation.                                                    *)

(* Only an append of a complete record and the removal of the data file    *)
(* change the contents.                                                    *)
LEMMA ContentsKept ==
    ASSUME IInv, IInv', NewDbCreate \/ RecoverTruncate \/ KillInAppend
    PROVE  storeBar' = storeBar
<1> USE DEF IInv, TypeOK, DataOK
<1>1. log \in Seq(Items) /\ log' \in Seq(Items)
  OBVIOUS
<1>2. CASE NewDbCreate
  <2>1. log' = log
    BY <1>2 DEF NewDbCreate, FilesMatchProgress
  <2> QED
    BY <2>1 DEF storeBar
<1>3. CASE RecoverTruncate
  <2>1. scan_records = Len(log) /\ Len(log) > 0 /\ log[Len(log)].status = "Truncated"
    BY <1>1, <1>3, ScanStops, ReadInside DEF RecoverTruncate
  <2>2. Len(log') = Len(log) - 1 /\ \A i \in 1 .. Len(log') : log'[i] = log[i]
    BY <1>1, <1>3, <2>1 DEF RecoverTruncate, resize_file
  <2>3. \A i \in 1 .. Len(log) : log[i].status = "Success" => i <= Len(log') /\ log'[i] = log[i]
    BY <1>1, <2>1, <2>2
  <2>4. \A i \in 1 .. Len(log') : log'[i].status = "Success" => i <= Len(log) /\ log'[i] = log[i]
    BY <1>1, <2>2
  <2> QED
    BY <1>1, <2>3, <2>4, SameContents DEF storeBar
<1>4. CASE KillInAppend
  <2>1. \A i \in 1 .. Len(log) : log[i].status # "Truncated"
    BY <1>4 DEF KillInAppend, OnlyTheTailIsTorn, TornTail
  <2>2. /\ Len(log') = Len(log) + 1
        /\ log'[Len(log) + 1] = Fragment
        /\ \A i \in 1 .. Len(log) : log'[i] = log[i]
    BY <1>1, <1>4, <2>1, FragmentIsItem, AppendedFacts DEF KillInAppend
  <2>3. \A i \in 1 .. Len(log') : log'[i].status = "Success" => i <= Len(log) /\ log'[i] = log[i]
    BY <1>1, <2>2 DEF Fragment
  <2>4. \A i \in 1 .. Len(log) : log[i].status = "Success" => i <= Len(log') /\ log'[i] = log[i]
    BY <1>1, <2>2
  <2> QED
    BY <1>1, <2>3, <2>4, SameContents DEF storeBar
<1> QED
  BY <1>2, <1>3, <1>4

(* The append is the instant at which put() and erase() take effect. *)
LEMMA AppendCommits ==
    ASSUME IInv, IInv', PutAppend \/ EraseAppend
    PROVE  storeBar' = [storeBar EXCEPT ![rec.key] = IF rec.type = "Put" THEN rec.value ELSE Absent]
<1> USE DEF IInv, TypeOK, DataOK
<1>1. log \in Seq(Items) /\ log' \in Seq(Items)
  OBVIOUS
<1>2. rec \in Records /\ Complete(rec) \in Items
  BY CompleteIsItem DEF PutAppend, EraseAppend
<1>3. AllComplete(log)
  BY DEF PutAppend, EraseAppend, OnlyTheTailIsTorn, TornTail, AllComplete
<1>4. log' \in Appended(Complete(rec))
  BY DEF PutAppend, EraseAppend
<1>5. /\ Len(log') = Len(log) + 1
      /\ log'[Len(log) + 1] = Complete(rec)
      /\ \A i \in 1 .. Len(log) : log'[i] = log[i]
  BY <1>1, <1>2, <1>3, <1>4, AppendedFacts DEF AllComplete
<1> QED
  BY <1>1, <1>2, <1>3, <1>5, RecordTakesEffect DEF storeBar

(* Each step of the process is a step of KVStore, or the client does not   *)
(* see it.                                                                 *)
LEMMA StepSimulation ==
    ASSUME ~IOFaults, IInv, IInv', CallerInv, LocationsAreSeen, LocationsAreSeen', [Next]_vars
    PROVE  [KV!Next]_(KV!vars)
<1> USE DEF LocationsAreSeen, View
<1>1. log' = log => storeBar' = storeBar
  BY DEF storeBar
<1>2. CASE Open
  <2>1. KV!Open
    BY <1>1, <1>2 DEF Open, OpenNew, OpenExisting, disk, KV!Open, Constructing
  <2> QED
    BY <2>1 DEF KV!Next
<1>3. CASE \/ NewIndexCreate \/ NewIndexSetup \/ NewIndexLoad \/ NewDbCreate \/ NewDbSetup
           \/ NewCheckpoint \/ LoadMissingIndex \/ LoadInvalidIndex \/ LoadCleanIndex
           \/ LoadUncleanIndex
  <2>1. storeBar' = storeBar
    BY <1>1, <1>3, ContentsKept DEF NewIndexCreate, NewIndexSetup, NewIndexLoad, NewDbSetup,
       NewCheckpoint, LoadMissingIndex, LoadInvalidIndex, LoadCleanIndex, LoadUncleanIndex, disk
  <2>2. /\ pc \in Constructing /\ UNCHANGED resp
        /\ pc' \in Constructing \/ (pc' \in Rebuilding /\ caller' \in Reasons)
    BY <1>3 DEF NewIndexCreate, NewIndexSetup, NewIndexLoad, NewDbCreate, NewDbSetup, NewCheckpoint,
       LoadMissingIndex, LoadInvalidIndex, LoadCleanIndex, LoadUncleanIndex, StartRebuild,
       Constructing, Rebuilding, Reasons
  <2> QED
    BY <2>1, <2>2 DEF KV!vars
<1>4. CASE RecoverWhole \/ RecoverTruncate \/ Replay \/ Install
  <2>1. storeBar' = storeBar
    BY <1>1, <1>4, ContentsKept DEF RecoverWhole, Replay, Install, disk
  <2>2. /\ pc \in Rebuilding /\ pc' \in Rebuilding /\ UNCHANGED <<caller, resp>>
        /\ caller \in {"api"} \cup Reasons
    BY <1>4 DEF RecoverWhole, RecoverTruncate, Replay, Install, StartRebuild, Rebuilding, locals,
       IInv, TypeOK, DataOK
  <2> QED
    BY <2>1, <2>2 DEF KV!vars
<1>5. CASE RebuildCheckpointInConstructor
  <2>1. /\ pc \in Rebuilding /\ caller \in Reasons /\ pc' \in Constructing
        /\ UNCHANGED <<log, resp>>
    BY <1>5 DEF RebuildCheckpointInConstructor, Rebuilding, Constructing, IInv, TypeOK, DataOK
  <2> QED
    BY <1>1, <2>1 DEF KV!vars
<1>6. CASE PutIndex \/ EraseZero \/ EraseUnlink
  <2>1. pc \in Committed /\ pc' \in Committed /\ UNCHANGED <<log, resp>>
    BY <1>6 DEF PutIndex, EraseZero, EraseUnlink, Committed
  <2> QED
    BY <1>1, <2>1 DEF KV!vars
<1>7. CASE MarkDirty
  <2>1. KV!Opened
    BY <1>1, <1>7 DEF MarkDirty, Return, Constructing, KV!Opened
  <2> QED
    BY <2>1 DEF KV!Next
<1>8. CASE NewIndexInvalid \/ NewIndexNotEmpty \/ LoadInvalidDb \/ RecoverCorrupt \/ ReplayCorrupt
  <2>1. RecoverCorrupt => FALSE
    BY ScanStops DEF RecoverCorrupt, IInv, TypeOK, DataOK
  <2>2. ReplayCorrupt => caller # "api"
    <3> SUFFICES ASSUME ReplayCorrupt PROVE caller # "api"
      OBVIOUS
    <3>1. pos \in 1 .. Len(log) /\ log[pos].status # "Success"
      BY ReadInside DEF ReplayCorrupt, IInv, TypeOK, DataOK
    <3> QED
      BY <3>1 DEF IInv, OnlyTheTailIsTorn, TornTail
  <2>3. /\ pc \in Constructing \/ (pc \in Rebuilding /\ caller \in Reasons)
        /\ pc' = "none" /\ resp' = "throw" /\ log' = log
    BY <1>8, <2>1, <2>2 DEF NewIndexInvalid, NewIndexNotEmpty, LoadInvalidDb, ReplayCorrupt, Throw,
       Gone, disk, Constructing, Rebuilding, IInv, TypeOK, DataOK
  <2>4. KV!Refuse
    BY <1>1, <2>3 DEF KV!Refuse
  <2> QED
    BY <2>4 DEF KV!Next
<1>9. CASE PutCheckpoint \/ EraseCheckpoint \/ RebuildCheckpointInCall
  <2>1. /\ pc \in Committed \/ (pc \in Rebuilding /\ caller = "api")
        /\ pc' = "idle" /\ resp' = "ok" /\ log' = log
    BY <1>9 DEF PutCheckpoint, EraseCheckpoint, RebuildCheckpointInCall, Return, Committed, Rebuilding
  <2>2. KV!Return
    BY <1>1, <2>1 DEF KV!Return
  <2> QED
    BY <2>2 DEF KV!Next
<1>10. CASE CloseMark
  <2>1. KV!Closed
    BY <1>1, <1>10 DEF CloseMark, Gone, KV!Closed
  <2> QED
    BY <2>1 DEF KV!Next
<1>11. CASE PutAppend \/ EraseAppend
  <2>1. pc' \in Committed /\ resp' = resp
    BY <1>11 DEF PutAppend, EraseAppend, Committed
  <2>2. /\ pendingBar.key = rec.key /\ pendingBar # KV!NoCall
        /\ pendingBar.type = "Put" <=> rec.type = "Put"
        /\ rec.type = "Put" => pendingBar.value = rec.value
    BY <1>11 DEF PutAppend, EraseAppend, KV!NoCall, IInv, IndexInStep
  <2>3. storeBar' = KV!Effect(pendingBar)
    BY <1>11, <2>2, AppendCommits DEF KV!Effect
  <2>4. KV!Commit
    BY <1>11, <2>1, <2>2, <2>3 DEF PutAppend, EraseAppend, KV!Commit
  <2> QED
    BY <2>4 DEF KV!Next
<1>12. ASSUME NEW k \in Keys, NEW v \in Values, PutStart(k, v) PROVE KV!Next
  <2>1. rec' \in KV!Calls /\ rec'.type = "Put"
    BY <1>12 DEF PutStart, KV!Calls
  <2>2. KV!Invoke(rec')
    BY <1>1, <1>12, <2>1 DEF PutStart, disk, KV!Invoke
  <2> QED
    BY <2>1, <2>2 DEF KV!Next
<1>13. ASSUME NEW k \in Keys, EraseMissing(k) \/ EraseStart(k) PROVE KV!Next
  <2>1. idx[k] = NoEntry <=> storeBar[k] = Absent
    BY <1>13, ExactIndexAnswers DEF EraseMissing, EraseStart, IInv, TypeOK, DataOK, IndexInStep,
       OnlyTheTailIsTorn, TornTail, AllComplete
  <2>2. CASE EraseMissing(k)
    <3>1. KV!EraseAbsent(k)
      BY <1>1, <2>1, <2>2 DEF EraseMissing, disk, KV!EraseAbsent
    <3> QED
      BY <3>1 DEF KV!Next
  <2>3. CASE EraseStart(k)
    <3> DEFINE call == [type |-> "Delete", key |-> k]
    <3>1. call \in KV!Calls
      BY DEF KV!Calls
    <3>2. KV!Invoke(call)
      BY <1>1, <2>1, <2>3 DEF EraseStart, disk, KV!Invoke
    <3> QED
      BY <3>1, <3>2 DEF KV!Next
  <2> QED
    BY <1>13, <2>2, <2>3
<1>14. CASE rebuild_index \/ recover_records \/ \E by \in {"close", "dtor"} : CloseStart(by)
  <2>1. /\ pc = "idle" /\ resp' = "none" /\ log' = log
        /\ pc' = "close_mark" \/ (pc' \in Rebuilding /\ caller' = "api")
    BY <1>14 DEF rebuild_index, recover_records, CloseStart, StartRebuild, disk, Rebuilding
  <2>2. KV!Maintain
    BY <1>1, <2>1 DEF KV!Maintain
  <2> QED
    BY <2>2 DEF KV!Next
<1>15. CASE CloseRefused \/ \E k \in Keys, v \in Values : PutRejected(k, v)
  <2>1. pc = "idle" /\ pc' = "idle" /\ resp' = "throw" /\ log' = log
    BY <1>15 DEF CloseRefused, PutRejected, disk
  <2>2. KV!Reject
    BY <1>1, <2>1 DEF KV!Reject
  <2> QED
    BY <2>2 DEF KV!Next
<1>16. CASE DestroyUnclean
  BY <1>16 DEF DestroyUnclean, IInv, CheckpointInStep
<1>17. CASE Crash
  <2>1. pc # "none" /\ pc' = "none" /\ resp' = "none" /\ storeBar' = storeBar
    BY <1>1, <1>17, ContentsKept DEF Crash, Kill, KillInAppend, Gone, disk
  <2>2. statusBar # "down"
    BY <2>1 DEF statusBar
  <2>3. KV!Die
    BY <2>1, <2>2 DEF KV!Die
  <2> QED
    BY <2>3 DEF KV!Next
<1>18. CASE IOFail
  BY <1>18 DEF IOFail, FailAppend, FailIndexWrite, FailRebuild, FailReload, FailConstructor, FailClose
<1>19. CASE Environment
  <2>1. CASE RemoveIndexFile \/ DamageIndexFile
    <3>1. KV!Disturb
      BY <1>1, <2>1 DEF RemoveIndexFile, DamageIndexFile, KV!Disturb
    <3> QED
      BY <3>1 DEF KV!Next
  <2>2. CASE RemoveDbFile
    <3>1. storeBar' = KV!Nothing
      BY <2>2 DEF RemoveDbFile, storeBar, Contents, LatestComplete, KV!Nothing
    <3>2. KV!Lose
      BY <2>2, <3>1 DEF RemoveDbFile, KV!Lose
    <3> QED
      BY <3>2 DEF KV!Next
  <2> QED
    BY <1>19, <2>1, <2>2 DEF Environment
<1>20. CASE UNCHANGED vars
  <2>1. UNCHANGED <<storeBar, statusBar, pendingBar, answersBar, resp>>
    BY <1>1, <1>20 DEF vars, disk, locals, statusBar, pendingBar, answersBar, get, read_record
  <2> QED
    BY <2>1 DEF KV!vars
<1> QED
  BY <1>2, <1>3, <1>4, <1>5, <1>6, <1>7, <1>8, <1>9, <1>10, <1>11, <1>12, <1>13, <1>14, <1>15,
     <1>16, <1>17, <1>18, <1>19, <1>20 DEF Next, Call, Step

(* Acknowledged puts and erases survive every crash, an interrupted call   *)
(* happened entirely or not at all, and recovery changes no answer: the    *)
(* database implements KVStore.                                            *)
THEOREM DatabaseImplementsKVStore ==
    ASSUME ~IOFaults, RebuildStarts \subseteq {0}
    PROVE  Spec => ImplementsKVStore
<1>1. Init => KV!Init
  <2> SUFFICES ASSUME Init PROVE KV!Init
    OBVIOUS
  <2>1. storeBar = KV!Nothing
    BY DEF Init, storeBar, Contents, LatestComplete, KV!Nothing
  <2>2. statusBar = "down" /\ pendingBar = KV!NoCall /\ answersBar = KV!NoAnswers /\ resp = "none"
    BY DEF Init, statusBar, pendingBar, answersBar, KV!NoCall, KV!NoAnswers
  <2> QED
    BY <2>1, <2>2 DEF KV!Init
<1>2. Init => CallerInv
  BY DEF Init, CallerInv
<1>3. IInv => TypeOK
  BY DEF IInv
<1>4. ASSUME IInv, IInv', CallerInv, LocationsAreSeen, LocationsAreSeen', [Next]_vars
      PROVE  [KV!Next]_(KV!vars)
  BY <1>4, StepSimulation
<1>5. IInv /\ IInv' /\ CallerInv /\ LocationsAreSeen /\ LocationsAreSeen' /\ [Next]_vars
        => [KV!Next]_(KV!vars)
  BY <1>4
<1>6. Spec => [](IInv /\ CallerInv)
  BY <1>2, <1>3, CallerStep, InductiveInvariant, PTL DEF Spec
<1>7. IInv /\ CallerInv => LocationsAreSeen
  BY LocationsSeen, IdleAnswers
<1> QED
  BY <1>1, <1>5, <1>6, <1>7, PTL DEF Spec, ImplementsKVStore, KV!Spec

-----------------------------------------------------------------------------
(* Sessions that nothing disturbs, as the programs of apps/ have them.     *)

(* A new database in its first session, which only puts. *)
FirstSession ==
    /\ pc \in {"ctor_index", "ctor_index_setup", "ctor_empty", "ctor_db_setup", "ctor_checkpoint",
               "ctor_mark_dirty", "idle", "put_append", "put_index", "put_checkpoint"}
    /\ pc = "ctor_index" => idxFile = "missing"
    /\ pc = "ctor_empty" => idx = EmptyIndex

(* Both files are there and every record is complete. *)
Whole == dbFile = "ok" /\ idxFile = "ok" /\ ~TornTail

(* Where an open of such files, and the idle object after it, can be. *)
Reopening == {"ctor_load", "ctor_mark_dirty", "recover", "replay", "rebuild_checkpoint", "idle"}

(* Cleared files are a state of IInv, whatever the index used to say.      *)
LEMMA ClearedFiles ==
    ASSUME TypeOK, pc = "none", dbFile = "missing", log = <<>>, idxFile = "missing"
    PROVE  IInv
BY DEF IInv, FilesMatchProgress, OnlyTheTailIsTorn, TornTail, DirtyWhileWriting, IndexInStep, InCall,
   CheckpointInStep, CleanIndexRepresentsLog, Writing

(* A first session refuses nothing, and each append stores its pair. *)
LEMMA FirstSessionStep ==
    ASSUME IInv, IInv', FirstSession, resp # "throw", Step
    PROVE  /\ FirstSession' /\ resp' # "throw" /\ pc' # "put_append"
           /\ pc' \in Constructing => pc \in Constructing
           /\ IF pc = "put_append" THEN storeBar' = [storeBar EXCEPT ![rec.key] = rec.value]
                                  ELSE storeBar' = storeBar
<1> USE DEF FirstSession
<1>1. log' = log => storeBar' = storeBar
  BY DEF storeBar
<1>2. CASE NewIndexCreate \/ NewIndexSetup \/ NewDbSetup \/ NewCheckpoint \/ NewDbCreate
  <2>1. storeBar' = storeBar
    BY <1>1, <1>2, ContentsKept DEF NewIndexCreate, NewIndexSetup, NewDbSetup, NewCheckpoint
  <2>2. /\ resp' = resp
        /\ pc \in Constructing
        /\ pc' \in {"ctor_index_setup", "ctor_empty", "ctor_db_setup", "ctor_checkpoint",
                   "ctor_mark_dirty"}
        /\ pc' = "ctor_empty" => idx' = EmptyIndex
    BY <1>2 DEF NewIndexCreate, NewIndexSetup, NewDbSetup, NewCheckpoint, NewDbCreate, Constructing
  <2> QED
    BY <2>1, <2>2 DEF Constructing
<1>3. CASE MarkDirty \/ PutCheckpoint
  BY <1>1, <1>3 DEF MarkDirty, PutCheckpoint, Return, Constructing
<1>4. CASE PutIndex
  BY <1>1, <1>4 DEF PutIndex, Constructing
<1>5. CASE PutAppend
  <2>1. pc = "put_append" /\ pc' = "put_index" /\ resp' = resp
    BY <1>5 DEF PutAppend
  <2>2. rec.type = "Put"
    BY <2>1 DEF IInv, IndexInStep
  <2>3. storeBar' = [storeBar EXCEPT ![rec.key] = rec.value]
    BY <1>5, <2>2, AppendCommits
  <2> QED
    BY <2>1, <2>3 DEF Constructing
<1>6. CASE NewIndexLoad \/ NewIndexInvalid \/ NewIndexNotEmpty
  BY <1>6 DEF NewIndexLoad, NewIndexInvalid, NewIndexNotEmpty
<1> QED
  BY <1>2, <1>3, <1>4, <1>5, <1>6 DEF Step, LoadInvalidDb, LoadMissingIndex, LoadInvalidIndex,
     LoadCleanIndex, LoadUncleanIndex, RecoverWhole, RecoverTruncate, RecoverCorrupt, Replay,
     ReplayCorrupt, Install, RebuildCheckpointInCall, RebuildCheckpointInConstructor, EraseAppend,
     EraseZero, EraseUnlink, EraseCheckpoint, CloseMark

(* The only step of an object that is being closed. *)
LEMMA OnlyCloseMark ==
    ASSUME pc \in {"close_mark", "none"}, Step
    PROVE  CloseMark
BY DEF Step, NewIndexCreate, NewIndexSetup, NewIndexLoad,
   NewIndexInvalid, NewIndexNotEmpty, NewDbCreate, NewDbSetup, NewCheckpoint,
   LoadInvalidDb, LoadMissingIndex, LoadInvalidIndex, LoadCleanIndex, LoadUncleanIndex,
   MarkDirty, RecoverWhole, RecoverTruncate, RecoverCorrupt, Replay, ReplayCorrupt,
   Install, RebuildCheckpointInCall, RebuildCheckpointInConstructor, PutAppend,
   PutIndex, PutCheckpoint, EraseAppend, EraseZero, EraseUnlink, EraseCheckpoint

(* Whether or not the index is rebuilt, an open of whole files truncates,  *)
(* refuses and loses nothing.                                              *)
LEMMA ReopenStep ==
    ASSUME IInv, Whole, resp # "throw", Step, pc \in Reopening
    PROVE  /\ Whole' /\ UNCHANGED log /\ resp' # "throw" /\ pc' \in Reopening
           /\ \/ LoadCleanIndex \/ LoadUncleanIndex \/ MarkDirty \/ RecoverWhole \/ Replay \/ Install
              \/ RebuildCheckpointInCall \/ RebuildCheckpointInConstructor
<1>1. log \in Seq(Items)
  BY DEF IInv, TypeOK, DataOK
<1>2. read_record(scan_records) = "EndOfFile"
  BY <1>1, ScanStops DEF IInv, Whole
<1>3. ~ReplayCorrupt
  <2> SUFFICES ASSUME ReplayCorrupt PROVE FALSE
    OBVIOUS
  <2>1. pos \in 1 .. Len(log) /\ log[pos].status # "Success"
    BY <1>1, ReadInside DEF ReplayCorrupt
  <2> QED
    BY <2>1 DEF Whole, TornTail
<1>4. CASE \/ LoadCleanIndex \/ LoadUncleanIndex \/ MarkDirty \/ RecoverWhole \/ Replay \/ Install
           \/ RebuildCheckpointInCall \/ RebuildCheckpointInConstructor
  <2>1. /\ UNCHANGED <<log, dbFile>> /\ idxFile' = "ok"
        /\ resp' \in {resp, "ok"} /\ pc' \in Reopening
    BY <1>4 DEF LoadCleanIndex, LoadUncleanIndex, MarkDirty, RecoverWhole, Replay, Install,
       RebuildCheckpointInCall, RebuildCheckpointInConstructor, StartRebuild, Return, disk, Whole,
       Reopening
  <2> QED
    BY <1>4, <2>1 DEF Whole, TornTail
<1>5. CASE RecoverTruncate \/ RecoverCorrupt
  BY <1>2, <1>5 DEF RecoverTruncate, RecoverCorrupt
<1>6. CASE LoadInvalidDb \/ LoadMissingIndex \/ LoadInvalidIndex
  BY <1>6 DEF LoadInvalidDb, LoadMissingIndex, LoadInvalidIndex, Whole
<1> QED
  BY <1>3, <1>4, <1>5, <1>6 DEF Step, Reopening, NewIndexCreate, NewIndexSetup,
     NewIndexLoad, NewIndexInvalid, NewIndexNotEmpty, NewDbCreate, NewDbSetup, NewCheckpoint,
     PutAppend, PutIndex, PutCheckpoint, EraseAppend, EraseZero, EraseUnlink, EraseCheckpoint, CloseMark
=============================================================================
