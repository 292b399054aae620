------------------------- MODULE DatabaseProperties -------------------------
(***************************************************************************)
(* What makes the Database correct: the index may be trusted when its      *)
(* header says so, recovery loses nothing that was complete, a session     *)
(* that was not closed is noticed, and the whole implements KVStore.       *)
(***************************************************************************)
EXTENDS Database

(* get() returns an optional: nullopt is no value. *)
ASSUME AbsentAssumption == Absent \notin Values

Labels ==
    {"none", "idle", "ctor_index", "ctor_index_setup", "ctor_empty", "ctor_db_setup",
     "ctor_checkpoint", "ctor_load", "ctor_mark_dirty", "recover", "replay",
     "rebuild_checkpoint", "put_append", "put_index", "put_checkpoint",
     "erase_append", "erase_zero", "erase_unlink", "erase_checkpoint", "close_mark"}

FileStates == {"missing", "invalid", "ok"}
Reasons == {"missing_index", "invalid_index", "unclean_index"}
Offsets == Nat
Maps == [Keys -> Offsets \cup {NoEntry}]
Reports == [reason : {"none"} \cup Reasons, action : {"none", "full_index_rebuild"},
            truncated : Nat]

(* Every variable keeps its shape: offsets are never negative, the index   *)
(* maps keys to offsets, and the record being written is a whole record.   *)
FlagsOK == indexClean \in BOOLEAN /\ unfinished \in BOOLEAN
DataOK ==
    /\ dbFile \in FileStates /\ idxFile \in FileStates
    /\ log \in Seq(Items)
    /\ idx \in Maps /\ tmp \in Maps
    /\ indexedUpTo \in Offsets /\ cachedUpTo \in Offsets
    /\ pc \in Labels
    /\ report \in Reports
    /\ rec \in Records \cup {NoRec}
    /\ pc \in {"put_append", "put_index", "put_checkpoint", "erase_append",
               "erase_zero", "erase_unlink", "erase_checkpoint"} => rec \in Records
    /\ startOffset \in Offsets /\ endOffset \in Offsets /\ pos \in Offsets
    /\ truncated \in Nat
    /\ caller \in {"none", "api", "close", "dtor"} \cup Reasons
    /\ pc \in {"recover", "replay", "rebuild_checkpoint"} => caller \in {"api"} \cup Reasons
    /\ resp \in {"none", "ok", "absent", "throw"}
TypeOK == FlagsOK /\ DataOK

-----------------------------------------------------------------------------
(* i is the newest of the first n records about k. *)
IsLatest(l, n, k, i) ==
    /\ i \in 1 .. n
    /\ l[i].key = k
    /\ \A j \in (i + 1) .. n : l[j].key # k

(* ix is exactly the index of the first n records: a key that was never    *)
(* put, or that was deleted last, has no entry, and every other key points *)
(* at its newest record, a Put.                                            *)
Represents(ix, l, n) ==
    \A k \in Keys :
        IF ix[k] = NoEntry
        THEN \A i \in 1 .. n : IsLatest(l, n, k, i) => l[i].type = "Delete"
        ELSE IsLatest(l, n, k, ix[k]) /\ l[ix[k]].type = "Put"

AllComplete(l) == \A i \in 1 .. Len(l) : l[i].status = "Success"

(* The comment in close(), made a state predicate of the files: whenever   *)
(* the header would make the constructor skip recovery (index_clean set    *)
(* and indexed_up_to_offset equal to the file size), the index represents  *)
(* the complete data log and the log ends with a complete record.  It must *)
(* hold at every instant, because the process can be killed at any.        *)
CleanIndexRepresentsLog ==
    dbFile = "ok" /\ idxFile = "ok" /\ index_metadata_clean =>
        AllComplete(log) /\ Represents(idx, log, Len(log))

(* The notes on Recovery v1: indexed_up_to_offset "means this index is     *)
(* known to correctly represent .zdb through this byte offset".  Whenever  *)
(* the client can make a call, that is what the header on disk says.       *)
CheckpointIsTrue ==
    pc = "idle" => indexedUpTo \in 1 .. FileSize
                   /\ Represents(idx, log, indexedUpTo - HeaderSize)

(* When the constructor has recovered, whatever the files went through,    *)
(* the new index is exact and no fragment is left in the log.              *)
RecoveredIndexIsExact ==
    pc = "ctor_mark_dirty" /\ report.reason # "none" =>
        AllComplete(log) /\ Represents(idx, log, Len(log))

(* A session that reached the end of its constructor and was not closed is *)
(* always noticed: the next open that succeeds has rebuilt the index.      *)
UnfinishedSessionIsRecovered ==
    pc = "ctor_mark_dirty" /\ unfinished => report.action = "full_index_rebuild"

TornTail == \E i \in 1 .. Len(log) : log[i].status # "Success"

(* The files that no open accepts: the data file was created but never got *)
(* its header; there is no data file and the index is malformed or belongs *)
(* to another one; or the index must be rebuilt from a log that ends in a  *)
(* fragment (only the unclean path truncates).                             *)
Unopenable ==
    \/ dbFile = "invalid"
    \/ dbFile = "missing" /\ (idxFile = "invalid" \/ idx # EmptyIndex)
    \/ dbFile = "ok" /\ idxFile # "ok" /\ TornTail

(* When every file operation succeeds, the constructor refuses only these. *)
RefusalIsJustified == pc = "none" /\ resp = "throw" => Unopenable

(* Recovery v1 notes: the index file "can always be deleted and rebuilt".  *)
(* So an open of a data file whose complete records are all readable must  *)
(* not be refused because of the index.                                    *)
IndexIsDisposable ==
    pc = "none" /\ resp = "throw" /\ dbFile = "ok" =>
        \E i \in 1 .. Len(log) : log[i].status \in {"InvalidLength", "ChecksumMismatch"}

(* The data file is append-only, save for an incomplete tail: no step of   *)
(* the program removes or changes a complete record.                       *)
CompleteRecordsAreKept ==
    [][dbFile' = "ok" /\ dbFile = "ok" =>
         \A i \in 1 .. Len(log) :
            log[i].status = "Success" => i <= Len(log') /\ log'[i] = log[i]]_vars

(* With failing file operations: a put() or erase() that is about to be    *)
(* acknowledged is what get() answers, whatever failed before it (stale    *)
(* entries, entries left zeroed by a half-done erase, fragments in the log *)
(* in front of the record).                                                *)
AcknowledgedWriteIsVisible ==
    /\ pc = "put_checkpoint" => get(rec.key) = rec.value
    /\ pc = "erase_checkpoint" => get(rec.key) = Absent

-----------------------------------------------------------------------------
(* Why it works: the inductive invariant, for a process that may be killed *)
(* anywhere but whose file operations do not fail, and that rebuilds from  *)
(* the start of the log.                                                   *)

Writing == {"put_append", "put_index", "put_checkpoint",
            "erase_append", "erase_zero", "erase_unlink", "erase_checkpoint"}

(* Where the files must be for the process to be where it is. *)
FilesMatchProgress ==
    /\ dbFile # "ok" => log = <<>>
    /\ pc \in {"ctor_index", "ctor_index_setup", "ctor_empty"} => dbFile = "missing"
    /\ pc = "ctor_db_setup" => dbFile = "invalid"
    /\ pc \in {"idle", "ctor_checkpoint", "ctor_mark_dirty", "recover", "replay",
               "rebuild_checkpoint", "close_mark"} \cup Writing => dbFile = "ok"
    /\ pc \in {"idle", "ctor_empty", "ctor_db_setup", "ctor_checkpoint", "ctor_mark_dirty",
               "recover", "rebuild_checkpoint", "close_mark"} \cup Writing => idxFile = "ok"
    /\ pc \in {"ctor_db_setup", "ctor_checkpoint"} => idx = EmptyIndex /\ log = <<>>

(* A fragment is always the last thing in the log.  It is there only while *)
(* the index is marked dirty, and only until recovery truncates it.        *)
OnlyTheTailIsTorn ==
    /\ \A i \in 1 .. Len(log) :
         \/ log[i].status = "Success"
         \/ i = Len(log) /\ log[i].status = "Truncated"
    /\ TornTail =>
         /\ ~indexClean
         /\ pc \in {"none", "ctor_load", "recover", "replay"}
         /\ caller # "api"
         /\ pc = "replay" => idxFile # "ok"

(* The index is marked dirty before anything else is written. *)
DirtyWhileWriting ==
    pc \in {"idle", "rebuild_checkpoint", "close_mark"} \cup Writing => ~indexClean

(* How far the index is behind the log at each point of a call. *)
InCall == pc \in {"recover", "replay"} /\ caller = "api"
IndexInStep ==
    /\ pc \in {"idle", "put_append", "put_checkpoint", "erase_append", "erase_checkpoint",
               "close_mark", "rebuild_checkpoint", "ctor_mark_dirty"} \/ InCall =>
         Represents(idx, log, Len(log))
    /\ pc \in {"put_index", "erase_zero", "erase_unlink"} =>
         /\ log # <<>>
         /\ log[Len(log)] = Complete(rec)
    /\ pc \in {"put_append", "put_index"} => rec.type = "Put"
    /\ pc \in {"erase_append", "erase_zero", "erase_unlink"} => rec.type = "Delete"
    /\ pc = "put_index" => startOffset = Len(log)
    /\ pc \in {"put_index", "erase_zero"} => Represents(idx, log, Len(log) - 1)
    /\ pc = "erase_unlink" => Represents(index_unlink(idx, rec.key), log, Len(log))
    /\ pc = "replay" =>
         /\ pos \in 1 .. (Len(log) + 1)
         /\ \A i \in 1 .. (pos - 1) : log[i].status = "Success"
         /\ Represents(tmp, log, pos - 1)

(* The header's offset, on disk and in memory, is the end of the file      *)
(* whenever no call is between its append and its checkpoint.              *)
CheckpointInStep ==
    /\ pc \in {"idle", "put_append", "erase_append", "close_mark", "ctor_mark_dirty"} =>
         indexedUpTo = FileSize /\ cachedUpTo = FileSize
    /\ pc \in {"put_index", "put_checkpoint", "erase_zero", "erase_unlink",
               "erase_checkpoint"} => endOffset = FileSize
    /\ InCall => indexedUpTo = FileSize /\ cachedUpTo = FileSize

(* The conjunction TLAPS proves inductive; TLC checks it on the instance.  *)
IInv ==
    /\ TypeOK
    /\ FilesMatchProgress
    /\ OnlyTheTailIsTorn
    /\ DirtyWhileWriting
    /\ IndexInStep
    /\ CheckpointInStep
    /\ CleanIndexRepresentsLog

(* A session that is not closed leaves the dirty mark and its data file;   *)
(* inductive by itself, failing file operations included.                  *)
UnfinishedInv ==
    /\ unfinished => ~indexClean /\ dbFile = "ok"
    /\ pc \in {"ctor_index", "ctor_index_setup", "ctor_empty"} => dbFile = "missing"
    /\ pc \in {"ctor_db_setup", "ctor_checkpoint"} => ~unfinished
    /\ pc \in {"idle", "ctor_checkpoint", "ctor_mark_dirty", "recover", "replay",
               "rebuild_checkpoint", "close_mark"} \cup Writing => dbFile = "ok"
    /\ UnfinishedSessionIsRecovered

(* What the constructor knows while it recovers, failing file operations   *)
(* and rebuilds from any offset by earlier sessions included: it starts at *)
(* the head of the log and gives up at the first fragment.                 *)
RecoveryInv ==
    /\ pc = "replay" /\ caller \in Reasons =>
         /\ pos \in 1 .. (Len(log) + 1)
         /\ \A i \in 1 .. (pos - 1) : log[i].status = "Success"
         /\ Represents(tmp, log, pos - 1)
    /\ pc = "rebuild_checkpoint" /\ caller \in Reasons =>
         AllComplete(log) /\ Represents(idx, log, Len(log))
    /\ pc \in {"none", "ctor_index", "ctor_index_setup", "ctor_empty", "ctor_db_setup",
               "ctor_checkpoint", "ctor_load"} => report = NoReport
    /\ RecoveredIndexIsExact

(* What a put() or erase() that is about to be acknowledged has done, again *)
(* whatever failed before: its record is in the log, whole, where the      *)
(* index says.                                                             *)
WriteInv ==
    /\ pc \in {"put_append", "put_index", "put_checkpoint"} => rec.type = "Put"
    /\ pc \in {"put_index", "put_checkpoint"} =>
         startOffset \in 1 .. Len(log) /\ log[startOffset] = Complete(rec)
    /\ pc = "put_checkpoint" => idx[rec.key] = startOffset
    /\ pc = "erase_checkpoint" => idx[rec.key] = NoEntry

(* The record of a running put() or erase() ends the log, ... *)
RecordIsLast ==
    /\ pc \in {"put_append", "put_index", "put_checkpoint"} => rec.type = "Put"
    /\ pc \in {"put_index", "put_checkpoint"} => startOffset = Len(log)
    /\ pc \in {"put_index", "put_checkpoint", "erase_zero", "erase_unlink",
               "erase_checkpoint"} =>
         /\ log # <<>> /\ endOffset = FileSize
         /\ log[Len(log)] = Complete(rec)

(* ... and what a replay, from whatever offset it started, has found of a  *)
(* key is a Put that no complete record of the key follows so far.         *)
ReplayFindsNewest ==
    pc = "replay" =>
        \A k \in Keys : tmp[k] # NoEntry =>
            /\ pos <= Len(log) + 1 /\ tmp[k] \in 1 .. (pos - 1)
            /\ log[tmp[k]].status = "Success" /\ log[tmp[k]].type = "Put" /\ log[tmp[k]].key = k
            /\ \A j \in (tmp[k] + 1) .. (pos - 1) :
                 log[j].status = "Success" => log[j].key # k

EntriesInv == RecordIsLast /\ ReplayFindsNewest

-----------------------------------------------------------------------------
(* Database implements KVStore.  The contents are what the complete        *)
(* records say, a call is committed when its record is in the file.        *)

LatestComplete(l, k) ==
    { i \in 1 .. Len(l) :
        /\ l[i].status = "Success" /\ l[i].key = k
        /\ \A j \in (i + 1) .. Len(l) : ~(l[j].status = "Success" /\ l[j].key = k) }

Contents(l) ==
    [k \in Keys |->
        IF \E i \in LatestComplete(l, k) : l[i].type = "Put"
        THEN l[CHOOSE i \in LatestComplete(l, k) : TRUE].value
        ELSE Absent]

storeBar == Contents(log)

statusBar ==
    CASE pc = "none" -> "down"
      [] pc = "idle" -> "ready"
      [] pc \in {"put_append", "put_index", "put_checkpoint", "erase_append",
                 "erase_zero", "erase_unlink", "erase_checkpoint"} -> "busy"
      [] pc \notin {"none", "idle"} /\ caller \in {"api", "close", "dtor"} -> "busy"
      [] OTHER -> "opening"

pendingBar ==
    CASE pc = "put_append" -> rec
      [] pc = "erase_append" -> [type |-> "Delete", key |-> rec.key]
      [] OTHER -> [type |-> "None"]

answersBar == [k \in Keys |-> IF pc = "idle" THEN get(k) ELSE Unavailable]

KV == INSTANCE KVStore WITH
        store <- storeBar, status <- statusBar, pending <- pendingBar,
        answers <- answersBar, resp <- resp, MayLose <- "rm_db" \in EnvFaults

(* With failing file operations an index entry may be stale, zeroed or     *)
(* point past a truncated log.  But an entry is only ever changed to lead  *)
(* to the newest complete record of its key, a Put: no put, no rebuild     *)
(* from whatever offset, no rename of a recovery that then fails brings    *)
(* back an overwritten value or a deleted key.                             *)
EntriesBecomeNewest ==
    [][\A k \in Keys :
         idx'[k] # idx[k] /\ idx'[k] > 0 =>
            idx'[k] \in LatestComplete(log', k) /\ log'[idx'[k]].type = "Put"]_vars

(* "Cleanly closing requires the index to represent the complete data      *)
(* log": an index that the next open would trust answers every key as the  *)
(* complete records of the log do.  A fragment is no record.               *)
CleanIndexAnswersWithContents ==
    dbFile = "ok" /\ idxFile = "ok" /\ index_metadata_clean =>
        \A k \in Keys : get(k) = storeBar[k]

(* What the step-by-step proof needs beyond IInv: on whose behalf the      *)
(* process is where it is, ...                                             *)
CallerInv ==
    /\ pc \in {"none", "idle", "ctor_index", "ctor_index_setup", "ctor_empty", "ctor_db_setup",
               "ctor_checkpoint", "ctor_load"} \cup Writing => caller = "none"
    /\ pc = "ctor_mark_dirty" => caller \in {"none"} \cup Reasons
    /\ pc = "close_mark" => caller \in {"close", "dtor"}

(* ... and that an open database answers with its contents. *)
AnswersAreContents == pc = "idle" => \A k \in Keys : get(k) = storeBar[k]

(* The promise to the client: acknowledged puts and erases survive any     *)
(* crash, an interrupted call happened entirely or not at all, recovery    *)
(* and rebuilds change no answer, erase() tells the truth about presence.  *)
ImplementsKVStore == KV!Spec

-----------------------------------------------------------------------------
(* Every call, and every open, comes to an end. *)
CallsTerminate == pc \notin {"none", "idle"} ~> pc \in {"none", "idle"}

(* Once the process is no longer killed and nobody takes files away, the   *)
(* database becomes usable again and again, or it has ended as one of the  *)
(* unopenable combinations of files: recovery never loops and never gives  *)
(* up on files it can recover, however many crashes there were, recovery's *)
(* own included.                                                           *)
ReadyOnceCrashesStop ==
    <>[][~Crash /\ ~Environment]_vars => []<>(pc = "idle") \/ <>[]Unopenable
=============================================================================
