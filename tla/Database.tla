------------------------------ MODULE Database ------------------------------
(***************************************************************************)
(* One zidanedb database on disk and the process that has it open          *)
(* (src/database.cpp, class Database).                                     *)
(*                                                                         *)
(* The database is two files.  The data file is a header followed by an    *)
(* append-only log of checksummed Put and Delete records; it is the source *)
(* of truth.  The index file maps each key to the offset of its newest Put *)
(* record and carries two fields that say whether it may be trusted:       *)
(* index_clean and indexed_up_to_offset.                                   *)
(*                                                                         *)
(* Granularity.  A step is what reaches a file in one go: one write() or   *)
(* flush, one resize, one rename.  The process can be killed between any   *)
(* two steps; a record, which can be as large as 16 MiB, can also be cut   *)
(* in the middle.  Reads have no step of their own: no one else writes.    *)
(*                                                                         *)
(* Offsets.  The header occupies offset 0 and every record one unit, so    *)
(* that the record at offset i is log[i] and the file ends at offset       *)
(* Len(log) + 1.  Only the order of offsets matters to this module.        *)
(*                                                                         *)
(* Index.  The index file is abstracted to the map it stores; HashIndex    *)
(* models its buckets and chains.                                          *)
(***************************************************************************)
EXTENDS Integers, Sequences

CONSTANTS
    Keys,
    Values,
    EmptyValue,      \* the empty string
    TooLargeKeys,    \* keys longer than MAX_KEY_SIZE
    TooLargeValues,  \* values longer than MAX_VALUE_SIZE
    MaxLog,          \* bound: put() and erase() start only below this length
    RebuildStarts,   \* arguments given to rebuild_index()
    EnvFaults,       \* what happens to the files while no process has them open
    IOFaults         \* whether a file operation may fail and throw

ASSUME DatabaseAssumption ==
    /\ EmptyValue \in Values
    /\ TooLargeKeys \subseteq Keys
    /\ TooLargeValues \subseteq Values
    /\ MaxLog \in Nat
    /\ RebuildStarts \subseteq Nat
    /\ EnvFaults \subseteq {"rm_index", "damage_index", "rm_db"}
    /\ IOFaults \in BOOLEAN

VARIABLES
    \* ---- on disk
    dbFile,        \* the data file: "missing", "invalid" (bad header) or "ok"
    log,           \* its records, in file order
    idxFile,       \* the index file: "missing", "invalid" or "ok"
    idx,           \* the map the index file stores
    indexedUpTo,   \* its header field indexed_up_to_offset
    indexClean,    \* its header field index_clean
    \* ---- members of the Database object
    cachedUpTo,    \* index_->indexed_up_to_offset_
    report,        \* open_recovery_report_
    \* ---- where the process is, and the locals of the running call
    pc,
    rec,           \* the record being written
    startOffset,   \* db_start_offset
    endOffset,     \* db_end_offset
    tmp,           \* the map in the staging index of a rebuild
    pos,           \* offset of the next record a rebuild reads
    caller,        \* who called recover_records, rebuild_index_impl or close
    truncated,     \* truncated_bytes
    resp,          \* outcome of the last call
    \* ---- history: a session marked the index dirty and was not closed since
    unfinished

disk == <<dbFile, log, idxFile, idx, indexedUpTo, indexClean>>
handle == <<cachedUpTo, report>>
locals == <<rec, startOffset, endOffset, tmp, pos, caller, truncated>>
vars == <<disk, handle, locals, pc, resp, unfinished>>

-----------------------------------------------------------------------------
(* Records and the log.                                                    *)

Records == [type : {"Put", "Delete"}, key : Keys, value : Values]
NoRec == [type |-> "None"]

(* What read_record() returns for the bytes at an offset.  A complete      *)
(* record reads as "Success".  A fragment at the end of the file reads as  *)
(* "Truncated"; once other bytes follow it, the length it announces may    *)
(* still reach past the end, or be too large, or the checksum may fail.    *)
(* (Records.tla derives this from the bytes.  Left out here: a fragment    *)
(* that lacks only the end of its checksum and is completed by chance by   *)
(* the bytes that follow it.)                                              *)
FragmentStatus == {"Truncated", "InvalidLength", "ChecksumMismatch"}

Fragment == [status |-> "Truncated"]
Complete(r) == [type |-> r.type, key |-> r.key, value |-> r.value, status |-> "Success"]

Items == [type : {"Put", "Delete"}, key : Keys, value : Values, status : {"Success"}]
           \cup [status : FragmentStatus]

HeaderSize == 1
FileSize == HeaderSize + Len(log)

read_record(offset) ==
    IF offset \in 1 .. Len(log) THEN log[offset].status ELSE "EndOfFile"

(* Every log that appending the item can leave: bytes that now follow an   *)
(* earlier fragment change what that fragment reads as.                    *)
Reread(item, reading) ==
    IF item.status = "Truncated" THEN [item EXCEPT !.status = reading] ELSE item
Appended(item) ==
    { Append([i \in 1 .. Len(log) |-> Reread(log[i], reading[i])], item) :
        reading \in [1 .. Len(log) -> FragmentStatus] }

(* The scan stops at the first record that does not read as Success.       *)
FailingOffset(o) ==
    /\ o \in 1 .. (Len(log) + 1)
    /\ read_record(o) # "Success"
    /\ \A i \in 1 .. (o - 1) : log[i].status = "Success"
scan_records == CHOOSE o \in 1 .. (Len(log) + 1) : FailingOffset(o)

-----------------------------------------------------------------------------
(* The index as a map.  NoEntry: the key is in no chain.  NullOffset: the  *)
(* entry is still in its chain, with its db_offset overwritten by erase(). *)

NoEntry == -1
NullOffset == 0
EmptyIndex == [k \in Keys |-> NoEntry]

index_set(ix, k, offset) == [ix EXCEPT ![k] = offset]

(* Mutant: the entry stays in its chain. *)
index_unlink_forgotten(ix, k) == ix

index_unlink(ix, k) == [ix EXCEPT ![k] = NoEntry]

(* Mutant: a Delete record leaves the key in the index. *)
Apply_keeps_deleted(ix, item, offset) ==
    IF item.type = "Put" THEN index_set(ix, item.key, offset) ELSE ix

(* The effect of one record on the index that a rebuild fills. *)
Apply(ix, item, offset) ==
    IF item.type = "Put" THEN index_set(ix, item.key, offset)
                         ELSE index_unlink(ix, item.key)

(* Mutant: the clean flag is not consulted. *)
index_metadata_clean_by_size == FileSize = indexedUpTo

index_metadata_clean == indexClean /\ FileSize = indexedUpTo

Absent == "absent"
Error == "error"
Unavailable == "unavailable"

(* get(): nullopt, an exception, or the value of the record found. *)
get(k) ==
    CASE idx[k] = NoEntry -> Absent
      [] idx[k] # NoEntry /\ read_record(idx[k]) # "Success" -> Error
      [] OTHER -> IF log[idx[k]].type = "Put" /\ log[idx[k]].key = k
                  THEN log[idx[k]].value ELSE Error

-----------------------------------------------------------------------------
(* How calls end.                                                          *)

NoReport == [reason |-> "none", action |-> "none", truncated |-> 0]

LocalsGone ==
    /\ rec' = NoRec
    /\ startOffset' = 0
    /\ endOffset' = 0
    /\ tmp' = EmptyIndex
    /\ pos' = 0
    /\ caller' = "none"
    /\ truncated' = 0

(* A method of an open database returns or throws. *)
Return(outcome) ==
    /\ pc' = "idle"
    /\ resp' = outcome
    /\ LocalsGone

(* No Database object is left: the constructor threw, the object was       *)
(* closed or destroyed, or the process died.                               *)
Gone(outcome) ==
    /\ pc' = "none"
    /\ resp' = outcome
    /\ LocalsGone
    /\ cachedUpTo' = 0
    /\ report' = NoReport

(* An exception leaves recover_records() or rebuild_index_impl(): in the   *)
(* constructor there is no object, in a call the object stays open.        *)
Throw ==
    \/ /\ caller = "api"
       /\ Return("throw")
       /\ UNCHANGED handle
    \/ /\ caller # "api"
       /\ Gone("throw")

-----------------------------------------------------------------------------
(* The constructor, data file missing: index first, then the data file.    *)

OpenNew ==
    /\ pc = "none"
    /\ dbFile = "missing"
    /\ pc' = "ctor_index"
    /\ resp' = "none"
    /\ UNCHANGED <<disk, handle, locals, unfinished>>

(* Index::Index finds no file and setup() creates it, ... *)
NewIndexCreate ==
    /\ pc = "ctor_index"
    /\ idxFile = "missing"
    /\ idxFile' = "invalid"
    /\ pc' = "ctor_index_setup"
    /\ UNCHANGED <<dbFile, log, idx, indexedUpTo, indexClean, handle, locals, resp, unfinished>>

(* ... then writes header and empty buckets. *)
NewIndexSetup ==
    /\ pc = "ctor_index_setup"
    /\ idxFile' = "ok"
    /\ idx' = EmptyIndex
    /\ indexedUpTo' = 0
    /\ indexClean' = FALSE
    /\ cachedUpTo' = 0
    /\ pc' = "ctor_empty"
    /\ UNCHANGED <<dbFile, log, report, locals, resp, unfinished>>

NewIndexLoad ==
    /\ pc = "ctor_index"
    /\ idxFile = "ok"
    /\ cachedUpTo' = indexedUpTo
    /\ pc' = "ctor_empty"
    /\ UNCHANGED <<disk, report, locals, resp, unfinished>>

(* Nothing to rebuild a malformed index from: InvalidIndexError escapes. *)
NewIndexInvalid ==
    /\ pc = "ctor_index"
    /\ idxFile = "invalid"
    /\ Gone("throw")
    /\ UNCHANGED <<disk, unfinished>>

(* index_->empty() is false: the index belongs to a lost data file. *)
NewIndexNotEmpty ==
    /\ pc = "ctor_empty"
    /\ idx # EmptyIndex
    /\ Gone("throw")
    /\ UNCHANGED <<disk, unfinished>>

(* Database::setup() creates the data file, ... *)
NewDbCreate ==
    /\ pc = "ctor_empty"
    /\ idx = EmptyIndex
    /\ dbFile' = "invalid"
    /\ log' = <<>>
    /\ pc' = "ctor_db_setup"
    /\ UNCHANGED <<idxFile, idx, indexedUpTo, indexClean, handle, locals, resp, unfinished>>

(* ... then writes magic and version. *)
NewDbSetup ==
    /\ pc = "ctor_db_setup"
    /\ dbFile' = "ok"
    /\ pc' = "ctor_checkpoint"
    /\ UNCHANGED <<log, idxFile, idx, indexedUpTo, indexClean, handle, locals, resp, unfinished>>

(* Mutant: the object remembers the offset, the file does not get it. *)
set_indexed_up_to_offset_cached(offset) ==
    /\ cachedUpTo' = offset
    /\ UNCHANGED indexedUpTo

set_indexed_up_to_offset(offset) ==
    /\ indexedUpTo' = offset
    /\ cachedUpTo' = offset

NewCheckpoint ==
    /\ pc = "ctor_checkpoint"
    /\ set_indexed_up_to_offset(FileSize)
    /\ pc' = "ctor_mark_dirty"
    /\ UNCHANGED <<dbFile, log, idxFile, idx, indexClean, report, locals, resp, unfinished>>

-----------------------------------------------------------------------------
(* The constructor, data file present.                                     *)

OpenExisting ==
    /\ pc = "none"
    /\ dbFile # "missing"
    /\ pc' = "ctor_load"
    /\ resp' = "none"
    /\ UNCHANGED <<disk, handle, locals, unfinished>>

LoadInvalidDb ==
    /\ pc = "ctor_load"
    /\ dbFile = "invalid"
    /\ Gone("throw")
    /\ UNCHANGED <<disk, unfinished>>

(* rebuild_index_impl(start, ...) up to its replay loop: a fresh staging   *)
(* index in a directory of its own.                                        *)
StartRebuild(start, by) ==
    /\ pc' = "replay"
    /\ tmp' = EmptyIndex
    /\ pos' = IF start = 0 THEN HeaderSize ELSE start
    /\ caller' = by

LoadMissingIndex ==
    /\ pc = "ctor_load"
    /\ dbFile = "ok"
    /\ idxFile = "missing"
    /\ StartRebuild(0, "missing_index")
    /\ UNCHANGED <<disk, handle, rec, startOffset, endOffset, truncated, resp, unfinished>>

(* Mutant: InvalidIndexError is not caught. *)
LoadInvalidIndex_escapes ==
    /\ pc = "ctor_load"
    /\ dbFile = "ok"
    /\ idxFile = "invalid"
    /\ Gone("throw")
    /\ UNCHANGED <<disk, unfinished>>

LoadInvalidIndex ==
    /\ pc = "ctor_load"
    /\ dbFile = "ok"
    /\ idxFile = "invalid"
    /\ StartRebuild(0, "invalid_index")
    /\ UNCHANGED <<disk, handle, rec, startOffset, endOffset, truncated, resp, unfinished>>

LoadCleanIndex ==
    /\ pc = "ctor_load"
    /\ dbFile = "ok"
    /\ idxFile = "ok"
    /\ index_metadata_clean
    /\ cachedUpTo' = indexedUpTo
    /\ pc' = "ctor_mark_dirty"
    /\ UNCHANGED <<disk, report, locals, resp, unfinished>>

LoadUncleanIndex ==
    /\ pc = "ctor_load"
    /\ dbFile = "ok"
    /\ idxFile = "ok"
    /\ ~index_metadata_clean
    /\ cachedUpTo' = indexedUpTo
    /\ pc' = "recover"
    /\ caller' = "unclean_index"
    /\ UNCHANGED <<disk, report, rec, startOffset, endOffset, tmp, pos, truncated, resp,
                   unfinished>>

(* Mutant: the constructor forgets to mark the index dirty. *)
MarkDirty_forgotten ==
    /\ pc = "ctor_mark_dirty"
    /\ unfinished' = TRUE
    /\ Return("ok")
    /\ UNCHANGED <<disk, handle>>

(* The last write of the constructor: set_index_clean(false). *)
MarkDirty ==
    /\ pc = "ctor_mark_dirty"
    /\ indexClean' = FALSE
    /\ unfinished' = TRUE
    /\ Return("ok")
    /\ UNCHANGED <<dbFile, log, idxFile, idx, indexedUpTo, handle>>

-----------------------------------------------------------------------------
(* recover_records() and rebuild_index_impl().                             *)

RecoverWhole ==
    /\ pc = "recover"
    /\ read_record(scan_records) = "EndOfFile"
    /\ truncated' = 0
    /\ StartRebuild(0, caller)
    /\ UNCHANGED <<disk, handle, rec, startOffset, endOffset, resp, unfinished>>

(* Mutants: the operands are swapped; one record too many is cut off. *)
TruncatedBytes_swapped == scan_records - FileSize
resize_file_short(offset) == log' = SubSeq(log, 1, offset - 2)

TruncatedBytes == FileSize - scan_records
resize_file(offset) == log' = SubSeq(log, 1, offset - 1)

RecoverTruncate ==
    /\ pc = "recover"
    /\ read_record(scan_records) = "Truncated"
    /\ resize_file(scan_records)
    /\ truncated' = TruncatedBytes
    /\ StartRebuild(0, caller)
    /\ UNCHANGED <<dbFile, idxFile, idx, indexedUpTo, indexClean, handle,
                   rec, startOffset, endOffset, resp, unfinished>>

(* Mutant: an incomplete tail counts as corruption. *)
RecoverCorrupt_torn ==
    /\ pc = "recover"
    /\ read_record(scan_records) \notin {"Success", "EndOfFile"}
    /\ Throw
    /\ UNCHANGED <<disk, unfinished>>

RecoverCorrupt ==
    /\ pc = "recover"
    /\ read_record(scan_records) \in {"InvalidLength", "ChecksumMismatch"}
    /\ Throw
    /\ UNCHANGED <<disk, unfinished>>

(* Mutant: the loop does not move on to the next record. *)
Replay_stuck ==
    /\ pc = "replay"
    /\ read_record(pos) = "Success"
    /\ tmp' = Apply(tmp, log[pos], pos)
    /\ UNCHANGED <<disk, handle, rec, startOffset, endOffset, pos, caller, truncated, pc,
                   resp, unfinished>>

Replay ==
    /\ pc = "replay"
    /\ read_record(pos) = "Success"
    /\ tmp' = Apply(tmp, log[pos], pos)
    /\ pos' = pos + 1
    /\ UNCHANGED <<disk, handle, rec, startOffset, endOffset, caller, truncated, pc, resp,
                   unfinished>>

(* The loop stopped before the end of the file: the staging directory is   *)
(* removed and the installed index, if any, is left as it was.             *)
ReplayCorrupt ==
    /\ pc = "replay"
    /\ read_record(pos) \notin {"Success", "EndOfFile"}
    /\ Throw
    /\ UNCHANGED <<disk, unfinished>>

(* rename() over the old index, then an Index object for the new file,     *)
(* whose header still has the values that Index::setup() gave it.          *)
Install ==
    /\ pc = "replay"
    /\ read_record(pos) = "EndOfFile"
    /\ idxFile' = "ok"
    /\ idx' = tmp
    /\ indexedUpTo' = 0
    /\ indexClean' = FALSE
    /\ cachedUpTo' = 0
    /\ pc' = "rebuild_checkpoint"
    /\ UNCHANGED <<dbFile, log, report, locals, resp, unfinished>>

RebuildCheckpointInCall ==
    /\ pc = "rebuild_checkpoint"
    /\ caller = "api"
    /\ set_indexed_up_to_offset(FileSize)
    /\ Return("ok")
    /\ UNCHANGED <<dbFile, log, idxFile, idx, indexClean, report, unfinished>>

RebuildCheckpointInConstructor ==
    /\ pc = "rebuild_checkpoint"
    /\ caller # "api"
    /\ set_indexed_up_to_offset(FileSize)
    /\ report' = [reason |-> caller, action |-> "full_index_rebuild", truncated |-> truncated]
    /\ pc' = "ctor_mark_dirty"
    /\ UNCHANGED <<dbFile, log, idxFile, idx, indexClean, locals, resp, unfinished>>

rebuild_index ==
    /\ pc = "idle"
    /\ \E start \in RebuildStarts : StartRebuild(start, "api")
    /\ resp' = "none"
    /\ UNCHANGED <<disk, handle, rec, startOffset, endOffset, truncated, unfinished>>

recover_records ==
    /\ pc = "idle"
    /\ pc' = "recover"
    /\ caller' = "api"
    /\ resp' = "none"
    /\ UNCHANGED <<disk, handle, rec, startOffset, endOffset, tmp, pos, truncated, unfinished>>

-----------------------------------------------------------------------------
(* put().                                                                  *)

PutStart(k, v) ==
    /\ pc = "idle"
    /\ k \notin TooLargeKeys
    /\ v \notin TooLargeValues
    /\ Len(log) < MaxLog
    /\ rec' = [type |-> "Put", key |-> k, value |-> v]
    /\ pc' = "put_append"
    /\ resp' = "none"
    /\ UNCHANGED <<disk, handle, startOffset, endOffset, tmp, pos, caller, truncated, unfinished>>

PutRejected(k, v) ==
    /\ pc = "idle"
    /\ k \in TooLargeKeys \/ v \in TooLargeValues
    /\ resp' = "throw"
    /\ UNCHANGED <<disk, handle, locals, pc, unfinished>>

(* tellp(), the record, tellp(), flush(). *)
PutAppend ==
    /\ pc = "put_append"
    /\ log' \in Appended(Complete(rec))
    /\ startOffset' = FileSize
    /\ endOffset' = HeaderSize + Len(log')
    /\ pc' = "put_index"
    /\ UNCHANGED <<dbFile, idxFile, idx, indexedUpTo, indexClean, handle,
                   rec, tmp, pos, caller, truncated, resp, unfinished>>

PutIndex ==
    /\ pc = "put_index"
    /\ idx' = index_set(idx, rec.key, startOffset)
    /\ pc' = "put_checkpoint"
    /\ UNCHANGED <<dbFile, log, idxFile, indexedUpTo, indexClean, handle, locals, resp, unfinished>>

PutCheckpoint ==
    /\ pc = "put_checkpoint"
    /\ set_indexed_up_to_offset(endOffset)
    /\ Return("ok")
    /\ UNCHANGED <<dbFile, log, idxFile, idx, indexClean, report, unfinished>>

-----------------------------------------------------------------------------
(* erase().                                                                *)

EraseMissing(k) ==
    /\ pc = "idle"
    /\ idx[k] = NoEntry
    /\ resp' = "absent"
    /\ UNCHANGED <<disk, handle, locals, pc, unfinished>>

EraseStart(k) ==
    /\ pc = "idle"
    /\ idx[k] # NoEntry
    /\ Len(log) < MaxLog
    /\ rec' = [type |-> "Delete", key |-> k, value |-> EmptyValue]
    /\ pc' = "erase_append"
    /\ resp' = "none"
    /\ UNCHANGED <<disk, handle, startOffset, endOffset, tmp, pos, caller, truncated, unfinished>>

EraseAppend ==
    /\ pc = "erase_append"
    /\ log' \in Appended(Complete(rec))
    /\ endOffset' = HeaderSize + Len(log')
    /\ pc' = "erase_zero"
    /\ UNCHANGED <<dbFile, idxFile, idx, indexedUpTo, indexClean, handle,
                   rec, startOffset, tmp, pos, caller, truncated, resp, unfinished>>

(* Index::erase() overwrites db_offset, ... *)
EraseZero ==
    /\ pc = "erase_zero"
    /\ idx' = index_set(idx, rec.key, NullOffset)
    /\ pc' = "erase_unlink"
    /\ UNCHANGED <<dbFile, log, idxFile, indexedUpTo, indexClean, handle, locals, resp, unfinished>>

(* ... then takes the entry out of its chain. *)
EraseUnlink ==
    /\ pc = "erase_unlink"
    /\ idx' = index_unlink(idx, rec.key)
    /\ pc' = "erase_checkpoint"
    /\ UNCHANGED <<dbFile, log, idxFile, indexedUpTo, indexClean, handle, locals, resp, unfinished>>

EraseCheckpoint ==
    /\ pc = "erase_checkpoint"
    /\ set_indexed_up_to_offset(endOffset)
    /\ Return("ok")
    /\ UNCHANGED <<dbFile, log, idxFile, idx, indexClean, report, unfinished>>

-----------------------------------------------------------------------------
(* close(), called by the client ("close") or by the destructor ("dtor"),  *)
(* which swallows whatever close() throws.                                 *)

CloseStart(by) ==
    /\ pc = "idle"
    /\ FileSize = cachedUpTo
    /\ pc' = "close_mark"
    /\ caller' = by
    /\ resp' = "none"
    /\ UNCHANGED <<disk, handle, rec, startOffset, endOffset, tmp, pos, truncated, unfinished>>

CloseMark ==
    /\ pc = "close_mark"
    /\ indexClean' = TRUE
    /\ unfinished' = FALSE
    /\ Gone("ok")
    /\ UNCHANGED <<dbFile, log, idxFile, idx, indexedUpTo>>

(* "Cannot close database: index is not caught up". *)
CloseRefused ==
    /\ pc = "idle"
    /\ FileSize # cachedUpTo
    /\ resp' = "throw"
    /\ UNCHANGED <<disk, handle, locals, pc, unfinished>>

DestroyUnclean ==
    /\ pc = "idle"
    /\ FileSize # cachedUpTo
    /\ Gone("ok")
    /\ UNCHANGED <<disk, unfinished>>

-----------------------------------------------------------------------------
(* The process is killed.  The second action cuts the record being         *)
(* appended.                                                               *)

Kill ==
    /\ pc # "none"
    /\ Gone("none")
    /\ UNCHANGED <<disk, unfinished>>

KillInAppend ==
    /\ pc \in {"put_append", "erase_append"}
    /\ log' \in Appended(Fragment)
    /\ Gone("none")
    /\ UNCHANGED <<dbFile, idxFile, idx, indexedUpTo, indexClean, unfinished>>

Crash == Kill \/ KillInAppend

-----------------------------------------------------------------------------
(* File operations that fail and throw (IOFaults).                         *)

(* The append throws: nothing, or a fragment, reached the file. *)
FailAppend ==
    /\ IOFaults
    /\ pc \in {"put_append", "erase_append"}
    /\ \/ log' = log
       \/ log' \in Appended(Fragment)
    /\ Return("throw")
    /\ UNCHANGED <<dbFile, idxFile, idx, indexedUpTo, indexClean, handle, unfinished>>

(* A write of put() or erase() to the index throws. *)
FailIndexWrite ==
    /\ IOFaults
    /\ pc \in {"put_index", "put_checkpoint", "erase_zero", "erase_unlink", "erase_checkpoint"}
    /\ Return("throw")
    /\ UNCHANGED <<disk, handle, unfinished>>

(* recover_records() or rebuild_index_impl() throws before the rename, or  *)
(* at the final checkpoint.                                                *)
FailRebuild ==
    /\ IOFaults
    /\ pc \in {"recover", "replay", "rebuild_checkpoint"}
    /\ Throw
    /\ UNCHANGED <<disk, unfinished>>

(* The rename happened, but no Index object could be made for the new      *)
(* file: an open database keeps the object of the replaced file.           *)
FailReload ==
    /\ IOFaults
    /\ pc = "replay"
    /\ read_record(pos) = "EndOfFile"
    /\ idxFile' = "ok"
    /\ idx' = tmp
    /\ indexedUpTo' = 0
    /\ indexClean' = FALSE
    /\ Throw
    /\ UNCHANGED <<dbFile, log, unfinished>>

FailConstructor ==
    /\ IOFaults
    /\ pc \in {"ctor_index", "ctor_index_setup", "ctor_empty", "ctor_db_setup",
               "ctor_checkpoint", "ctor_load", "ctor_mark_dirty"}
    /\ Gone("throw")
    /\ UNCHANGED <<disk, unfinished>>

FailClose ==
    /\ IOFaults
    /\ pc = "close_mark"
    /\ \/ /\ caller = "close"
          /\ Return("throw")
          /\ UNCHANGED handle
       \/ /\ caller = "dtor"
          /\ Gone("ok")
    /\ UNCHANGED <<disk, unfinished>>

IOFail ==
    \/ FailAppend \/ FailIndexWrite \/ FailRebuild \/ FailReload
    \/ FailConstructor \/ FailClose

-----------------------------------------------------------------------------
(* What happens to the files between two sessions (EnvFaults).             *)

RemoveIndexFile ==
    /\ "rm_index" \in EnvFaults
    /\ pc = "none"
    /\ idxFile # "missing"
    /\ idxFile' = "missing"
    /\ resp' = "none"
    /\ UNCHANGED <<dbFile, log, idx, indexedUpTo, indexClean, handle, locals, pc, unfinished>>

DamageIndexFile ==
    /\ "damage_index" \in EnvFaults
    /\ pc = "none"
    /\ idxFile = "ok"
    /\ idxFile' = "invalid"
    /\ resp' = "none"
    /\ UNCHANGED <<dbFile, log, idx, indexedUpTo, indexClean, handle, locals, pc, unfinished>>

RemoveDbFile ==
    /\ "rm_db" \in EnvFaults
    /\ pc = "none"
    /\ dbFile # "missing"
    /\ dbFile' = "missing"
    /\ log' = <<>>
    /\ unfinished' = FALSE
    /\ resp' = "none"
    /\ UNCHANGED <<idxFile, idx, indexedUpTo, indexClean, handle, locals, pc>>

Environment == RemoveIndexFile \/ DamageIndexFile \/ RemoveDbFile

-----------------------------------------------------------------------------
Init ==
    /\ dbFile = "missing"
    /\ log = <<>>
    /\ idxFile = "missing"
    /\ idx = EmptyIndex
    /\ indexedUpTo = 0
    /\ indexClean = FALSE
    /\ cachedUpTo = 0
    /\ report = NoReport
    /\ pc = "none"
    /\ rec = NoRec
    /\ startOffset = 0
    /\ endOffset = 0
    /\ tmp = EmptyIndex
    /\ pos = 0
    /\ caller = "none"
    /\ truncated = 0
    /\ resp = "none"
    /\ unfinished = FALSE

Open == OpenNew \/ OpenExisting

(* What the client may ask of an open database. *)
Call ==
    \/ \E k \in Keys, v \in Values : PutStart(k, v) \/ PutRejected(k, v)
    \/ \E k \in Keys : EraseMissing(k) \/ EraseStart(k)
    \/ rebuild_index \/ recover_records
    \/ \E by \in {"close", "dtor"} : CloseStart(by)
    \/ CloseRefused \/ DestroyUnclean

(* The next step of the call, or of the constructor, that is running. *)
Step ==
    \/ NewIndexCreate \/ NewIndexSetup \/ NewIndexLoad \/ NewIndexInvalid
    \/ NewIndexNotEmpty \/ NewDbCreate \/ NewDbSetup \/ NewCheckpoint
    \/ LoadInvalidDb \/ LoadMissingIndex \/ LoadInvalidIndex
    \/ LoadCleanIndex \/ LoadUncleanIndex \/ MarkDirty
    \/ RecoverWhole \/ RecoverTruncate \/ RecoverCorrupt
    \/ Replay \/ ReplayCorrupt \/ Install
    \/ RebuildCheckpointInCall \/ RebuildCheckpointInConstructor
    \/ PutAppend \/ PutIndex \/ PutCheckpoint
    \/ EraseAppend \/ EraseZero \/ EraseUnlink \/ EraseCheckpoint
    \/ CloseMark

Next == Open \/ Call \/ Step \/ Crash \/ IOFail \/ Environment

Spec == Init /\ [][Next]_vars

(* A running call is executed by a live process, and a client whose        *)
(* database is down opens it again.  Nothing is assumed of the client's    *)
(* calls, of crashes or of the environment.                                *)
FairSpec == Spec /\ WF_vars(Step) /\ WF_vars(Open)
=============================================================================
