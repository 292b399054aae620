------------------------------ MODULE Records ------------------------------
(***************************************************************************)
(* How records are laid out in the data file and read back                 *)
(* (src/record.cpp, src/utils.cpp and the scan in src/database.cpp), byte  *)
(* by byte, on a small alphabet of bytes.                                  *)
(*                                                                         *)
(* A writer appends records; it can stop after any byte, because the       *)
(* process was killed or because the write failed.  This module justifies  *)
(* what Database.tla takes for granted: a complete record reads as         *)
(* Success, a fragment at the end of the file as Truncated, and a fragment *)
(* that other bytes follow as one of three failures.                       *)
(***************************************************************************)
EXTENDS Integers, Sequences, FiniteSets

CONSTANTS
    Base,           \* bytes are 0 .. Base - 1 (256 in the code)
    LengthBytes,    \* width of a length prefix (4 in the code)
    ChecksumBytes,  \* width of the checksum (4 in the code)
    MAX_KEY_SIZE,
    MAX_VALUE_SIZE,
    MaxRecords,     \* bound: records written
    Keys, Values,   \* the byte strings that are written
    crc32c(_)       \* a library: the checksum of a sequence of bytes

-----------------------------------------------------------------------------
(* utils: little-endian numbers and length-prefixed strings.               *)

Bytes == 0 .. (Base - 1)

(* The weight of the byte after n others: a shift by n bytes in the code.  *)
Power(n) ==
    LET to[i \in 0 .. n] == IF i = 0 THEN 1 ELSE Base * to[i - 1]
    IN  to[n]

ASSUME RecordsAssumption ==
    /\ Base \in Nat \ {0, 1, 2}
    /\ LengthBytes \in Nat \ {0} /\ ChecksumBytes \in Nat \ {0}
    /\ MAX_KEY_SIZE \in Nat /\ MAX_KEY_SIZE < Power(LengthBytes)
    /\ MAX_VALUE_SIZE \in Nat /\ MAX_VALUE_SIZE < Power(LengthBytes)
    /\ MaxRecords \in Nat
    /\ \A k \in Keys : k \in Seq(Bytes) /\ Len(k) <= MAX_KEY_SIZE
    /\ \A v \in Values : v \in Seq(Bytes) /\ Len(v) <= MAX_VALUE_SIZE

(* Mutant: the first byte is taken for the highest. *)
Number_big_endian(bytes) ==
    LET upTo[i \in 0 .. Len(bytes)] ==
          IF i = 0 THEN 0 ELSE upTo[i - 1] * Base + bytes[i]
    IN  upTo[Len(bytes)]

write_uint(n, width) == [i \in 1 .. width |-> (n \div Power(i - 1)) % Base]

Number(bytes) ==
    LET upTo[i \in 0 .. Len(bytes)] ==
          IF i = 0 THEN 0 ELSE upTo[i - 1] + bytes[i] * Power(i - 1)
    IN  upTo[Len(bytes)]

(* Reading at a position gives a status, a value and the next position.    *)
Result(status, value, next) == [status |-> status, value |-> value, next |-> next]

read_uint(stream, at, width) ==
    CASE at > Len(stream) -> Result("EndOfInput", 0, at)
      [] at <= Len(stream) /\ at + width - 1 > Len(stream) -> Result("Truncated", 0, at)
      [] OTHER -> Result("Success", Number(SubSeq(stream, at, at + width - 1)), at + width)

write_string(s) == write_uint(Len(s), LengthBytes) \o s

StringOf(stream, length, max, at) ==
    LET end == length.next + length.value - 1 IN
    CASE length.status # "Success" -> Result(length.status, <<>>, at)
      [] length.status = "Success" /\ length.value > max -> Result("InvalidLength", <<>>, at)
      [] length.status = "Success" /\ length.value <= max /\ end > Len(stream) ->
           Result("Truncated", <<>>, at)
      [] OTHER -> Result("Success", SubSeq(stream, length.next, end), end + 1)
read_string(stream, at, max) == StringOf(stream, read_uint(stream, at, LengthBytes), max, at)

-----------------------------------------------------------------------------
(* record: [type][key length][key][value length][value][checksum].         *)

TypeCode == [Put |-> 1, Delete |-> 2]
RecordTypes == {"Put", "Delete"}

(* The bytes the checksum covers, in the order it is extended over them.   *)
Body(r) == <<TypeCode[r.type]>> \o write_string(r.key) \o write_string(r.value)

serialize_record(r) == Body(r) \o write_uint(crc32c(Body(r)), ChecksumBytes)

Writable == [type : {"Put"}, key : Keys, value : Values]
              \cup [type : {"Delete"}, key : Keys, value : {<<>>}]

(* What is relied on of the checksum: it fits its field, and it tells two  *)
(* bodies apart that differ in one byte (a CRC of 32 bits finds every      *)
(* error that spans no more than 32 bits).                                 *)
ASSUME ChecksumAssumption ==
    \A r \in Writable :
        /\ crc32c(Body(r)) \in 0 .. (Power(ChecksumBytes) - 1)
        /\ \A i \in 1 .. Len(Body(r)), byte \in Bytes :
              byte # Body(r)[i] => crc32c([Body(r) EXCEPT ![i] = byte]) # crc32c(Body(r))

(* Mutant: the end of the input inside a record is passed on. *)
FieldError_passed_on(field) == field.status

FieldError(field) == IF field.status = "InvalidLength" THEN "InvalidLength" ELSE "Truncated"

Fail(status, at) == Result(status, [type |-> "None"], at)

(* Mutant: the stored checksum is read but not compared. *)
Checked_unverified(candidate, stored, at) ==
    IF stored.status # "Success" THEN Fail("Truncated", at)
    ELSE Result("Success", candidate, stored.next)

(* read_record(), field by field: the checksum, ... *)
Checked(candidate, stored, at) ==
    CASE stored.status # "Success" -> Fail("Truncated", at)
      [] stored.status = "Success" /\ stored.value # crc32c(Body(candidate)) ->
           Fail("ChecksumMismatch", at)
      [] OTHER -> Result("Success", candidate, stored.next)

(* ... before it the value, ... *)
WithValue(stream, type, key, value, at) ==
    IF value.status # "Success" THEN Fail(FieldError(value), at)
    ELSE Checked([type |-> type, key |-> key, value |-> value.value],
                 read_uint(stream, value.next, ChecksumBytes), at)

(* ... before it the key, ... *)
WithKey(stream, type, key, at) ==
    IF key.status # "Success" THEN Fail(FieldError(key), at)
    ELSE WithValue(stream, type, key.value, read_string(stream, key.next, MAX_VALUE_SIZE), at)

(* ... and first the type. *)
read_record(stream, at) ==
    IF at > Len(stream) THEN Fail("EndOfFile", at)
    ELSE IF \A t \in RecordTypes : TypeCode[t] # stream[at] THEN Fail("InvalidType", at)
    ELSE WithKey(stream, CHOOSE t \in RecordTypes : TypeCode[t] = stream[at],
                 read_string(stream, at + 1, MAX_KEY_SIZE), at)

(* scan_records(): the records of the longest valid prefix, how the scan   *)
(* ended and where.                                                        *)
Prepended(record, scan) == [scan EXCEPT !.records = <<record>> \o @]
scan_records(stream) ==
    LET from[at \in 1 .. Len(stream) + 1] ==
          LET r == read_record(stream, at) IN
          IF r.status = "Success" THEN Prepended(r.value, from[r.next])
          ELSE [status |-> r.status, failing |-> at, records |-> <<>>]
    IN  from[1]

-----------------------------------------------------------------------------
VARIABLES
    file,      \* the bytes after the header
    written,   \* history: the records whose last byte has been written
    rec,       \* the record being written
    todo,      \* its bytes that are not in the file yet
    fragment,  \* history: number of complete records in front of a fragment
               \* that was left behind, or NoFragment
    damage     \* history: the byte at rest that was altered, 0 if none was

vars == <<file, written, rec, todo, fragment, damage>>

NoFragment == -1
NoRecord == [type |-> "None"]

(* write_record(): the serialized bytes go out in order ... *)
BeginWrite(r) ==
    /\ rec = NoRecord
    /\ damage = 0
    /\ Len(written) < MaxRecords
    /\ rec' = r
    /\ todo' = serialize_record(r)
    /\ UNCHANGED <<file, written, fragment, damage>>

(* ... one at a time, as far as anyone who reads the file can tell. *)
WriteByte ==
    /\ rec # NoRecord
    /\ Len(todo) > 1
    /\ file' = Append(file, Head(todo))
    /\ todo' = Tail(todo)
    /\ UNCHANGED <<written, rec, fragment, damage>>

WriteLastByte ==
    /\ rec # NoRecord
    /\ Len(todo) = 1
    /\ file' = Append(file, Head(todo))
    /\ todo' = <<>>
    /\ written' = Append(written, rec)
    /\ rec' = NoRecord
    /\ UNCHANGED <<fragment, damage>>

(* The process is killed; the next one runs recover_records(), which       *)
(* leaves a corrupted file alone.                                          *)
Recovered(scan) ==
    IF scan.status \in {"Truncated", "EndOfFile"} THEN SubSeq(file, 1, scan.failing - 1) ELSE file
KillAndRecover ==
    /\ rec # NoRecord
    /\ fragment = NoFragment
    /\ file' = Recovered(scan_records(file))
    /\ rec' = NoRecord
    /\ todo' = <<>>
    /\ UNCHANGED <<written, fragment, damage>>

(* The write fails and the process goes on: the fragment stays. *)
LeaveFragment ==
    /\ rec # NoRecord
    /\ fragment = NoFragment
    /\ Len(todo) < Len(serialize_record(rec))
    /\ fragment' = Len(written)
    /\ rec' = NoRecord
    /\ todo' = <<>>
    /\ UNCHANGED <<file, written, damage>>

(* A byte of the file changes on the medium; external. *)
Damage(i, byte) ==
    /\ rec = NoRecord
    /\ fragment = NoFragment
    /\ damage = 0
    /\ byte # file[i]
    /\ file' = [file EXCEPT ![i] = byte]
    /\ damage' = i
    /\ UNCHANGED <<written, rec, todo, fragment>>

Init ==
    /\ file = <<>>
    /\ written = <<>>
    /\ rec = NoRecord
    /\ todo = <<>>
    /\ fragment = NoFragment
    /\ damage = 0

Next ==
    \/ \E r \in Writable : BeginWrite(r)
    \/ WriteByte \/ WriteLastByte
    \/ KillAndRecover \/ LeaveFragment
    \/ \E i \in 1 .. Len(file), byte \in Bytes : Damage(i, byte)

Spec == Init /\ [][Next]_vars

-----------------------------------------------------------------------------
(* Every variable keeps its shape. *)
TypeOK ==
    /\ file \in Seq(Bytes)
    /\ written \in Seq(Writable)
    /\ rec \in Writable \cup {NoRecord}
    /\ todo \in Seq(Bytes)
    /\ fragment \in {NoFragment} \cup 0 .. MaxRecords
    /\ damage \in 0 .. Len(file)

Started == rec # NoRecord /\ Len(todo) < Len(serialize_record(rec))

FindsExactly(scan) ==
    /\ scan.records = written
    /\ scan.status = IF Started THEN "Truncated" ELSE "EndOfFile"
    /\ Len(file) - (scan.failing - 1) =
         IF Started THEN Len(serialize_record(rec)) - Len(todo) ELSE 0

(* After any prefix of any append, the scan returns exactly the records    *)
(* that were written completely, with their contents; it reports Truncated *)
(* just when a record has been started, and stops where that record starts.*)
ScanFindsCompleteRecords ==
    fragment = NoFragment /\ damage = 0 => FindsExactly(scan_records(file))

FindsUpToFragment(scan) ==
    /\ Len(scan.records) >= fragment
    /\ SubSeq(scan.records, 1, fragment) = SubSeq(written, 1, fragment)
    /\ Len(scan.records) = fragment =>
         scan.status \in {"Truncated", "InvalidLength", "ChecksumMismatch"}

(* A fragment that was left behind hides nothing in front of it, whatever  *)
(* is written after it: the scan returns all records written before it,    *)
(* and, where it stops at the fragment, it ends with one of the three      *)
(* failures that Database.tla foresees.  (It need not stop there: bytes    *)
(* that follow can happen to complete a fragment that lacks only the end   *)
(* of its checksum.)                                                       *)
RecordsBeforeFragmentAreFound ==
    fragment # NoFragment => FindsUpToFragment(scan_records(file))

(* Where the n-th record starts, and its bytes that belong to a length.    *)
StartOf(n) ==
    LET after[i \in 0 .. Len(written)] ==
          IF i = 0 THEN 1 ELSE after[i - 1] + Len(serialize_record(written[i]))
    IN  after[n - 1]
InLength(n, i) ==
    LET key == i - StartOf(n)
        value == key - LengthBytes - Len(written[n].key)
    IN  key \in 1 .. LengthBytes \/ value \in 1 .. LengthBytes

SameLengths(r, s) == Len(r.key) = Len(s.key) /\ Len(r.value) = Len(s.value)

StopsAtDamage(scan, n) ==
    /\ Len(scan.records) = n - 1
    /\ scan.failing = StartOf(n)
    /\ \/ scan.status \in {"InvalidType", "ChecksumMismatch"}
       \/ InLength(n, damage) /\ scan.status \in {"InvalidLength", "Truncated"}

MisreadsLength(scan, n) ==
    /\ Len(scan.records) >= n
    /\ InLength(n, damage)
    /\ ~SameLengths(scan.records[n], written[n])

ReportsDamage(scan, n) ==
    /\ SubSeq(scan.records, 1, n - 1) = SubSeq(written, 1, n - 1)
    /\ StopsAtDamage(scan, n) \/ MisreadsLength(scan, n)

(* One altered byte hides nothing in front of it: the records before the   *)
(* one it is in are returned as they were written.  There the scan stops   *)
(* and reports corruption, for which recover_records() leaves the file     *)
(* unchanged, unless the byte belongs to a length.  Only a length can make *)
(* the record look unfinished, and then recovery truncates, the limitation *)
(* that the notes describe; and only a length that is misread can make     *)
(* other bytes pass for the checksum.                                      *)
DamageIsReported ==
    damage # 0 =>
        LET n == CHOOSE m \in 1 .. Len(written) :
                   /\ StartOf(m) <= damage
                   /\ damage < StartOf(m) + Len(serialize_record(written[m]))
        IN  ReportsDamage(scan_records(file), n)
=============================================================================
