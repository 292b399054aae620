----------------------------- MODULE HashIndex -----------------------------
(***************************************************************************)
(* The persistent hash index (src/index.cpp, class Index): a table of      *)
(* bucket heads followed by entries that are only ever appended.  Each     *)
(* entry holds a key, the offset of its record in the data file and the    *)
(* offset of the next entry of its collision chain.                        *)
(*                                                                         *)
(* Entries are numbered in file order: entries[i] is the i-th entry, and 0 *)
(* is the null offset.  A step is one write to the file, or one entry read *)
(* while a call walks a chain.  Any file operation may throw (IOFaults);   *)
(* the Database then stays open and goes on using the file as it is left.  *)
(* The header fields indexed_up_to_offset and index_clean are in Database. *)
(***************************************************************************)
EXTENDS Integers, Sequences, FiniteSets

CONSTANTS
    Keys,
    LongKeys,     \* keys longer than MAX_KEY_SIZE
    NumBuckets,
    Hash,         \* fnv1a, as a function on Keys
    DbOffsets,    \* data-file offsets given to set()
    MaxEntries,   \* bound on the length of the file
    IOFaults

ASSUME HashIndexAssumption ==
    /\ LongKeys \subseteq Keys
    /\ NumBuckets \in Nat \ {0}
    /\ Hash \in [Keys -> Nat]
    /\ DbOffsets \subseteq Nat \ {0}
    /\ MaxEntries \in Nat
    /\ IOFaults \in BOOLEAN

VARIABLES
    heads,     \* the bucket table
    entries,   \* the entries, in file order
    pc,        \* "idle", "walk", "set_link" or "erase_unlink"
    op,        \* the running call: [op, key, offset]
    cur,       \* cur_entry_offset
    prev,      \* prev_entry_offset
    chain,     \* chain_offset: head of the chain, later the appended entry
    result     \* how the last call ended

file == <<heads, entries>>
locals == <<op, cur, prev, chain>>
vars == <<file, locals, pc, result>>

-----------------------------------------------------------------------------
Buckets == 0 .. (NumBuckets - 1)
BucketOf(k) == Hash[k] % NumBuckets

NoEntry == -1
NoCall == [op |-> "none"]
Calls == [op : {"find", "erase"}, key : Keys] \cup [op : {"set"}, key : Keys, offset : DbOffsets]

(* Mutant: an entry that a half-done erase() zeroed is passed over. *)
Found_nonzero == cur # 0 /\ entries[cur].key = op.key /\ entries[cur].db_offset # 0

Found == cur # 0 /\ entries[cur].key = op.key

Ended(outcome, offset) ==
    /\ pc' = "idle"
    /\ op' = NoCall
    /\ cur' = 0 /\ prev' = 0 /\ chain' = 0
    /\ result' = [outcome |-> outcome, offset |-> offset]

-----------------------------------------------------------------------------
(* find_entry_offset(): read the bucket head, then follow the chain.       *)

Begin(c) ==
    /\ pc = "idle"
    /\ c.op = "set" => c.key \notin LongKeys /\ Len(entries) < MaxEntries
    /\ pc' = "walk"
    /\ op' = c
    /\ chain' = heads[BucketOf(c.key)]
    /\ cur' = chain'
    /\ prev' = 0
    /\ result' = [outcome |-> "none", offset |-> NoEntry]
    /\ UNCHANGED file

(* Mutant: the walk does not advance. *)
WalkOn_stuck ==
    /\ pc = "walk"
    /\ cur # 0
    /\ ~Found
    /\ prev' = cur
    /\ UNCHANGED <<file, op, cur, chain, pc, result>>

WalkOn ==
    /\ pc = "walk"
    /\ cur # 0
    /\ ~Found
    /\ prev' = cur
    /\ cur' = entries[cur].next
    /\ UNCHANGED <<file, op, chain, pc, result>>

-----------------------------------------------------------------------------
(* The calls, once the walk has stopped.                                   *)

FindFound ==
    /\ pc = "walk" /\ op.op = "find"
    /\ Found
    /\ Ended("ok", entries[cur].db_offset)
    /\ UNCHANGED file

FindAbsent ==
    /\ pc = "walk" /\ op.op = "find"
    /\ cur = 0
    /\ Ended("absent", NoEntry)
    /\ UNCHANGED file

SetReplace ==
    /\ pc = "walk" /\ op.op = "set"
    /\ Found
    /\ entries' = [entries EXCEPT ![cur].db_offset = op.offset]
    /\ Ended("ok", NoEntry)
    /\ UNCHANGED heads

(* Mutant: the entry links to itself. *)
NewEntry_self == [db_offset |-> op.offset, next |-> Len(entries) + 1, key |-> op.key]

EndOfFile == Len(entries) + 1
NewEntry == [db_offset |-> op.offset, next |-> chain, key |-> op.key]

(* The entry is complete on disk before any chain leads to it. *)
SetAppend ==
    /\ pc = "walk" /\ op.op = "set"
    /\ cur = 0
    /\ entries' = Append(entries, NewEntry)
    /\ chain' = EndOfFile
    /\ pc' = "set_link"
    /\ UNCHANGED <<heads, op, cur, prev, result>>

(* Mutant: the head of the first bucket is overwritten. *)
SetLink_first_bucket ==
    /\ pc = "set_link"
    /\ heads' = [heads EXCEPT ![0] = chain]
    /\ Ended("ok", NoEntry)
    /\ UNCHANGED entries

SetLink ==
    /\ pc = "set_link"
    /\ heads' = [heads EXCEPT ![BucketOf(op.key)] = chain]
    /\ Ended("ok", NoEntry)
    /\ UNCHANGED entries

SetRejected(k) ==
    /\ pc = "idle"
    /\ k \in LongKeys
    /\ result' = [outcome |-> "throw", offset |-> NoEntry]
    /\ UNCHANGED <<file, locals, pc>>

EraseAbsent ==
    /\ pc = "walk" /\ op.op = "erase"
    /\ cur = 0
    /\ Ended("absent", NoEntry)
    /\ UNCHANGED file

EraseZero ==
    /\ pc = "walk" /\ op.op = "erase"
    /\ Found
    /\ entries' = [entries EXCEPT ![cur].db_offset = 0]
    /\ pc' = "erase_unlink"
    /\ UNCHANGED <<heads, locals, result>>

(* Mutant: the bucket is made to point behind the entry, whatever its place. *)
EraseUnlink_head ==
    /\ pc = "erase_unlink"
    /\ heads' = [heads EXCEPT ![BucketOf(op.key)] = entries[cur].next]
    /\ Ended("ok", NoEntry)
    /\ UNCHANGED entries

(* Bypass the entry from its predecessor, or from the bucket if it has none. *)
EraseUnlink ==
    /\ pc = "erase_unlink"
    /\ \/ /\ prev # 0
          /\ entries' = [entries EXCEPT ![prev].next = entries[cur].next]
          /\ UNCHANGED heads
       \/ /\ prev = 0
          /\ heads' = [heads EXCEPT ![BucketOf(op.key)] = entries[cur].next]
          /\ UNCHANGED entries
    /\ Ended("ok", NoEntry)

-----------------------------------------------------------------------------
(* A file operation throws.  Only the append can leave something of the    *)
(* failed write behind: bytes at the end of the file that no chain reaches,*)
(* shown here as a whole entry.                                            *)

Throw ==
    /\ IOFaults
    /\ pc # "idle"
    /\ Ended("throw", NoEntry)
    /\ UNCHANGED file

ThrowInAppend ==
    /\ IOFaults
    /\ pc = "walk" /\ op.op = "set"
    /\ cur = 0
    /\ entries' = Append(entries, NewEntry)
    /\ Ended("throw", NoEntry)
    /\ UNCHANGED heads

-----------------------------------------------------------------------------
(* setup() *)
Init ==
    /\ heads = [b \in Buckets |-> 0]
    /\ entries = <<>>
    /\ pc = "idle"
    /\ op = NoCall
    /\ cur = 0 /\ prev = 0 /\ chain = 0
    /\ result = [outcome |-> "none", offset |-> NoEntry]

Step ==
    \/ WalkOn \/ FindFound \/ FindAbsent
    \/ SetReplace \/ SetAppend \/ SetLink
    \/ EraseAbsent \/ EraseZero \/ EraseUnlink

Next ==
    \/ \E c \in Calls : Begin(c)
    \/ \E k \in Keys : SetRejected(k)
    \/ Step
    \/ Throw \/ ThrowInAppend

Spec == Init /\ [][Next]_vars

(* A call that has begun is run by a live process. *)
FairSpec == Spec /\ WF_vars(Step)

-----------------------------------------------------------------------------
(* Reading the file: chains, empty() and stats().                          *)

(* The n-th entry met when bucket b's chain is followed, 0 past its end.   *)
next_entry(i) == IF i = 0 THEN 0 ELSE entries[i].next
Follow(b) ==
    LET at[n \in 0 .. Len(entries)] == IF n = 0 THEN heads[b] ELSE next_entry(at[n - 1])
    IN  at

Linked(b) == LET at == Follow(b) IN { at[n] : n \in 0 .. Len(entries) } \ {0}

(* Mutant: only the first bucket is looked at. *)
empty_first == heads[0] = 0

empty == \A b \in Buckets : heads[b] = 0

chain_length(b) ==
    LET at == Follow(b) IN Cardinality({ n \in 0 .. Len(entries) : at[n] # 0 })

stats ==
    LET occupied == { b \in Buckets : heads[b] # 0 } IN
    [num_buckets |-> NumBuckets,
     non_empty_buckets |-> Cardinality(occupied),
     empty_buckets |-> NumBuckets - Cardinality(occupied),
     max_chain_length |->
        CHOOSE m \in 0 .. (Len(entries) + 1) :
           /\ \A b \in Buckets : chain_length(b) <= m
           /\ m = 0 \/ \E b \in Buckets : chain_length(b) = m]

-----------------------------------------------------------------------------
(* Every variable keeps its shape: links, heads and the walk's positions   *)
(* are null or the number of an entry that is in the file.                 *)
EntryNumbers == 0 .. Len(entries)
Entries == [db_offset : DbOffsets \cup {0}, next : Nat, key : Keys]
TypeOK ==
    /\ entries \in Seq(Entries)
    /\ heads \in [Buckets -> EntryNumbers]
    /\ pc \in {"idle", "walk", "set_link", "erase_unlink"}
    /\ op \in Calls \cup {NoCall}
    /\ pc # "idle" => op \in Calls
    /\ pc = "set_link" => op.op = "set"
    /\ cur \in EntryNumbers /\ prev \in EntryNumbers /\ chain \in EntryNumbers
    /\ result \in [outcome : {"none", "ok", "absent", "throw"},
                   offset : DbOffsets \cup {0, NoEntry}]

(* A link always leads to an older entry, so no chain has a cycle and      *)
(* find_entry_offset() cannot loop, whatever calls threw half-way.         *)
ChainsDescend ==
    \A i \in 1 .. Len(entries) : entries[i].next < i

(* A chain holds only keys of its own bucket: what head and links lead to  *)
(* hashes to the bucket, even for entries that were unlinked or orphaned.  *)
ChainsStayInBucket ==
    /\ \A b \in Buckets : heads[b] # 0 => BucketOf(entries[heads[b]].key) = b
    /\ \A i \in 1 .. Len(entries) :
         entries[i].next # 0 =>
            BucketOf(entries[entries[i].next].key) = BucketOf(entries[i].key)

(* What the locals of a running call know about the chain they walk. *)
WalkInStep ==
    /\ pc \in {"walk", "erase_unlink"} =>
         /\ cur # 0 => BucketOf(entries[cur].key) = BucketOf(op.key)
         /\ prev # 0 => BucketOf(entries[prev].key) = BucketOf(op.key)
                        /\ entries[prev].next = cur
    /\ pc = "walk" => chain = heads[BucketOf(op.key)]
    /\ pc = "set_link" => chain # 0 /\ entries[chain].key = op.key
    /\ pc = "erase_unlink" => cur # 0

(* The conjunction TLAPS proves inductive; TLC checks it on the instance.  *)
ChainInv == TypeOK /\ ChainsDescend /\ ChainsStayInBucket /\ WalkInStep

(* A key is in its chain at most once: otherwise erase() would uncover an  *)
(* older offset of the key it just removed.                                *)
KeysAreLinkedOnce ==
    \A b \in Buckets : \A i, j \in Linked(b) :
        entries[i].key = entries[j].key => i = j

-----------------------------------------------------------------------------
(* The map the file stores, as a walk of the key's chain would find it.    *)
EntryOf(k) == { i \in Linked(BucketOf(k)) : entries[i].key = k }
Newest(S) == CHOOSE i \in S : \A j \in S : j <= i
mapBar ==
    [k \in Keys |-> LET found == EntryOf(k) IN
                    IF found = {} THEN NoEntry ELSE entries[Newest(found)].db_offset]
callBar == IF pc = "erase_unlink" THEN [op |-> "unlink", key |-> op.key] ELSE op

(* empty() and stats() agree with the map: an index counts as empty just   *)
(* when it has no key (the constructor relies on it to adopt an index      *)
(* without a data file), and the chain statistics count the keys.          *)
StatsCountKeys ==
    LET present == { k \in Keys : mapBar[k] # NoEntry }
        inBucket(b) == { k \in present : BucketOf(k) = b }
    IN  /\ empty <=> present = {}
        /\ stats.non_empty_buckets = Cardinality({ b \in Buckets : inBucket(b) # {} })
        /\ \A b \in Buckets : chain_length(b) = Cardinality(inBucket(b))
        /\ \A b \in Buckets : Cardinality(inBucket(b)) <= stats.max_chain_length
        /\ present # {} => \E b \in Buckets : Cardinality(inBucket(b)) = stats.max_chain_length

IM == INSTANCE IndexMap WITH
        map <- mapBar, call <- callBar, result <- result, Offsets <- DbOffsets

(* The Index implements the map the Database relies on: unlinking a head,  *)
(* a middle or a last entry removes that key and no other, replacing an    *)
(* offset touches one key, a half-done call leaves the map of its steps.   *)
ImplementsIndexMap == IM!Spec

(* Every call ends: no walk goes round in circles. *)
CallsTerminate == pc # "idle" ~> pc = "idle"
=============================================================================
