---------------------------- MODULE SharedReaders ----------------------------
(***************************************************************************)
(* Several processes that only read the same database at the same time,    *)
(* say zidane get in two terminals.  Nothing locks the files, and even a   *)
(* reader writes: its constructor marks the index dirty or rebuilds it,    *)
(* perhaps after truncating the log, and its destructor marks it clean.    *)
(*                                                                         *)
(* Every Index method opens the file by its path and closes it again.  So  *)
(* a header write can go to a file that a rename has just replaced, and    *)
(* Index::load, which reads the header through its stream and then asks    *)
(* the path for the size of the file, can see two files: opening, reading  *)
(* the header and comparing the size are three steps.  The number of       *)
(* buckets is -b for an index that a process makes where there was none,   *)
(* and is remembered by every Index object.                                *)
(***************************************************************************)
EXTENDS Naturals, Sequences

CONSTANTS
    Keys,
    MaxLog,       \* bound on the length of the log
    Readers,      \* the processes
    BucketCounts  \* the values of -b, and of the index an earlier session left

ASSUME SharedReadersAssumption ==
    /\ MaxLog \in Nat
    /\ BucketCounts \subseteq Nat \ {0}

VARIABLES
    log,      \* the complete records of the data file
    torn,     \* a fragment follows them
    files,    \* every index file there has been; the last one has the name
    pc,       \* where each reader is
    cached,   \* the header fields in its Index object
    handle,   \* the index file its stream has open
    buckets,  \* num_index_buckets, then bucket_count of rebuild_index_impl()
    began     \* history: what there was to begin with

disk == <<log, torn, files>>
object == <<cached, handle, buckets>>
vars == <<disk, object, pc, began>>

NoEntry == 0
Records == [type : {"Put", "Delete"}, key : Keys]
Logs == UNION { [1 .. n -> Records] : n \in 0 .. MaxLog }
FileSize == Len(log) + (IF torn THEN 2 ELSE 1)

(* The index of the first n records: the newest Put that no Delete follows. *)
IndexOf(n) ==
    [k \in Keys |->
        LET newest == { i \in 1 .. n : /\ log[i].key = k
                                       /\ \A j \in (i + 1) .. n : log[j].key # k }
        IN  IF \E i \in newest : log[i].type = "Put" THEN CHOOSE i \in newest : TRUE ELSE NoEntry]
Exact == IndexOf(Len(log))

present == files # <<>>
Current == files[Len(files)]

Goto(p, place) == pc' = [pc EXCEPT ![p] = place]

(* The process ends, and its Index object with it. *)
NoIndex == [upTo |-> 0, clean |-> FALSE, buckets |-> 0]
Gone(p, how) ==
    /\ Goto(p, how)
    /\ cached' = [cached EXCEPT ![p] = NoIndex]
    /\ handle' = [handle EXCEPT ![p] = 0]
    /\ UNCHANGED buckets

-----------------------------------------------------------------------------
(* Index::load(), for the index the constructor finds and for the one that *)
(* it has installed, which may already be another reader's.                *)

OpenToLoad(p) ==
    /\ present
    /\ \/ pc[p] = "start" /\ Goto(p, "header")
       \/ pc[p] = "reload" /\ Goto(p, "reload_header")
    /\ handle' = [handle EXCEPT ![p] = Len(files)]
    /\ UNCHANGED <<disk, cached, buckets, began>>

ReadHeader(p) ==
    /\ \/ pc[p] = "header" /\ Goto(p, "table")
       \/ pc[p] = "reload_header" /\ Goto(p, "reload_table")
    /\ LET file == files[handle[p]]
       IN  cached' = [cached EXCEPT ![p] = [upTo |-> file.upTo, clean |-> file.clean,
                                            buckets |-> file.buckets]]
    /\ UNCHANGED <<disk, handle, buckets, began>>

(* "The declared bucket table must fit" into the file that has the name    *)
(* now.  The entries behind a smaller table may make up for the buckets    *)
(* that it lacks.                                                          *)
HasEntries == \E i \in 1 .. Len(log) : log[i].type = "Put"
TableFits(p) ==
    /\ \/ pc[p] = "table" /\ Goto(p, "check")
       \/ pc[p] = "reload_table" /\ Goto(p, "checkpoint")
    /\ cached[p].buckets <= Current.buckets \/ HasEntries
    /\ handle' = [handle EXCEPT ![p] = 0]
    /\ UNCHANGED <<disk, cached, buckets, began>>

(* InvalidIndexError: the constructor rebuilds an index it cannot load; if *)
(* it has just installed it, the exception leaves the constructor.         *)
TableTooLarge(p) ==
    /\ \/ pc[p] = "table" /\ Gone(p, "build")
       \/ pc[p] = "reload_table" /\ Gone(p, "threw")
    /\ cached[p].buckets > Current.buckets
    /\ UNCHANGED <<disk, began>>

-----------------------------------------------------------------------------
(* The constructor. *)

LoadMissingIndex(p) ==
    /\ pc[p] = "start"
    /\ ~present
    /\ Goto(p, "build")
    /\ UNCHANGED <<disk, object, began>>

index_metadata_clean(p) == cached[p].clean /\ FileSize = cached[p].upTo

Check(p) ==
    /\ pc[p] = "check"
    /\ Goto(p, IF index_metadata_clean(p) THEN "mark" ELSE "scan")
    /\ UNCHANGED <<disk, object, began>>

(* Mutants: the rebuild gets the bucket count of the constructor; a        *)
(* fragment passes for the end of the file.                                *)
Scan_own_buckets(p) ==
    /\ pc[p] = "scan"
    /\ Goto(p, IF torn THEN "resize" ELSE "build")
    /\ UNCHANGED <<disk, object, began>>
Scan_lenient(p) ==
    /\ pc[p] = "scan"
    /\ Goto(p, "build")
    /\ buckets' = [buckets EXCEPT ![p] = cached[p].buckets]
    /\ UNCHANGED <<disk, cached, handle, began>>

(* recover_records(), which rebuilds with as many buckets as the index it  *)
(* has loaded.  Someone else may resize between scan and resize.           *)
Scan(p) ==
    /\ pc[p] = "scan"
    /\ Goto(p, IF torn THEN "resize" ELSE "build")
    /\ buckets' = [buckets EXCEPT ![p] = cached[p].buckets]
    /\ UNCHANGED <<disk, cached, handle, began>>

Resize(p) ==
    /\ pc[p] = "resize"
    /\ torn' = FALSE
    /\ Goto(p, "build")
    /\ UNCHANGED <<log, files, object, began>>

NewFile(p, map) == [map |-> map, upTo |-> 0, clean |-> FALSE, buckets |-> buckets[p]]

(* Mutant: the rebuild empties the index in its place and fills it there. *)
Build_in_place(p) ==
    /\ pc[p] = "build"
    /\ ~torn
    /\ LET empty == NewFile(p, [k \in Keys |-> NoEntry])
       IN  files' = IF present THEN [files EXCEPT ![Len(files)] = empty] ELSE <<empty>>
    /\ Goto(p, "install")
    /\ UNCHANGED <<log, torn, object, began>>

(* rebuild_index_impl() fills the staging index; the records it reads are  *)
(* the same for everyone.                                                  *)
Build(p) ==
    /\ pc[p] = "build"
    /\ \/ ~torn /\ Goto(p, "install") /\ UNCHANGED object
       \/ torn /\ Gone(p, "threw")
    /\ UNCHANGED <<disk, began>>

(* rename() over the index that has the name. *)
Install(p) ==
    /\ pc[p] = "install"
    /\ files' = Append(files, NewFile(p, Exact))
    /\ Goto(p, "reload")
    /\ UNCHANGED <<log, torn, object, began>>

-----------------------------------------------------------------------------
(* The header writes: set_indexed_up_to_offset(file_size), then            *)
(* set_index_clean(false) in the constructor and set_index_clean(true) in  *)
(* close().  A write to a file that was replaced reaches no one.           *)

OpenForWrite(p) ==
    /\ \/ pc[p] = "checkpoint" /\ Goto(p, "checkpoint_write")
       \/ pc[p] = "mark" /\ Goto(p, "mark_write")
       \/ pc[p] = "unmark" /\ Goto(p, "unmark_write")
    /\ handle' = [handle EXCEPT ![p] = Len(files)]
    /\ UNCHANGED <<disk, cached, buckets, began>>

WriteCheckpoint(p) ==
    /\ pc[p] = "checkpoint_write"
    /\ files' = [files EXCEPT ![handle[p]].upTo = FileSize]
    /\ cached' = [cached EXCEPT ![p].upTo = FileSize]
    /\ handle' = [handle EXCEPT ![p] = 0]
    /\ Goto(p, "mark")
    /\ UNCHANGED <<log, torn, buckets, began>>

MarkDirty(p) ==
    /\ pc[p] = "mark_write"
    /\ files' = [files EXCEPT ![handle[p]].clean = FALSE]
    /\ cached' = [cached EXCEPT ![p].clean = FALSE]
    /\ handle' = [handle EXCEPT ![p] = 0]
    /\ Goto(p, "ready")
    /\ UNCHANGED <<log, torn, buckets, began>>

(* close(), after any number of gets. *)
Close(p) ==
    /\ pc[p] = "ready"
    /\ \/ FileSize = cached[p].upTo /\ Goto(p, "unmark") /\ UNCHANGED object
       \/ FileSize # cached[p].upTo /\ Gone(p, "done")
    /\ UNCHANGED <<disk, began>>

MarkClean(p) ==
    /\ pc[p] = "unmark_write"
    /\ files' = [files EXCEPT ![handle[p]].clean = TRUE]
    /\ Gone(p, "done")
    /\ UNCHANGED <<log, torn, began>>

Ended == {"done", "threw", "killed"}

Kill(p) ==
    /\ pc[p] \notin Ended \cup {"start"}
    /\ Gone(p, "killed")
    /\ UNCHANGED <<disk, began>>

-----------------------------------------------------------------------------
(* What an earlier session can leave: a clean index of the whole log; a    *)
(* dirty one that has fallen behind, perhaps with a fragment in the log;   *)
(* or someone removed the index.                                           *)
Left(n, clean, count) == [map |-> IndexOf(n), upTo |-> n + 1, clean |-> clean, buckets |-> count]

Init ==
    /\ log \in Logs
    /\ torn \in BOOLEAN
    /\ \/ files = <<>>
       \/ \E n \in 0 .. Len(log), clean \in BOOLEAN, count \in BucketCounts :
            /\ clean => n = Len(log) /\ ~torn
            /\ files = <<Left(n, clean, count)>>
    /\ pc = [p \in Readers |-> "start"]
    /\ cached = [p \in Readers |-> NoIndex]
    /\ handle = [p \in Readers |-> 0]
    /\ buckets \in [Readers -> BucketCounts]
    /\ began = [index |-> present, torn |-> torn,
                sameBuckets |-> \A p, q \in Readers : buckets[p] = buckets[q]]

Step(p) ==
    \/ OpenToLoad(p) \/ ReadHeader(p) \/ TableFits(p) \/ TableTooLarge(p)
    \/ LoadMissingIndex(p) \/ Check(p) \/ Scan(p) \/ Resize(p)
    \/ Build(p) \/ Install(p)
    \/ OpenForWrite(p) \/ WriteCheckpoint(p) \/ MarkDirty(p)
    \/ Close(p) \/ MarkClean(p) \/ Kill(p)

Terminated == (\A p \in Readers : pc[p] \in Ended) /\ UNCHANGED vars

Next == (\E p \in Readers : Step(p)) \/ Terminated

Spec == Init /\ [][Next]_vars

-----------------------------------------------------------------------------
Places == {"start", "header", "table", "check", "scan", "resize", "build", "install", "reload",
           "reload_header", "reload_table", "checkpoint", "checkpoint_write", "mark",
           "mark_write", "ready", "unmark", "unmark_write"} \cup Ended
(* Where a reader has installed an index and goes on with it, trusts the   *)
(* one it found, has a file open, has an Index object.                     *)
Rebuilt == {"reload", "reload_header", "reload_table", "checkpoint", "checkpoint_write"}
Trusting == {"mark", "mark_write", "ready", "unmark", "unmark_write"}
WithFile == {"header", "table", "reload_header", "reload_table", "checkpoint_write",
             "mark_write", "unmark_write"}
WithIndex == {"table", "check", "scan", "resize", "reload_table", "checkpoint",
              "checkpoint_write"} \cup Trusting

(* The shape of the variables. *)
IndexFiles == [map : [Keys -> Nat], upTo : Nat, clean : BOOLEAN, buckets : Nat]
TypeOK ==
    /\ log \in Seq(Records)
    /\ torn \in BOOLEAN
    /\ files \in Seq(IndexFiles)
    /\ pc \in [Readers -> Places]
    /\ cached \in [Readers -> [upTo : Nat, clean : BOOLEAN, buckets : Nat]]
    /\ handle \in [Readers -> Nat]
    /\ buckets \in [Readers -> Nat]
    /\ began \in [index : BOOLEAN, torn : BOOLEAN, sameBuckets : BOOLEAN]

(* Every index that is made has as many buckets as every other one: there  *)
(* was an index to begin with, whose number rebuilds take over, or all     *)
(* readers were given the same -b.                                         *)
OneCount == began.index \/ began.sameBuckets

(* A reader whose constructor has returned finds the newest record of      *)
(* every key, whatever the other readers are doing to the index and the    *)
(* log at that moment: the index that has the name is exact, and hashes    *)
(* keys as its Index object does.  Not so if the readers start without an  *)
(* index and with different -b: the one that installs last decides.        *)
ReadyReadersFind ==
    \A p \in Readers :
        pc[p] = "ready" /\ OneCount =>
            present /\ Current.map = Exact /\ Current.buckets = cached[p].buckets /\ ~torn

(* The clean flag is never set on an index that does not represent the     *)
(* log: not by a reader that closes while another one rebuilds, and not on *)
(* a file that has been replaced meanwhile.                                *)
CleanFlagIsTrue == present => (Current.clean => Current.map = Exact /\ ~torn)

(* Readers do not make each other fail: a constructor throws only where it *)
(* would have thrown alone, without an index and with a fragment.  (Or the *)
(* readers start without an index and with different -b: then the header   *)
(* of one index may be held against the size of another, smaller one.)     *)
OnlyLostIndexThrows ==
    \A p \in Readers : pc[p] = "threw" /\ OneCount => ~began.index /\ began.torn

-----------------------------------------------------------------------------
(* Why: the files only get better.  Every index that a rename installs is  *)
(* exact, and there is one only when the fragment is gone; an index of an  *)
(* earlier session that is flagged clean is exact too.                     *)
Replaced == Len(files) > IF began.index THEN 1 ELSE 0
FilesInv ==
    /\ \A i \in 1 .. Len(files) :
         /\ files[i].clean => files[i].map = Exact /\ ~torn
         /\ i > 1 \/ ~began.index => files[i].map = Exact
    /\ Replaced => ~torn
    /\ began.index => present
    /\ torn => began.torn

(* What a reader knows of the files at each place in the code. *)
ReaderInv(p) ==
    /\ pc[p] \in {"header", "table", "check", "scan", "resize"} => present
    /\ pc[p] \in Rebuilt => Replaced
    /\ pc[p] \in WithFile => handle[p] \in 1 .. Len(files)
    /\ pc[p] \in Trusting => present /\ Current.map = Exact /\ ~torn
    /\ pc[p] \in {"mark_write", "unmark_write"} => files[handle[p]].map = Exact
    /\ pc[p] \in {"table", "reload_table"} => cached[p].buckets = files[handle[p]].buckets
    /\ pc[p] \in {"table", "check"} /\ cached[p].clean => Current.map = Exact /\ ~torn
    /\ pc[p] = "build" => ~torn \/ (~began.index /\ began.torn)
    /\ pc[p] = "install" => ~torn
    /\ pc[p] = "threw" /\ OneCount => ~began.index /\ began.torn

(* The one number of buckets, in the files, in the Index objects and in    *)
(* the rebuilds under way.                                                 *)
ReaderCounts(p, c) ==
    /\ pc[p] \in WithIndex => cached[p].buckets = c
    /\ pc[p] \in {"resize", "build", "install"} \/ ~began.index => buckets[p] = c
CountIs(c) ==
    /\ \A i \in 1 .. Len(files) : files[i].buckets = c
    /\ \A p \in Readers : ReaderCounts(p, c)

ReadersInv ==
    /\ TypeOK
    /\ FilesInv
    /\ \A p \in Readers : ReaderInv(p)
    /\ OneCount => \E c \in BucketCounts \cup {0} : CountIs(c)
=============================================================================
