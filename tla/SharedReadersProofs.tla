------------------------- MODULE SharedReadersProofs -------------------------
(***************************************************************************)
(* Proofs about SharedReaders, for any number of readers, any keys, any    *)
(* log and any numbers of buckets.  ReadersInv is inductive; the map that  *)
(* a rename installs is Exact, so what Exact is matters only for the       *)
(* initial states and never has to be expanded for a step: no reader       *)
(* changes the complete records.                                           *)
(***************************************************************************)
EXTENDS SharedReaders, TLAPS

USE SharedReadersAssumption

-----------------------------------------------------------------------------
(* What an index may hold, and what the files hold to begin with.          *)

(* The index of a prefix of the log maps keys to offsets in it. *)
LEMMA IndexOfType ==
    ASSUME log \in Seq(Records), NEW n \in 0 .. Len(log)
    PROVE  IndexOf(n) \in [Keys -> Nat]
<1> SUFFICES ASSUME NEW k \in Keys
             PROVE  LET newest == { i \in 1 .. n : /\ log[i].key = k
                                                  /\ \A j \in (i + 1) .. n : log[j].key # k }
                    IN  (IF \E i \in newest : log[i].type = "Put"
                         THEN CHOOSE i \in newest : TRUE ELSE NoEntry) \in Nat
  BY DEF IndexOf
<1> DEFINE newest == { i \in 1 .. n : /\ log[i].key = k
                                      /\ \A j \in (i + 1) .. n : log[j].key # k }
<1>1. newest \subseteq Nat
  OBVIOUS
<1>2. CASE \E i \in newest : log[i].type = "Put"
  <2>1. (CHOOSE i \in newest : TRUE) \in newest
    BY <1>2
  <2> QED
    BY <1>1, <1>2, <2>1
<1>3. CASE ~\E i \in newest : log[i].type = "Put"
  BY <1>3 DEF NoEntry
<1> QED
  BY <1>2, <1>3

LEMMA ExactType == ASSUME log \in Seq(Records) PROVE Exact \in [Keys -> Nat]
<1>1. Len(log) \in 0 .. Len(log)
  OBVIOUS
<1> QED
  BY <1>1, IndexOfType DEF Exact

(* A step that leaves the records alone leaves the exact index as it is. *)
LEMMA SameLog == ASSUME log' = log PROVE Exact' = Exact
BY DEF Exact, IndexOf

LEMMA ReadersInit == Init => ReadersInv
<1> SUFFICES ASSUME Init PROVE ReadersInv
  OBVIOUS
<1>1. log \in Seq(Records) /\ Len(log) \in Nat
  BY DEF Init, Logs
<1>2. \A p \in Readers : /\ pc[p] = "start"
                         /\ cached[p] = NoIndex /\ handle[p] = 0
                         /\ buckets[p] \in BucketCounts
  BY DEF Init
<1>3. /\ (began.index <=> present) /\ (began.torn <=> torn)
      /\ began.sameBuckets <=> \A p, q \in Readers : buckets[p] = buckets[q]
  BY DEF Init
<1>4. /\ files \in Seq(IndexFiles)
      /\ \/ files = <<>> /\ Len(files) = 0
         \/ /\ Len(files) = 1
            /\ files[1].buckets \in BucketCounts
            /\ files[1].clean => files[1].map = Exact /\ ~torn
  <2>1. CASE files = <<>>
    BY <2>1
  <2>2. CASE files # <<>>
    <3>1. PICK n \in 0 .. Len(log), clean \in BOOLEAN, count \in BucketCounts :
            /\ clean => n = Len(log) /\ ~torn
            /\ files = <<Left(n, clean, count)>>
      BY <2>2 DEF Init
    <3>2. IndexOf(n) \in [Keys -> Nat] /\ n + 1 \in Nat /\ count \in Nat
      BY <1>1, IndexOfType
    <3>3. Left(n, clean, count) \in IndexFiles
      BY <3>2, Zenon DEF Left, IndexFiles
    <3>4. files \in Seq(IndexFiles) /\ Len(files) = 1 /\ files[1] = Left(n, clean, count)
      BY <3>1, <3>3
    <3> QED
      BY <3>1, <3>4 DEF Left, Exact
  <2> QED
    BY <2>1, <2>2
<1>9. ASSUME present PROVE /\ Len(files) = 1
                           /\ files[1].buckets \in BucketCounts
                           /\ files[1].clean => files[1].map = Exact /\ ~torn
                           /\ \A i \in 1 .. Len(files) : i = 1
  <2>1. /\ Len(files) = 1
        /\ files[1].buckets \in BucketCounts
        /\ files[1].clean => files[1].map = Exact /\ ~torn
    BY <1>4, <1>9, Zenon DEF present
  <2>2. \A i \in 1 .. 1 : i = 1
    OBVIOUS
  <2> QED
    BY <2>1, <2>2, Zenon
<1>5. TypeOK
  <2>1. cached \in [Readers -> [upTo : Nat, clean : BOOLEAN, buckets : Nat]]
    BY DEF Init, NoIndex
  <2>2. pc \in [Readers -> Places] /\ handle \in [Readers -> Nat] /\ buckets \in [Readers -> Nat]
    BY DEF Init, Places
  <2>3. began \in [index : BOOLEAN, torn : BOOLEAN, sameBuckets : BOOLEAN]
    BY Zenon DEF Init, present
  <2>4. torn \in BOOLEAN
    BY DEF Init
  <2> QED
    BY <1>1, <1>4, <2>1, <2>2, <2>3, <2>4 DEF TypeOK
<1>6. FilesInv
  <2>1. CASE files = <<>>
    BY <1>3, <1>4, <2>1 DEF FilesInv, Replaced, present
  <2>2. CASE files # <<>>
    <3>1. Len(files) = 1 /\ began.index /\ \A i \in 1 .. Len(files) : i = 1
      BY <1>3, <1>9, <2>2 DEF present
    <3>2. ~Replaced
      BY <3>1 DEF Replaced
    <3> QED
      BY <1>3, <1>9, <2>2, <3>1, <3>2 DEF FilesInv, present
  <2> QED
    BY <2>1, <2>2
<1>7. \A p \in Readers : ReaderInv(p)
  BY <1>2 DEF ReaderInv, Rebuilt, Trusting, WithFile
<1>8. ASSUME OneCount PROVE \E c \in BucketCounts \cup {0} : CountIs(c)
  <2>1. CASE began.index
    <3>1. Len(files) = 1 /\ files[1].buckets \in BucketCounts /\ \A i \in 1 .. Len(files) : i = 1
      BY <1>3, <1>9, <2>1
    <3>2. \A p \in Readers : ReaderCounts(p, files[1].buckets)
      BY <1>2, <2>1 DEF ReaderCounts, WithIndex, Trusting
    <3>3. CountIs(files[1].buckets)
      BY <3>1, <3>2 DEF CountIs
    <3> QED
      BY <3>1, <3>3
  <2>2. CASE ~began.index /\ Readers = {}
    <3>1. CountIs(0)
      BY <1>3, <1>4, <2>2 DEF CountIs, present
    <3> QED
      BY <3>1
  <2>3. CASE ~began.index /\ Readers # {}
    <3>1. PICK p0 \in Readers : TRUE
      BY <2>3
    <3>2. \A p \in Readers : buckets[p] = buckets[p0]
      BY <1>3, <1>8, <2>3 DEF OneCount
    <3>3. CountIs(buckets[p0]) /\ buckets[p0] \in BucketCounts
      BY <1>2, <1>3, <1>4, <2>3, <3>2 DEF CountIs, ReaderCounts, WithIndex, Trusting, present
    <3> QED
      BY <3>3
  <2> QED
    BY <2>1, <2>2, <2>3
<1> QED
  BY <1>5, <1>6, <1>7, <1>8 DEF ReadersInv

-----------------------------------------------------------------------------
(* Steps of one reader.                                                    *)

(* What the other readers, and the step's own place, leave of an action:   *)
(* a step in which only p moves.                                           *)
Alone(p) ==
    \A q \in Readers \ {p} :
        /\ pc'[q] = pc[q] /\ cached'[q] = cached[q]
        /\ handle'[q] = handle[q] /\ buckets'[q] = buckets[q]

(* Indexes stay what they are: a header field may change, but no index is  *)
(* flagged clean that is not exact; a fragment may go, none comes.         *)
KeptIndexes ==
    /\ log' = log /\ began' = began
    /\ torn' => torn
    /\ Len(files') = Len(files)
    /\ \A i \in 1 .. Len(files) :
         /\ files'[i].map = files[i].map
         /\ files'[i].buckets = files[i].buckets
         /\ files'[i].clean => files[i].clean \/ (files[i].map = Exact /\ ~torn)

(* While the indexes stay, what others know stays true. *)
LEMMA OthersKnow ==
    ASSUME ReadersInv, KeptIndexes, TypeOK', NEW p \in Readers, Alone(p), ReaderInv(p)',
           \A c \in BucketCounts \cup {0} :
               OneCount /\ CountIs(c) => ReaderCounts(p, c)'
    PROVE  ReadersInv'
<1>1. Exact' = Exact
  BY SameLog DEF KeptIndexes
<1>2. Len(files) \in Nat /\ Len(files') = Len(files)
  BY DEF ReadersInv, TypeOK, KeptIndexes
<1>3. present' <=> present
  <2>1. present <=> Len(files) # 0
    BY DEF ReadersInv, TypeOK, present
  <2>2. present' <=> Len(files') # 0
    BY DEF TypeOK, present
  <2> QED
    BY <1>2, <2>1, <2>2
<1>4. (Replaced' <=> Replaced) /\ (OneCount' <=> OneCount)
  BY <1>2 DEF Replaced, OneCount, KeptIndexes
<1>5. present => Current'.map = Current.map
  BY <1>2, <1>3 DEF Current, KeptIndexes, ReadersInv, TypeOK, present
<1>6. FilesInv'
  BY <1>1, <1>2, <1>3, <1>4 DEF ReadersInv, FilesInv, KeptIndexes
<1>7. ASSUME NEW q \in Readers PROVE ReaderInv(q)'
  <2>1. CASE q = p
    BY <2>1
  <2>2. CASE q # p
    <3>1. /\ pc'[q] = pc[q] /\ cached'[q] = cached[q]
          /\ handle'[q] = handle[q] /\ buckets'[q] = buckets[q]
      BY <2>2 DEF Alone
    <3>2. ReaderInv(q)
      BY DEF ReadersInv
    <3>3. pc[q] \in {"table", "check"} => present
      BY <3>2 DEF ReaderInv
    <3> QED
      BY <1>1, <1>2, <1>3, <1>4, <1>5, <3>1, <3>2, <3>3
         DEF ReaderInv, KeptIndexes, Rebuilt, Trusting, WithFile
  <2> QED
    BY <2>1, <2>2
<1>8. ASSUME OneCount' PROVE \E c \in BucketCounts \cup {0} : CountIs(c)'
  <2>1. PICK c \in BucketCounts \cup {0} : CountIs(c)
    BY <1>4, <1>8 DEF ReadersInv
  <2>2. \A q \in Readers : ReaderCounts(q, c)'
    BY <1>4, <1>8, <2>1 DEF CountIs, ReaderCounts, Alone, KeptIndexes
  <2>3. CountIs(c)'
    BY <1>2, <2>1, <2>2 DEF CountIs, KeptIndexes
  <2> QED
    BY <2>3
<1> QED
  BY <1>6, <1>7, <1>8 DEF ReadersInv

(* The index that has the name is exact once any index was, and the        *)
(* fragment is gone once there has been a rename.                          *)
LEMMA Newest ==
    ASSUME ReadersInv
    PROVE  /\ present => Len(files) \in 1 .. Len(files)
           /\ \A i \in 1 .. Len(files) : files[i].map = Exact => Current.map = Exact
           /\ \A i \in 1 .. Len(files) : i # Len(files) => Replaced
           /\ Replaced => present /\ Current.map = Exact /\ ~torn
<1>1. Len(files) \in Nat /\ (present <=> Len(files) # 0)
  BY DEF ReadersInv, TypeOK, present
<1>2. present => Len(files) \in 1 .. Len(files)
  BY <1>1
<1>3. Replaced => present /\ Current.map = Exact /\ ~torn
  BY <1>1 DEF ReadersInv, FilesInv, Replaced, Current
<1>4. \A i \in 1 .. Len(files) : i # Len(files) => Replaced
  BY <1>1 DEF Replaced
<1>5. \A i \in 1 .. Len(files) : files[i].map = Exact => Current.map = Exact
  BY <1>3, <1>4 DEF Current
<1> QED
  BY <1>2, <1>3, <1>4, <1>5

(* A process that ends leaves nothing ill-typed behind. *)
LEMMA GoneType ==
    ASSUME TypeOK, NEW p \in Readers, NEW how, Gone(p, how)
    PROVE  /\ cached' \in [Readers -> [upTo : Nat, clean : BOOLEAN, buckets : Nat]]
           /\ handle' \in [Readers -> Nat] /\ buckets' \in [Readers -> Nat]
BY DEF TypeOK, Gone, NoIndex

(* The actions that leave the files alone. *)
LEMMA OpenToLoadStep == ASSUME ReadersInv, NEW p \in Readers, OpenToLoad(p) PROVE ReadersInv'
<1>1. KeptIndexes /\ Alone(p)
  BY DEF ReadersInv, TypeOK, KeptIndexes, Alone, disk, OpenToLoad, Goto
<1>2. TypeOK'
  <2>1. pc' \in [Readers -> Places]
    BY DEF ReadersInv, TypeOK, Places, Ended, OpenToLoad, Goto
  <2>2. cached' \in [Readers -> [upTo : Nat, clean : BOOLEAN, buckets : Nat]]
    BY DEF ReadersInv, TypeOK, OpenToLoad, Goto
  <2>3. handle' \in [Readers -> Nat] /\ buckets' \in [Readers -> Nat]
    BY Newest DEF ReadersInv, TypeOK, OpenToLoad, Goto
  <2> QED
    BY <2>1, <2>2, <2>3 DEF ReadersInv, TypeOK, disk, OpenToLoad
<1>3. ReaderInv(p)'
  BY Newest, SameLog DEF ReadersInv, FilesInv, ReaderInv, TypeOK, Rebuilt, Trusting, WithFile, Replaced, OneCount, Current, present, disk, OpenToLoad, Goto
<1>4. ASSUME NEW c \in BucketCounts \cup {0}, OneCount, CountIs(c) PROVE ReaderCounts(p, c)'
  BY <1>4 DEF ReadersInv, ReaderInv, TypeOK, CountIs, ReaderCounts, WithIndex, Trusting, WithFile, disk, OpenToLoad, Goto
<1> QED
  BY <1>1, <1>2, <1>3, <1>4, OthersKnow

LEMMA ReadHeaderStep == ASSUME ReadersInv, NEW p \in Readers, ReadHeader(p) PROVE ReadersInv'
<1>1. KeptIndexes /\ Alone(p)
  BY DEF ReadersInv, TypeOK, KeptIndexes, Alone, disk, ReadHeader, Goto
<1>2. TypeOK'
  <2>1. pc' \in [Readers -> Places]
    BY DEF ReadersInv, TypeOK, Places, Ended, ReadHeader, Goto
  <2>2. cached' \in [Readers -> [upTo : Nat, clean : BOOLEAN, buckets : Nat]]
    <3>1. pc[p] \in WithFile
      BY DEF ReadHeader, WithFile
    <3>2. files[handle[p]] \in IndexFiles
      BY <3>1 DEF ReadersInv, ReaderInv, TypeOK
    <3>3. [upTo |-> files[handle[p]].upTo, clean |-> files[handle[p]].clean,
           buckets |-> files[handle[p]].buckets] \in [upTo : Nat, clean : BOOLEAN, buckets : Nat]
      BY <3>2, Zenon DEF IndexFiles
    <3> QED
      BY <3>3 DEF ReadersInv, TypeOK, ReadHeader
  <2>3. handle' \in [Readers -> Nat] /\ buckets' \in [Readers -> Nat]
    BY Newest DEF ReadersInv, TypeOK, ReadHeader, Goto
  <2> QED
    BY <2>1, <2>2, <2>3 DEF ReadersInv, TypeOK, disk, ReadHeader
<1>3. ReaderInv(p)'
  BY Newest, SameLog DEF ReadersInv, FilesInv, ReaderInv, TypeOK, Rebuilt, Trusting, WithFile, Replaced, OneCount, Current, present, disk, ReadHeader, Goto
<1>4. ASSUME NEW c \in BucketCounts \cup {0}, OneCount, CountIs(c) PROVE ReaderCounts(p, c)'
  BY <1>4 DEF ReadersInv, ReaderInv, TypeOK, CountIs, ReaderCounts, WithIndex, Trusting, WithFile, disk, ReadHeader, Goto
<1> QED
  BY <1>1, <1>2, <1>3, <1>4, OthersKnow

LEMMA TableFitsStep == ASSUME ReadersInv, NEW p \in Readers, TableFits(p) PROVE ReadersInv'
<1>1. KeptIndexes /\ Alone(p)
  BY DEF ReadersInv, TypeOK, KeptIndexes, Alone, disk, TableFits, Goto
<1>2. TypeOK'
  BY Newest DEF ReadersInv, ReaderInv, TypeOK, IndexFiles, Places, Ended, WithFile, disk, TableFits, Goto
<1>3. ReaderInv(p)'
  BY Newest, SameLog DEF ReadersInv, FilesInv, ReaderInv, TypeOK, Rebuilt, Trusting, WithFile, Replaced, OneCount, Current, present, disk, TableFits, Goto
<1>4. ASSUME NEW c \in BucketCounts \cup {0}, OneCount, CountIs(c) PROVE ReaderCounts(p, c)'
  BY <1>4 DEF ReadersInv, ReaderInv, TypeOK, CountIs, ReaderCounts, WithIndex, Trusting, WithFile, disk, TableFits, Goto
<1> QED
  BY <1>1, <1>2, <1>3, <1>4, OthersKnow

LEMMA TableTooLargeStep == ASSUME ReadersInv, NEW p \in Readers, TableTooLarge(p) PROVE ReadersInv'
<1>1. KeptIndexes /\ Alone(p)
  BY DEF ReadersInv, TypeOK, KeptIndexes, Alone, disk, TableTooLarge, Gone, Goto, NoIndex
<1>2. TypeOK'
  <2>1. pc' \in [Readers -> Places]
    BY DEF ReadersInv, TypeOK, Places, Ended, TableTooLarge, Gone, Goto, NoIndex
  <2>2. /\ cached' \in [Readers -> [upTo : Nat, clean : BOOLEAN, buckets : Nat]]
        /\ handle' \in [Readers -> Nat] /\ buckets' \in [Readers -> Nat]
    BY GoneType DEF ReadersInv, TableTooLarge
  <2> QED
    BY <2>1, <2>2 DEF ReadersInv, TypeOK, disk, TableTooLarge
<1>5. /\ pc[p] \in {"table", "reload_table"} /\ handle[p] \in 1 .. Len(files)
      /\ cached[p].buckets = files[handle[p]].buckets
      /\ Len(files) \in 1 .. Len(files)
  BY Newest DEF ReadersInv, ReaderInv, WithFile, Rebuilt, TableTooLarge
<1>6. handle[p] # Len(files)
  BY <1>5 DEF ReadersInv, TypeOK, IndexFiles, TableTooLarge, Current
<1>7. Replaced /\ ~torn
  BY <1>5, <1>6, Newest
<1>8. ~OneCount
  <2>1. SUFFICES ASSUME OneCount PROVE FALSE
    OBVIOUS
  <2>2. PICK c \in BucketCounts \cup {0} : CountIs(c)
    BY <2>1 DEF ReadersInv
  <2>3. cached[p].buckets = c /\ Current.buckets = c /\ c \in Nat
    BY <1>5, <2>2 DEF CountIs, Current, SharedReadersAssumption
  <2> QED
    BY <2>3 DEF TableTooLarge
<1>3. ReaderInv(p)'
  <2>1. pc'[p] \in {"build", "threw"}
    BY DEF ReadersInv, TypeOK, TableTooLarge, Gone, Goto
  <2>2. ~torn' /\ ~OneCount'
    BY <1>7, <1>8 DEF OneCount, TableTooLarge, disk
  <2> QED
    BY <2>1, <2>2 DEF ReaderInv, Rebuilt, Trusting, WithFile
<1>4. ASSUME NEW c \in BucketCounts \cup {0}, OneCount, CountIs(c) PROVE ReaderCounts(p, c)'
  BY <1>4, <1>8
<1> QED
  BY <1>1, <1>2, <1>3, <1>4, OthersKnow

LEMMA LoadMissingIndexStep == ASSUME ReadersInv, NEW p \in Readers, LoadMissingIndex(p) PROVE ReadersInv'
<1>1. KeptIndexes /\ Alone(p)
  BY DEF ReadersInv, TypeOK, KeptIndexes, Alone, disk, LoadMissingIndex, Goto, object
<1>2. TypeOK'
  BY Newest DEF ReadersInv, ReaderInv, TypeOK, IndexFiles, Places, Ended, WithFile, disk, LoadMissingIndex, Goto, object
<1>3. ReaderInv(p)'
  BY Newest, SameLog DEF ReadersInv, FilesInv, ReaderInv, TypeOK, Rebuilt, Trusting, WithFile, Replaced, OneCount, Current, present, disk, LoadMissingIndex, Goto, object
<1>4. ASSUME NEW c \in BucketCounts \cup {0}, OneCount, CountIs(c) PROVE ReaderCounts(p, c)'
  <2>1. ~began.index
    BY DEF ReadersInv, FilesInv, LoadMissingIndex
  <2> QED
    BY <1>4, <2>1 DEF ReadersInv, TypeOK, CountIs, ReaderCounts, WithIndex, Trusting,
         LoadMissingIndex, Goto, object
<1> QED
  BY <1>1, <1>2, <1>3, <1>4, OthersKnow

LEMMA CheckStep == ASSUME ReadersInv, NEW p \in Readers, Check(p) PROVE ReadersInv'
<1>1. KeptIndexes /\ Alone(p)
  BY DEF ReadersInv, TypeOK, KeptIndexes, Alone, disk, Check, Goto, object
<1>2. TypeOK'
  BY Newest DEF ReadersInv, ReaderInv, TypeOK, IndexFiles, Places, Ended, WithFile, disk, Check, Goto, object
<1>3. ReaderInv(p)'
  BY Newest, SameLog DEF ReadersInv, FilesInv, ReaderInv, TypeOK, Rebuilt, Trusting, WithFile, Replaced, OneCount, Current, present, disk, Check, index_metadata_clean, Goto, object
<1>4. ASSUME NEW c \in BucketCounts \cup {0}, OneCount, CountIs(c) PROVE ReaderCounts(p, c)'
  BY <1>4 DEF ReadersInv, ReaderInv, TypeOK, CountIs, ReaderCounts, WithIndex, Trusting, WithFile, disk, Check, Goto, object
<1> QED
  BY <1>1, <1>2, <1>3, <1>4, OthersKnow

LEMMA ScanStep == ASSUME ReadersInv, NEW p \in Readers, Scan(p) PROVE ReadersInv'
<1>1. KeptIndexes /\ Alone(p)
  BY DEF ReadersInv, TypeOK, KeptIndexes, Alone, disk, Scan, Goto
<1>2. TypeOK'
  BY Newest DEF ReadersInv, ReaderInv, TypeOK, IndexFiles, Places, Ended, WithFile, disk, Scan, Goto
<1>3. ReaderInv(p)'
  BY Newest, SameLog DEF ReadersInv, FilesInv, ReaderInv, TypeOK, Rebuilt, Trusting, WithFile, Replaced, OneCount, Current, present, disk, Scan, Goto
<1>4. ASSUME NEW c \in BucketCounts \cup {0}, OneCount, CountIs(c) PROVE ReaderCounts(p, c)'
  BY <1>4 DEF ReadersInv, ReaderInv, TypeOK, CountIs, ReaderCounts, WithIndex, Trusting, WithFile, disk, Scan, Goto
<1> QED
  BY <1>1, <1>2, <1>3, <1>4, OthersKnow

LEMMA BuildStep == ASSUME ReadersInv, NEW p \in Readers, Build(p) PROVE ReadersInv'
<1>1. KeptIndexes /\ Alone(p)
  BY DEF ReadersInv, TypeOK, KeptIndexes, Alone, disk, Build, Gone, Goto, NoIndex, object
<1>2. TypeOK'
  <2>1. pc' \in [Readers -> Places]
    BY DEF ReadersInv, TypeOK, Places, Ended, Build, Gone, Goto, NoIndex, object
  <2>2. /\ cached' \in [Readers -> [upTo : Nat, clean : BOOLEAN, buckets : Nat]]
        /\ handle' \in [Readers -> Nat] /\ buckets' \in [Readers -> Nat]
    <3>1. CASE UNCHANGED object
      BY <3>1 DEF ReadersInv, TypeOK, object
    <3>2. CASE Gone(p, "threw")
      BY <3>2, GoneType DEF ReadersInv
    <3> QED
      BY <3>1, <3>2 DEF Build
  <2> QED
    BY <2>1, <2>2 DEF ReadersInv, TypeOK, disk, Build
<1>3. ReaderInv(p)'
  BY Newest, SameLog DEF ReadersInv, FilesInv, ReaderInv, TypeOK, Rebuilt, Trusting, WithFile, Replaced, OneCount, Current, present, disk, Build, Gone, Goto, NoIndex, object
<1>4. ASSUME NEW c \in BucketCounts \cup {0}, OneCount, CountIs(c) PROVE ReaderCounts(p, c)'
  BY <1>4 DEF ReadersInv, ReaderInv, TypeOK, CountIs, ReaderCounts, WithIndex, Trusting, WithFile, disk, Build, Gone, Goto, NoIndex, object
<1> QED
  BY <1>1, <1>2, <1>3, <1>4, OthersKnow

LEMMA OpenForWriteStep == ASSUME ReadersInv, NEW p \in Readers, OpenForWrite(p) PROVE ReadersInv'
<1>1. KeptIndexes /\ Alone(p)
  BY DEF ReadersInv, TypeOK, KeptIndexes, Alone, disk, OpenForWrite, Goto
<1>2. TypeOK'
  <2>1. pc' \in [Readers -> Places]
    BY DEF ReadersInv, TypeOK, Places, Ended, OpenForWrite, Goto
  <2>2. cached' \in [Readers -> [upTo : Nat, clean : BOOLEAN, buckets : Nat]]
    BY DEF ReadersInv, TypeOK, OpenForWrite, Goto
  <2>3. handle' \in [Readers -> Nat] /\ buckets' \in [Readers -> Nat]
    BY Newest DEF ReadersInv, TypeOK, OpenForWrite, Goto
  <2> QED
    BY <2>1, <2>2, <2>3 DEF ReadersInv, TypeOK, disk, OpenForWrite
<1>3. ReaderInv(p)'
  BY Newest, SameLog DEF ReadersInv, FilesInv, ReaderInv, TypeOK, Rebuilt, Trusting, WithFile, Replaced, OneCount, Current, present, disk, OpenForWrite, Goto
<1>4. ASSUME NEW c \in BucketCounts \cup {0}, OneCount, CountIs(c) PROVE ReaderCounts(p, c)'
  BY <1>4 DEF ReadersInv, ReaderInv, TypeOK, CountIs, ReaderCounts, WithIndex, Trusting, WithFile, disk, OpenForWrite, Goto
<1> QED
  BY <1>1, <1>2, <1>3, <1>4, OthersKnow

LEMMA CloseStep == ASSUME ReadersInv, NEW p \in Readers, Close(p) PROVE ReadersInv'
<1>1. KeptIndexes /\ Alone(p)
  BY DEF ReadersInv, TypeOK, KeptIndexes, Alone, disk, Close, Gone, Goto, NoIndex, object
<1>2. TypeOK'
  <2>1. pc' \in [Readers -> Places]
    BY DEF ReadersInv, TypeOK, Places, Ended, Close, Gone, Goto, NoIndex, object
  <2>2. /\ cached' \in [Readers -> [upTo : Nat, clean : BOOLEAN, buckets : Nat]]
        /\ handle' \in [Readers -> Nat] /\ buckets' \in [Readers -> Nat]
    <3>1. CASE UNCHANGED object
      BY <3>1 DEF ReadersInv, TypeOK, object
    <3>2. CASE Gone(p, "done")
      BY <3>2, GoneType DEF ReadersInv
    <3> QED
      BY <3>1, <3>2 DEF Close
  <2> QED
    BY <2>1, <2>2 DEF ReadersInv, TypeOK, disk, Close
<1>3. ReaderInv(p)'
  BY Newest, SameLog DEF ReadersInv, FilesInv, ReaderInv, TypeOK, Rebuilt, Trusting, WithFile, Replaced, OneCount, Current, present, disk, Close, Gone, Goto, NoIndex, object
<1>4. ASSUME NEW c \in BucketCounts \cup {0}, OneCount, CountIs(c) PROVE ReaderCounts(p, c)'
  BY <1>4 DEF ReadersInv, ReaderInv, TypeOK, CountIs, ReaderCounts, WithIndex, Trusting, WithFile, disk, Close, Gone, Goto, NoIndex, object
<1> QED
  BY <1>1, <1>2, <1>3, <1>4, OthersKnow

LEMMA KillStep == ASSUME ReadersInv, NEW p \in Readers, Kill(p) PROVE ReadersInv'
<1>1. KeptIndexes /\ Alone(p)
  BY DEF ReadersInv, TypeOK, KeptIndexes, Alone, disk, Kill, Gone, Goto, NoIndex
<1>2. TypeOK'
  BY Newest DEF ReadersInv, ReaderInv, TypeOK, IndexFiles, Places, Ended, WithFile, disk, Kill, Gone, Goto, NoIndex
<1>3. ReaderInv(p)'
  BY Newest, SameLog DEF ReadersInv, FilesInv, ReaderInv, TypeOK, Rebuilt, Trusting, WithFile, Replaced, OneCount, Current, present, disk, Kill, Gone, Goto, NoIndex
<1>4. ASSUME NEW c \in BucketCounts \cup {0}, OneCount, CountIs(c) PROVE ReaderCounts(p, c)'
  BY <1>4 DEF ReadersInv, ReaderInv, TypeOK, CountIs, ReaderCounts, WithIndex, Trusting, WithFile, disk, Kill, Gone, Goto, NoIndex
<1> QED
  BY <1>1, <1>2, <1>3, <1>4, OthersKnow

(* One file among the others is written. *)
LEMMA OneFileWritten ==
    ASSUME NEW s \in Seq(IndexFiles), NEW h \in 1 .. Len(s), NEW file \in IndexFiles
    PROVE  /\ [s EXCEPT ![h] = file] \in Seq(IndexFiles)
           /\ Len([s EXCEPT ![h] = file]) = Len(s)
           /\ [s EXCEPT ![h] = file][h] = file
           /\ \A i \in 1 .. Len(s) : i # h => [s EXCEPT ![h] = file][i] = s[i]
OBVIOUS

(* Writing one field of the header leaves the others. *)
LEMMA HeaderWritten ==
    ASSUME NEW file \in IndexFiles, NEW n \in Nat, NEW value \in BOOLEAN
    PROVE  /\ [file EXCEPT !.upTo = n] \in IndexFiles
           /\ [file EXCEPT !.upTo = n].map = file.map
           /\ [file EXCEPT !.upTo = n].clean = file.clean
           /\ [file EXCEPT !.upTo = n].buckets = file.buckets
           /\ [file EXCEPT !.clean = value] \in IndexFiles
           /\ [file EXCEPT !.clean = value].map = file.map
           /\ [file EXCEPT !.clean = value].buckets = file.buckets
BY DEF IndexFiles

(* The actions that write to a file. *)
LEMMA ResizeStep == ASSUME ReadersInv, NEW p \in Readers, Resize(p) PROVE ReadersInv'
<1>1. KeptIndexes /\ Alone(p)
  BY DEF ReadersInv, TypeOK, KeptIndexes, Alone, Resize, Goto, object
<1>2. TypeOK'
  BY DEF ReadersInv, TypeOK, Places, Resize, Goto, object
<1>3. ReaderInv(p)'
  BY DEF ReadersInv, TypeOK, ReaderInv, Rebuilt, Trusting, WithFile, Resize, Goto, object
<1>4. ASSUME NEW c \in BucketCounts \cup {0}, OneCount, CountIs(c) PROVE ReaderCounts(p, c)'
  BY <1>4 DEF ReadersInv, TypeOK, CountIs, ReaderCounts, WithIndex, Trusting, Resize, Goto, object
<1> QED
  BY <1>1, <1>2, <1>3, <1>4, OthersKnow

LEMMA WriteCheckpointStep ==
    ASSUME ReadersInv, NEW p \in Readers, WriteCheckpoint(p) PROVE ReadersInv'
<1>1. handle[p] \in 1 .. Len(files) /\ FileSize \in Nat
  BY DEF ReadersInv, ReaderInv, TypeOK, WithFile, WriteCheckpoint, FileSize
<1>2. files[handle[p]] \in IndexFiles
  BY <1>1 DEF ReadersInv, TypeOK
<1>3. files \in Seq(IndexFiles) /\ files' = [files EXCEPT ![handle[p]] = [files[handle[p]] EXCEPT !.upTo = FileSize]]
  BY DEF ReadersInv, TypeOK, WriteCheckpoint
<1>4. /\ files' \in Seq(IndexFiles) /\ Len(files') = Len(files)
      /\ files'[handle[p]] = [files[handle[p]] EXCEPT !.upTo = FileSize]
      /\ \A i \in 1 .. Len(files) : i # handle[p] => files'[i] = files[i]
  <2> DEFINE file == [files[handle[p]] EXCEPT !.upTo = FileSize]
  <2>1. file \in IndexFiles
    BY <1>1, <1>2, HeaderWritten
  <2> HIDE DEF file
  <2>2. /\ [files EXCEPT ![handle[p]] = file] \in Seq(IndexFiles)
        /\ Len([files EXCEPT ![handle[p]] = file]) = Len(files)
        /\ [files EXCEPT ![handle[p]] = file][handle[p]] = file
        /\ \A i \in 1 .. Len(files) :
             i # handle[p] => [files EXCEPT ![handle[p]] = file][i] = files[i]
    BY <1>1, <1>3, <2>1, OneFileWritten
  <2>3. files' = [files EXCEPT ![handle[p]] = file]
    BY <1>3 DEF file
  <2>4. /\ files' \in Seq(IndexFiles) /\ Len(files') = Len(files)
        /\ files'[handle[p]] = file
        /\ \A i \in 1 .. Len(files) : i # handle[p] => files'[i] = files[i]
    BY <2>2, <2>3
  <2> QED
    BY <2>4 DEF file
<1>5. \A i \in 1 .. Len(files) : /\ files'[i].map = files[i].map
                                 /\ files'[i].buckets = files[i].buckets
                                 /\ files'[i].clean = files[i].clean
  <2> SUFFICES ASSUME NEW i \in 1 .. Len(files)
               PROVE  /\ files'[i].map = files[i].map
                      /\ files'[i].buckets = files[i].buckets
                      /\ files'[i].clean = files[i].clean
    OBVIOUS
  <2>1. CASE i = handle[p]
    <3>1. files[i] \in IndexFiles /\ files'[i] = [files[i] EXCEPT !.upTo = FileSize]
      BY <1>1, <1>2, <1>4, <2>1
    <3>2. /\ [files[i] EXCEPT !.upTo = FileSize].map = files[i].map
          /\ [files[i] EXCEPT !.upTo = FileSize].buckets = files[i].buckets
          /\ [files[i] EXCEPT !.upTo = FileSize].clean = files[i].clean
      BY <1>1, <3>1, HeaderWritten
    <3> QED
      BY <3>1, <3>2
  <2>2. CASE i # handle[p]
    BY <1>4, <2>2
  <2> QED
    BY <2>1, <2>2
<1>6. KeptIndexes /\ Alone(p)
  BY <1>4, <1>5 DEF ReadersInv, TypeOK, KeptIndexes, Alone, WriteCheckpoint, Goto
<1>7. TypeOK'
  <2>1. pc' \in [Readers -> Places]
    BY DEF ReadersInv, TypeOK, Places, WriteCheckpoint, Goto
  <2>2. cached' \in [Readers -> [upTo : Nat, clean : BOOLEAN, buckets : Nat]]
    BY <1>1 DEF ReadersInv, TypeOK, WriteCheckpoint
  <2>3. handle' \in [Readers -> Nat]
    BY DEF ReadersInv, TypeOK, WriteCheckpoint
  <2> QED
    BY <1>4, <2>1, <2>2, <2>3 DEF ReadersInv, TypeOK, WriteCheckpoint
<1>8. ReaderInv(p)'
  <2>1. pc'[p] = "mark"
    BY DEF ReadersInv, TypeOK, WriteCheckpoint, Goto
  <2>2. present /\ Current.map = Exact /\ ~torn
    BY Newest DEF ReadersInv, ReaderInv, Rebuilt, WriteCheckpoint
  <2>3. present' /\ Current'.map = Current.map /\ Exact' = Exact /\ ~torn'
    BY <1>4, <1>5, <2>2, Newest, SameLog DEF ReadersInv, TypeOK, present, Current, WriteCheckpoint
  <2> QED
    BY <2>1, <2>2, <2>3 DEF ReaderInv, Rebuilt, Trusting, WithFile
<1>9. ASSUME NEW c \in BucketCounts \cup {0}, OneCount, CountIs(c) PROVE ReaderCounts(p, c)'
  BY <1>9 DEF ReadersInv, TypeOK, CountIs, ReaderCounts, WithIndex, Trusting, WriteCheckpoint, Goto
<1> QED
  BY <1>6, <1>7, <1>8, <1>9, OthersKnow

(* Setting or clearing the clean flag of an index that is exact. *)
LEMMA CleanFlagWritten ==
    ASSUME ReadersInv, NEW h \in 1 .. Len(files), NEW value \in BOOLEAN,
           files[h].map = Exact /\ ~torn,
           files' = [files EXCEPT ![h].clean = value],
           log' = log, torn' = torn, began' = began
    PROVE  /\ KeptIndexes
           /\ files' \in Seq(IndexFiles)
           /\ present' <=> present
           /\ Current'.map = Exact'
<1>1. files[h] \in IndexFiles
  BY DEF ReadersInv, TypeOK
<1>2. files \in Seq(IndexFiles) /\ files' = [files EXCEPT ![h] = [files[h] EXCEPT !.clean = value]]
  BY DEF ReadersInv, TypeOK
<1>3. /\ files' \in Seq(IndexFiles) /\ Len(files') = Len(files)
      /\ files'[h] = [files[h] EXCEPT !.clean = value]
      /\ \A i \in 1 .. Len(files) : i # h => files'[i] = files[i]
  <2>1. [files[h] EXCEPT !.clean = value] \in IndexFiles
    BY <1>1, HeaderWritten
  <2> DEFINE file == [files[h] EXCEPT !.clean = value]
  <2> HIDE DEF file
  <2>2. file \in IndexFiles
    BY <2>1 DEF file
  <2>3. /\ [files EXCEPT ![h] = file] \in Seq(IndexFiles)
        /\ Len([files EXCEPT ![h] = file]) = Len(files)
        /\ [files EXCEPT ![h] = file][h] = file
        /\ \A i \in 1 .. Len(files) : i # h => [files EXCEPT ![h] = file][i] = files[i]
    BY <1>2, <2>2, OneFileWritten
  <2>4. files' = [files EXCEPT ![h] = file]
    BY <1>2 DEF file
  <2>5. /\ files' \in Seq(IndexFiles) /\ Len(files') = Len(files)
        /\ files'[h] = file
        /\ \A i \in 1 .. Len(files) : i # h => files'[i] = files[i]
    BY <2>3, <2>4
  <2> QED
    BY <2>5 DEF file
<1>4. \A i \in 1 .. Len(files) : /\ files'[i].map = files[i].map
                                 /\ files'[i].buckets = files[i].buckets
                                 /\ i # h => files'[i].clean = files[i].clean
  <2> SUFFICES ASSUME NEW i \in 1 .. Len(files)
               PROVE  /\ files'[i].map = files[i].map
                      /\ files'[i].buckets = files[i].buckets
                      /\ i # h => files'[i].clean = files[i].clean
    OBVIOUS
  <2>1. CASE i = h
    BY <1>1, <1>3, <2>1, HeaderWritten
  <2>2. CASE i # h
    BY <1>3, <2>2
  <2> QED
    BY <2>1, <2>2
<1>5. KeptIndexes
  BY <1>3, <1>4 DEF KeptIndexes
<1>6. present /\ present' /\ Len(files) \in 1 .. Len(files)
  BY <1>3, Newest DEF ReadersInv, TypeOK, present
<1>7. Current'.map = Current.map
  BY <1>3, <1>4, <1>6 DEF Current
<1> QED
  BY <1>3, <1>5, <1>6, <1>7, Newest, SameLog

LEMMA MarkDirtyStep == ASSUME ReadersInv, NEW p \in Readers, MarkDirty(p) PROVE ReadersInv'
<1>1. /\ handle[p] \in 1 .. Len(files) /\ files[handle[p]].map = Exact
      /\ present /\ ~torn
  BY DEF ReadersInv, ReaderInv, WithFile, Trusting, MarkDirty
<1>2. /\ KeptIndexes /\ files' \in Seq(IndexFiles)
      /\ present' /\ Current'.map = Exact' /\ ~torn'
  BY <1>1, CleanFlagWritten DEF MarkDirty
<1>3. Alone(p)
  BY DEF ReadersInv, TypeOK, Alone, MarkDirty, Goto
<1>4. TypeOK'
  <2>1. pc' \in [Readers -> Places]
    BY DEF ReadersInv, TypeOK, Places, MarkDirty, Goto
  <2>2. cached' \in [Readers -> [upTo : Nat, clean : BOOLEAN, buckets : Nat]]
    BY DEF ReadersInv, TypeOK, MarkDirty
  <2>3. handle' \in [Readers -> Nat]
    BY DEF ReadersInv, TypeOK, MarkDirty
  <2> QED
    BY <1>2, <2>1, <2>2, <2>3 DEF ReadersInv, TypeOK, MarkDirty
<1>5. ReaderInv(p)'
  <2>1. pc'[p] = "ready"
    BY DEF ReadersInv, TypeOK, MarkDirty, Goto
  <2> QED
    BY <1>2, <2>1 DEF ReaderInv, Rebuilt, Trusting, WithFile
<1>6. ASSUME NEW c \in BucketCounts \cup {0}, OneCount, CountIs(c) PROVE ReaderCounts(p, c)'
  BY <1>6 DEF ReadersInv, TypeOK, CountIs, ReaderCounts, WithIndex, Trusting, MarkDirty, Goto
<1> QED
  BY <1>2, <1>3, <1>4, <1>5, <1>6, OthersKnow

LEMMA MarkCleanStep == ASSUME ReadersInv, NEW p \in Readers, MarkClean(p) PROVE ReadersInv'
<1>1. /\ handle[p] \in 1 .. Len(files) /\ files[handle[p]].map = Exact
      /\ present /\ ~torn
  BY DEF ReadersInv, ReaderInv, WithFile, Trusting, MarkClean
<1>2. KeptIndexes /\ files' \in Seq(IndexFiles)
  BY <1>1, CleanFlagWritten DEF MarkClean
<1>3. Alone(p)
  BY DEF ReadersInv, TypeOK, Alone, MarkClean, Gone, Goto
<1>4. TypeOK'
  <2>1. pc' \in [Readers -> Places]
    BY DEF ReadersInv, TypeOK, Places, Ended, MarkClean, Gone, Goto
  <2>2. /\ cached' \in [Readers -> [upTo : Nat, clean : BOOLEAN, buckets : Nat]]
        /\ handle' \in [Readers -> Nat] /\ buckets' \in [Readers -> Nat]
    BY GoneType DEF ReadersInv, MarkClean
  <2> QED
    BY <1>2, <2>1, <2>2 DEF ReadersInv, TypeOK, MarkClean
<1>5. ReaderInv(p)'
  <2>1. pc'[p] = "done"
    BY DEF ReadersInv, TypeOK, MarkClean, Gone, Goto
  <2> QED
    BY <2>1 DEF ReaderInv, Rebuilt, Trusting, WithFile
<1>6. ASSUME NEW c \in BucketCounts \cup {0}, OneCount, CountIs(c) PROVE ReaderCounts(p, c)'
  BY <1>6 DEF ReadersInv, TypeOK, CountIs, ReaderCounts, WithIndex, Trusting, MarkClean, Gone, Goto
<1> QED
  BY <1>2, <1>3, <1>4, <1>5, <1>6, OthersKnow

(* A rename puts an exact index in the place of whatever had the name. *)
LEMMA InstallStep == ASSUME ReadersInv, NEW p \in Readers, Install(p) PROVE ReadersInv'
<1>1. Exact' = Exact /\ ~torn /\ ~torn' /\ began' = began /\ log' = log
  BY SameLog DEF ReadersInv, ReaderInv, Install
<1>2. NewFile(p, Exact) \in IndexFiles
  <2>1. Exact \in [Keys -> Nat] /\ buckets[p] \in Nat
    BY ExactType DEF ReadersInv, TypeOK
  <2> QED
    BY <2>1 DEF NewFile, IndexFiles
<1>3. /\ Len(files) \in Nat
      /\ files' \in Seq(IndexFiles) /\ Len(files') = Len(files) + 1
      /\ \A i \in 1 .. Len(files) : files'[i] = files[i]
      /\ files'[Len(files) + 1] = NewFile(p, Exact)
  BY <1>2 DEF ReadersInv, TypeOK, Install
<1>4. present' /\ Current'.map = Exact' /\ Replaced' /\ (OneCount' <=> OneCount)
  <2>1. present'
    BY <1>3 DEF present
  <2>2. Current' = NewFile(p, Exact)
    BY <1>3 DEF Current
  <2>3. NewFile(p, Exact).map = Exact
    BY DEF NewFile
  <2>4. Replaced'
    <3>1. Len(files) > 0 \/ ~began.index
      BY <1>3 DEF ReadersInv, TypeOK, FilesInv, present
    <3> QED
      BY <1>1, <1>3, <3>1 DEF Replaced
  <2>5. OneCount' <=> OneCount
    BY <1>1 DEF OneCount
  <2> QED
    BY <1>1, <2>1, <2>2, <2>3, <2>4, <2>5, Zenon
<1>5. TypeOK'
  BY <1>3 DEF ReadersInv, TypeOK, Places, Install, Goto, object
<1>6. FilesInv'
  <2>1. ASSUME NEW i \in 1 .. Len(files')
        PROVE  /\ files'[i].clean => files'[i].map = Exact' /\ ~torn'
               /\ i > 1 \/ ~began'.index => files'[i].map = Exact'
    <3>1. CASE i \in 1 .. Len(files)
      BY <1>1, <1>3, <3>1 DEF ReadersInv, FilesInv
    <3>2. CASE i = Len(files) + 1
      BY <1>1, <1>3, <3>2 DEF NewFile
    <3> QED
      BY <1>3, <3>1, <3>2
  <2> QED
    BY <1>1, <1>4, <2>1 DEF ReadersInv, FilesInv
<1>7. ASSUME NEW q \in Readers PROVE ReaderInv(q)'
  <2>1. CASE q = p
    <3>1. pc'[q] = "reload"
      BY <2>1 DEF ReadersInv, TypeOK, Install, Goto
    <3> QED
      BY <1>4, <3>1 DEF ReaderInv, Rebuilt, Trusting, WithFile
  <2>2. CASE q # p
    <3>1. /\ pc'[q] = pc[q] /\ cached'[q] = cached[q]
          /\ handle'[q] = handle[q] /\ buckets'[q] = buckets[q]
      BY <2>2 DEF ReadersInv, TypeOK, Install, Goto, object
    <3>2. ReaderInv(q)
      BY DEF ReadersInv
    <3>3. pc[q] \in WithFile => /\ handle[q] \in 1 .. Len(files)
                                /\ handle[q] \in 1 .. Len(files')
                                /\ files'[handle[q]] = files[handle[q]]
      BY <1>3, <3>2 DEF ReaderInv
    <3> QED
      BY <1>1, <1>4, <3>1, <3>2, <3>3 DEF ReaderInv, WithFile
  <2> QED
    BY <2>1, <2>2
<1>8. ASSUME OneCount' PROVE \E c \in BucketCounts \cup {0} : CountIs(c)'
  <2>1. PICK c \in BucketCounts \cup {0} : CountIs(c)
    BY <1>4, <1>8 DEF ReadersInv
  <2>2. \A q \in Readers : ReaderCounts(q, c)'
    BY <1>1, <2>1 DEF ReadersInv, TypeOK, CountIs, ReaderCounts, WithIndex, Trusting,
         Install, Goto, object
  <2>3. buckets[p] = c
    BY <2>1 DEF CountIs, ReaderCounts, Install
  <2>4. CountIs(c)'
    BY <1>3, <2>1, <2>2, <2>3 DEF CountIs, NewFile
  <2> QED
    BY <2>4
<1> QED
  BY <1>5, <1>6, <1>7, <1>8 DEF ReadersInv

LEMMA ReadersStep == ReadersInv /\ [Next]_vars => ReadersInv'
<1> SUFFICES ASSUME ReadersInv, [Next]_vars PROVE ReadersInv'
  OBVIOUS
<1>1. CASE \E p \in Readers : Step(p)
  BY <1>1, OpenToLoadStep, ReadHeaderStep, TableFitsStep, TableTooLargeStep,
     LoadMissingIndexStep, CheckStep, ScanStep, ResizeStep, BuildStep, InstallStep,
     OpenForWriteStep, WriteCheckpointStep, MarkDirtyStep, CloseStep, MarkCleanStep, KillStep
     DEF Step
<1>2. CASE UNCHANGED vars
  BY <1>2, SameLog DEF vars, disk, object, ReadersInv, TypeOK, FilesInv, ReaderInv, CountIs,
       ReaderCounts, Replaced, OneCount, present, Current
<1> QED
  BY <1>1, <1>2 DEF Next, Terminated

(* The inductive invariant. *)
THEOREM ReadersInvariant == Spec => []ReadersInv
BY ReadersInit, ReadersStep, PTL DEF Spec

(* Whoever has opened the database finds the newest record of every key,   *)
(* as long as all indexes have one number of buckets.                      *)
THEOREM ReadersSeeTheLog == Spec => []ReadyReadersFind
<1>1. ReadersInv => ReadyReadersFind
  <2> SUFFICES ASSUME ReadersInv, NEW p \in Readers, pc[p] = "ready", OneCount
               PROVE  /\ present /\ Current.map = Exact /\ ~torn
                      /\ Current.buckets = cached[p].buckets
    BY DEF ReadyReadersFind
  <2>1. present /\ Current.map = Exact /\ ~torn
    BY DEF ReadersInv, ReaderInv, Trusting
  <2>2. PICK c \in BucketCounts \cup {0} : CountIs(c)
    BY DEF ReadersInv
  <2>3. Current.buckets = c
    BY <2>1, <2>2, Newest DEF CountIs, Current
  <2>4. cached[p].buckets = c
    BY <2>2 DEF CountIs, ReaderCounts, WithIndex, Trusting
  <2> QED
    BY <2>1, <2>3, <2>4
<1> QED
  BY <1>1, ReadersInvariant, PTL

(* The clean flag of a shared index can be believed, whatever -b readers   *)
(* were given.                                                             *)
THEOREM SharedCleanFlag == Spec => []CleanFlagIsTrue
<1>1. ReadersInv => CleanFlagIsTrue
  BY Newest DEF ReadersInv, FilesInv, CleanFlagIsTrue, Current
<1> QED
  BY <1>1, ReadersInvariant, PTL

(* Readers do not make each other's constructors throw, as long as all     *)
(* indexes have one number of buckets.                                     *)
THEOREM ReadersDoNotDisturb == Spec => []OnlyLostIndexThrows
<1>1. ReadersInv => OnlyLostIndexThrows
  BY DEF ReadersInv, ReaderInv, OnlyLostIndexThrows
<1> QED
  BY <1>1, ReadersInvariant, PTL
=============================================================================
