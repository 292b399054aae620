-------------------------- MODULE HashIndexProofs --------------------------
(***************************************************************************)
(* Proofs about HashIndex for every set of keys, every hash function and   *)
(* number of buckets, and every pattern of calls that throw half-way.      *)
(***************************************************************************)
EXTENDS HashIndex, TLAPS, FiniteSetTheorems, WellFoundedInduction

(* Every key has a bucket. *)
LEMMA BucketType == \A k \in Keys : BucketOf(k) \in Buckets
BY HashIndexAssumption DEF BucketOf, Buckets

(* The fields of an entry. *)
LEMMA EntryFields ==
    ASSUME entries \in Seq(Entries)
    PROVE  \A i \in 1 .. Len(entries) :
             /\ entries[i].db_offset \in DbOffsets \cup {0}
             /\ entries[i].next \in Nat
             /\ entries[i].key \in Keys
<1> SUFFICES ASSUME NEW i \in 1 .. Len(entries), entries[i] \in Entries
             PROVE  /\ entries[i].db_offset \in DbOffsets \cup {0}
                    /\ entries[i].next \in Nat
                    /\ entries[i].key \in Keys
  OBVIOUS
<1> QED BY DEF Entries

(* The three ways of changing the entries: a new offset for one entry, ... *)
LEMMA OffsetChange ==
    ASSUME entries \in Seq(Entries), NEW i \in 1 .. Len(entries), NEW o \in DbOffsets \cup {0},
           NEW e, e = [entries EXCEPT ![i] = [entries[i] EXCEPT !.db_offset = o]]
    PROVE  /\ e \in Seq(Entries)
           /\ Len(e) = Len(entries)
           /\ \A j \in 1 .. Len(entries) : e[j].next = entries[j].next /\ e[j].key = entries[j].key
<1>1. [entries[i] EXCEPT !.db_offset = o] \in Entries
  <2>1. entries[i] \in Entries
    OBVIOUS
  <2> QED BY <2>1 DEF Entries
<1>2. e \in Seq(Entries) /\ Len(e) = Len(entries)
  BY <1>1
<1>3. ASSUME NEW j \in 1 .. Len(entries)
      PROVE  e[j].next = entries[j].next /\ e[j].key = entries[j].key
  <2>1. entries[j] \in Entries
    OBVIOUS
  <2> QED BY <2>1 DEF Entries
<1> QED BY <1>2, <1>3

(* ... a new link for one entry, ... *)
LEMMA LinkChange ==
    ASSUME entries \in Seq(Entries), NEW i \in 1 .. Len(entries), NEW n \in Nat,
           NEW e, e = [entries EXCEPT ![i].next = n]
    PROVE  /\ e \in Seq(Entries)
           /\ Len(e) = Len(entries)
           /\ e[i].next = n
           /\ \A j \in 1 .. Len(entries) : e[j].key = entries[j].key
           /\ \A j \in 1 .. Len(entries) : e[j].db_offset = entries[j].db_offset
           /\ \A j \in 1 .. Len(entries) : j # i => e[j].next = entries[j].next
<1>1. [entries[i] EXCEPT !.next = n] \in Entries
  <2>1. entries[i] \in Entries
    OBVIOUS
  <2> QED BY <2>1 DEF Entries
<1>2. e = [entries EXCEPT ![i] = [entries[i] EXCEPT !.next = n]]
  OBVIOUS
<1>3. e \in Seq(Entries) /\ Len(e) = Len(entries)
  BY <1>1, <1>2
<1>4. ASSUME NEW j \in 1 .. Len(entries)
      PROVE  /\ e[j].key = entries[j].key /\ e[j].db_offset = entries[j].db_offset
             /\ j # i => e[j].next = entries[j].next
  <2>1. entries[j] \in Entries
    OBVIOUS
  <2> QED BY <1>2, <2>1 DEF Entries
<1>5. e[i].next = n
  <2>1. entries[i] \in Entries
    OBVIOUS
  <2> QED BY <1>2, <2>1 DEF Entries
<1> QED BY <1>3, <1>4, <1>5

(* ... and one more entry at the end of the file. *)
LEMMA EntryAppend ==
    ASSUME entries \in Seq(Entries), NEW o \in DbOffsets, NEW n \in Nat, NEW k \in Keys,
           NEW e, e = Append(entries, [db_offset |-> o, next |-> n, key |-> k])
    PROVE  /\ e \in Seq(Entries)
           /\ Len(e) = Len(entries) + 1
           /\ e[Len(entries) + 1].next = n
           /\ e[Len(entries) + 1].key = k
           /\ \A j \in 1 .. Len(entries) : e[j] = entries[j]
<1>1. [db_offset |-> o, next |-> n, key |-> k] \in Entries
  BY DEF Entries
<1> QED BY <1>1

(* The type invariant and the shape of the chains hold initially ... *)
LEMMA ChainInit == Init => ChainInv
BY DEF Init, ChainInv, TypeOK, EntryNumbers, ChainsDescend, ChainsStayInBucket, WalkInStep

(* ... and every step of every call keeps them. *)
LEMMA ChainStep == ChainInv /\ [Next]_vars => ChainInv'
<1> SUFFICES ASSUME ChainInv, [Next]_vars PROVE ChainInv'
  OBVIOUS
<1> USE BucketType, EntryFields DEF ChainInv, TypeOK, EntryNumbers, Calls, ChainsDescend, ChainsStayInBucket,
        WalkInStep, Found, Ended, file, locals
<1>1. ASSUME NEW c \in Calls, Begin(c) PROVE ChainInv'
  BY <1>1 DEF Begin
<1>2. ASSUME NEW k \in Keys, SetRejected(k) PROVE ChainInv'
  BY <1>2 DEF SetRejected
<1>3. CASE WalkOn
  <2>1. cur \in 1 .. Len(entries)
    BY <1>3 DEF WalkOn
  <2>2. entries[cur].next \in 0 .. Len(entries) /\ op.key \in Keys
    BY <1>3, <2>1 DEF WalkOn
  <2> QED BY <1>3, <2>1, <2>2 DEF WalkOn
<1>4. CASE FindFound
  <2>1. cur \in 1 .. Len(entries)
    BY <1>4 DEF FindFound
  <2>2. entries[cur].db_offset \in DbOffsets \cup {0}
    BY <2>1
  <2> QED BY <1>4, <2>2 DEF FindFound
<1>5. CASE FindAbsent
  BY <1>5 DEF FindAbsent
<1>6. CASE SetReplace
  <2> DEFINE o == op.offset
  <2>1. /\ entries \in Seq(Entries) /\ cur \in 1 .. Len(entries)
        /\ o \in DbOffsets \cup {0}
        /\ entries' = [entries EXCEPT ![cur] = [entries[cur] EXCEPT !.db_offset = o]]
    BY <1>6 DEF SetReplace
  <2> HIDE DEF o
  <2>2. /\ entries' \in Seq(Entries)
        /\ Len(entries') = Len(entries)
        /\ \A j \in 1 .. Len(entries) : entries'[j].next = entries[j].next
                                       /\ entries'[j].key = entries[j].key
    BY ONLY <2>1, OffsetChange, Z3T(20)
  <2> QED BY <1>6, <2>2 DEF SetReplace
<1>7. CASE SetAppend
  <2>1. /\ entries \in Seq(Entries) /\ op.offset \in DbOffsets /\ op.key \in Keys /\ chain \in Nat
        /\ entries' = Append(entries, [db_offset |-> op.offset, next |-> chain, key |-> op.key])
    BY <1>7 DEF SetAppend, NewEntry, EndOfFile
  <2>2. /\ entries' \in Seq(Entries)
        /\ Len(entries') = Len(entries) + 1
        /\ entries'[Len(entries) + 1].next = chain
        /\ entries'[Len(entries) + 1].key = op.key
        /\ \A j \in 1 .. Len(entries) : entries'[j] = entries[j]
    BY ONLY <2>1, EntryAppend
  <2> QED BY <1>7, <2>1, <2>2 DEF SetAppend, NewEntry, EndOfFile
<1>8. CASE SetLink
  BY <1>8 DEF SetLink
<1>9. CASE EraseAbsent
  BY <1>9 DEF EraseAbsent
<1>10. CASE EraseZero
  <2>1. /\ entries \in Seq(Entries) /\ cur \in 1 .. Len(entries)
        /\ 0 \in DbOffsets \cup {0}
        /\ entries' = [entries EXCEPT ![cur] = [entries[cur] EXCEPT !.db_offset = 0]]
    BY <1>10 DEF EraseZero
  <2>2. /\ entries' \in Seq(Entries)
        /\ Len(entries') = Len(entries)
        /\ \A j \in 1 .. Len(entries) : entries'[j].next = entries[j].next
                                       /\ entries'[j].key = entries[j].key
    BY ONLY <2>1, OffsetChange
  <2> QED BY <1>10, <2>1, <2>2 DEF EraseZero
<1>11. CASE EraseUnlink
  <2>1. cur \in 1 .. Len(entries) /\ op.key \in Keys
    BY <1>11 DEF EraseUnlink
  <2>2. entries[cur].next \in 0 .. (cur - 1)
    BY <2>1
  <2>3. CASE prev # 0
    <3>1. prev \in 1 .. Len(entries) /\ cur < prev
      BY <1>11, <2>3 DEF EraseUnlink
    <3>2. /\ entries' \in Seq(Entries)
          /\ Len(entries') = Len(entries)
          /\ entries'[prev].next = entries[cur].next
          /\ \A j \in 1 .. Len(entries) : entries'[j].key = entries[j].key
          /\ \A j \in 1 .. Len(entries) : j # prev => entries'[j].next = entries[j].next
      BY <1>11, <2>2, <2>3, <3>1, LinkChange DEF EraseUnlink
    <3>3. entries[cur].next # 0 =>
            BucketOf(entries[entries[cur].next].key) = BucketOf(entries[prev].key)
      BY <1>11, <2>1, <2>2, <2>3 DEF EraseUnlink
    <3>4. ChainsDescend'
      BY <2>2, <3>1, <3>2
    <3>5. heads' = heads
      BY <1>11, <2>3 DEF EraseUnlink
    <3>6. \A b \in Buckets : heads'[b] # 0 => BucketOf(entries'[heads'[b]].key) = b
      <4> SUFFICES ASSUME NEW b \in Buckets, heads[b] # 0
                   PROVE  BucketOf(entries'[heads[b]].key) = b
        BY <3>5
      <4>1. heads[b] \in 1 .. Len(entries)
        OBVIOUS
      <4>2. entries'[heads[b]].key = entries[heads[b]].key
        BY ONLY <3>2, <4>1
      <4> QED BY <4>2
    <3>7. ASSUME NEW i \in 1 .. Len(entries'), entries'[i].next # 0
          PROVE  BucketOf(entries'[entries'[i].next].key) = BucketOf(entries'[i].key)
      <4>1. i \in 1 .. Len(entries)
        BY <3>2
      <4>2. CASE i = prev
        <5>1. entries[cur].next \in 1 .. Len(entries)
          BY <2>1, <2>2, <3>2, <3>7, <4>2
        <5> QED BY <3>2, <3>3, <4>1, <4>2, <5>1
      <4>3. CASE i # prev
        <5>1. entries'[i].next = entries[i].next /\ entries[i].next \in 1 .. Len(entries)
          BY <3>2, <3>7, <4>1, <4>3
        <5> QED BY <3>2, <3>7, <4>1, <5>1
      <4> QED BY <4>2, <4>3
    <3> QED BY <1>11, <2>1, <2>3, <3>2, <3>4, <3>6, <3>7 DEF EraseUnlink
  <2>4. CASE prev = 0
    <3>1. heads' = [heads EXCEPT ![BucketOf(op.key)] = entries[cur].next] /\ entries' = entries
      BY <1>11, <2>4 DEF EraseUnlink
    <3>2. entries[cur].next # 0 => BucketOf(entries[entries[cur].next].key) = BucketOf(op.key)
      BY <1>11, <2>1, <2>2 DEF EraseUnlink
    <3>3. heads' \in [Buckets -> 0 .. Len(entries)]
      BY <2>1, <2>2, <3>1
    <3>4. ChainsDescend' /\ ChainsStayInBucket'
      BY <2>1, <2>2, <3>1, <3>2
    <3> QED BY <1>11, <3>1, <3>3, <3>4 DEF EraseUnlink
  <2> QED BY <2>3, <2>4
<1>12. CASE Throw
  BY <1>12 DEF Throw
<1>13. CASE ThrowInAppend
  <2>1. /\ entries \in Seq(Entries) /\ op.offset \in DbOffsets /\ op.key \in Keys /\ chain \in Nat
        /\ entries' = Append(entries, [db_offset |-> op.offset, next |-> chain, key |-> op.key])
    BY <1>13 DEF ThrowInAppend, NewEntry
  <2>2. /\ entries' \in Seq(Entries)
        /\ Len(entries') = Len(entries) + 1
        /\ entries'[Len(entries) + 1].next = chain
        /\ entries'[Len(entries) + 1].key = op.key
        /\ \A j \in 1 .. Len(entries) : entries'[j] = entries[j]
    BY ONLY <2>1, EntryAppend
  <2> QED BY <1>13, <2>1, <2>2 DEF ThrowInAppend, NewEntry
<1>14. CASE UNCHANGED vars
  BY <1>14 DEF vars
<1> QED
  BY <1>1, <1>2, <1>3, <1>4, <1>5, <1>6, <1>7, <1>8, <1>9, <1>10, <1>11, <1>12, <1>13, <1>14
     DEF Next, Step

(* The inductive invariant: the shape of the chains together with what a   *)
(* running call knows about the entries it holds while it relinks them.    *)
THEOREM ChainsInvariant == Spec => []ChainInv
<1> QED BY ChainInit, ChainStep, PTL DEF Spec

(* A link always leads to an older entry, so that no chain has a cycle,    *)
(* whichever calls threw half-way.                                         *)
THEOREM ChainsAlwaysDescend == Spec => []ChainsDescend
<1>1. ChainInv => ChainsDescend
  BY DEF ChainInv
<1> QED BY <1>1, ChainInit, ChainStep, PTL DEF Spec

(* Every chain stays within its bucket, so that a walk that starts at the  *)
(* key's bucket meets only keys of that bucket.                            *)
THEOREM ChainsNeverCross == Spec => []ChainsStayInBucket
<1>1. ChainInv => ChainsStayInBucket
  BY DEF ChainInv
<1> QED BY <1>1, ChainInit, ChainStep, PTL DEF Spec

(* Every offset in the file is null or that of an entry in the file. *)
THEOREM IndexTypeCorrect == Spec => []TypeOK
<1>1. ChainInv => TypeOK
  BY DEF ChainInv
<1> QED BY <1>1, ChainInit, ChainStep, PTL DEF Spec

-----------------------------------------------------------------------------
(* What following a chain meets: least and greatest elements stand in for *)
(* induction over the length of the file.                                  *)

(* A non-empty set of naturals has a least element ... *)
LEMMA LeastElement ==
    ASSUME NEW T, T \subseteq Nat, T # {}
    PROVE  \E x \in T : \A y \in T : x <= y
<1>1. PICK x \in T : \A y \in T : <<y, x>> \notin OpToRel(<, Nat)
  BY WFMin, NatLessThanWellFounded, Zenon
<1>2. \A y \in T : ~(y < x)
  BY <1>1, Zenon DEF OpToRel
<1> QED
  BY <1>2

(* ... and one with a bound a greatest. *)
LEMMA GreatestElement ==
    ASSUME NEW n \in Nat, NEW T, T \subseteq 0 .. n, T # {}
    PROVE  \E x \in T : \A y \in T : y <= x
<1> DEFINE U == {m \in Nat : n - m \in T}
<1>1. U # {}
  <2>1. PICK t \in T : TRUE
    OBVIOUS
  <2>2. n - t \in Nat /\ n - (n - t) = t
    BY <2>1
  <2> QED
    BY <2>2
<1>2. PICK u \in U : \A y \in U : u <= y
  BY <1>1, LeastElement
<1>3. ASSUME NEW y \in T PROVE y <= n - u
  <2>1. n - y \in Nat /\ n - (n - y) = y /\ y \in Int
    OBVIOUS
  <2>2. n - y \in U
    BY <2>1
  <2> QED
    BY <1>2, <2>1, <2>2
<1> QED
  BY <1>2, <1>3

(* The recursion of Follow, up to any length: a function that satisfies it. *)
LEMMA FollowExists ==
    ASSUME NEW b, NEW N \in Nat
    PROVE  \E f : f = [n \in 0 .. N |-> IF n = 0 THEN heads[b] ELSE next_entry(f[n - 1])]
<1> DEFINE F(f, m) == f = [n \in 0 .. m |-> IF n = 0 THEN heads[b] ELSE next_entry(f[n - 1])]
           T == {m \in Nat : ~ \E f : F(f, m)}
<1>1. ASSUME T # {} PROVE FALSE
  <2>1. PICK m \in T : \A y \in T : m <= y
    BY <1>1, LeastElement
  <2>2. m # 0
    <3>1. F([n \in 0 .. 0 |-> heads[b]], 0)
      OBVIOUS
    <3> QED
      BY <3>1
  <2>3. PICK f : F(f, m - 1)
    <3>1. m - 1 \in Nat /\ ~(m <= m - 1)
      BY <2>1, <2>2
    <3>2. m - 1 \notin T
      <4> HIDE DEF T
      <4> QED
        BY <2>1, <3>1, Zenon
    <3> QED
      BY <3>1, <3>2
  <2> DEFINE g == [n \in 0 .. m |-> IF n = m THEN next_entry(f[m - 1]) ELSE f[n]]
  <2>4. ASSUME NEW n \in 0 .. m
        PROVE  g[n] = IF n = 0 THEN heads[b] ELSE next_entry(g[n - 1])
    <3>1. CASE n = m
      <4>1. m - 1 \in 0 .. m /\ m - 1 # m
        BY <2>1, <2>2
      <4> QED
        BY <2>2, <3>1, <4>1
    <3>2. CASE n # m
      <4>1. n \in 0 .. (m - 1) /\ f[n] = IF n = 0 THEN heads[b] ELSE next_entry(f[n - 1])
        BY <2>3, <3>2
      <4>2. n # 0 => n - 1 \in 0 .. m /\ n - 1 # m
        BY <2>1
      <4> QED
        BY <3>2, <4>1, <4>2
    <3> QED
      BY <3>1, <3>2
  <2>5. F(g, m)
    BY <2>4
  <2> QED
    BY <2>1, <2>5
<1> QED
  BY <1>1

(* So Follow is what its recursion says: the n-th entry met. *)
LEMMA FollowSteps ==
    ASSUME NEW b, Len(entries) \in Nat
    PROVE  /\ Follow(b)[0] = heads[b]
           /\ \A n \in 1 .. Len(entries) : Follow(b)[n] = next_entry(Follow(b)[n - 1])
<1>1. Follow(b) = [n \in 0 .. Len(entries) |-> IF n = 0 THEN heads[b] ELSE next_entry(Follow(b)[n - 1])]
  BY FollowExists DEF Follow
<1> HIDE DEF Follow
<1> QED
  BY <1>1

(* S holds the entries of the chain from h on: it starts at h, follows the *)
(* links, and between an entry and its link nothing else belongs to it.    *)
IsChain(S, h, e) ==
    /\ S \subseteq 1 .. Len(e)
    /\ h = 0 => S = {}
    /\ h # 0 => h \in S
    /\ \A i \in S : i <= h
    /\ \A i \in S : e[i].next # 0 => e[i].next \in S
    /\ \A i, j \in S : j < i => j <= e[i].next

(* Every link leads to an older entry, or nowhere. *)
Descends(e) == \A i \in 1 .. Len(e) : e[i].next \in 0 .. (i - 1)

(* Following a chain, every entry met is older than the one before, so that *)
(* the end is reached within the length of the file.                       *)
LEMMA FollowDescends ==
    ASSUME NEW b, Len(entries) \in Nat, heads[b] \in 0 .. Len(entries), Descends(entries)
    PROVE  /\ \A n \in 0 .. Len(entries) : Follow(b)[n] \in 0 .. (Len(entries) - n)
           /\ \A n \in 0 .. Len(entries) : Follow(b)[n] # 0 =>
                /\ n < Len(entries)
                /\ Follow(b)[n + 1] = entries[Follow(b)[n]].next
                /\ Follow(b)[n + 1] < Follow(b)[n]
           /\ \A n \in 0 .. Len(entries) : \A m \in n .. Len(entries) : Follow(b)[m] <= Follow(b)[n]
<1> DEFINE N == Len(entries)
           at == Follow(b)
<1>1. /\ at[0] = heads[b]
      /\ \A n \in 1 .. N : at[n] = next_entry(at[n - 1])
  BY FollowSteps
<1> HIDE DEF at
<1>3. \A n \in 0 .. N : at[n] \in 0 .. (N - n)
  <2> DEFINE T == {n \in 0 .. N : at[n] \notin 0 .. (N - n)}
  <2>1. ASSUME T # {} PROVE FALSE
    <3>0. T \subseteq Nat
      OBVIOUS
    <3>1. PICK n \in T : \A y \in T : n <= y
      BY <2>1, <3>0, LeastElement
    <3>2. n # 0
      BY <1>1
    <3>3. n - 1 \in 0 .. N /\ at[n - 1] \in 0 .. (N - (n - 1)) /\ at[n] = next_entry(at[n - 1])
      BY <1>1, <3>1, <3>2
    <3>4. CASE at[n - 1] = 0
      BY <3>1, <3>3, <3>4 DEF next_entry
    <3>5. CASE at[n - 1] # 0
      <4> DEFINE i == at[n - 1]
      <4>1. i \in 1 .. N /\ i <= N - (n - 1)
        BY <3>3, <3>5
      <4>2. entries[i].next \in 0 .. (i - 1)
        BY <4>1 DEF Descends
      <4>3. at[n] = entries[i].next
        BY <3>3, <3>5 DEF next_entry
      <4> HIDE DEF i
      <4>4. entries[i].next \in 0 .. (N - n)
        BY <3>1, <4>1, <4>2
      <4> QED
        BY <3>1, <4>3, <4>4
    <3> QED
      BY <3>4, <3>5
  <2> QED
    BY <2>1
<1>4. \A n \in 0 .. N : at[n] # 0 =>
        n < N /\ at[n + 1] = entries[at[n]].next /\ at[n + 1] < at[n]
  <2> SUFFICES ASSUME NEW n \in 0 .. N, at[n] # 0
               PROVE  n < N /\ at[n + 1] = entries[at[n]].next /\ at[n + 1] < at[n]
    OBVIOUS
  <2>1. at[n] \in 0 .. (N - n)
    BY <1>3
  <2>2. n < N /\ at[n] \in 1 .. N
    BY <2>1
  <2>3. n + 1 \in 1 .. N /\ (n + 1) - 1 = n
    BY <2>2
  <2>4. at[n + 1] = next_entry(at[n])
    BY <1>1, <2>3
  <2>5. at[n + 1] = entries[at[n]].next
    BY <2>4 DEF next_entry
  <2>6. entries[at[n]].next < at[n]
    BY <2>2 DEF Descends
  <2> QED
    BY <2>2, <2>5, <2>6
<1>5. \A n \in 0 .. N : \A m \in n .. N : at[m] <= at[n]
  <2> SUFFICES ASSUME NEW n \in 0 .. N PROVE \A m \in n .. N : at[m] <= at[n]
    OBVIOUS
  <2> DEFINE T == {m \in n .. N : ~(at[m] <= at[n])}
  <2>1. ASSUME T # {} PROVE FALSE
    <3>0. T \subseteq Nat
      OBVIOUS
    <3>1. PICK m \in T : \A y \in T : m <= y
      BY <2>1, <3>0, LeastElement
    <3>2. at[n] \in Int
      BY <1>3
    <3>3. m # n
      BY <3>1, <3>2
    <3>4. m - 1 \in n .. N /\ m - 1 \notin T /\ m - 1 \in 0 .. N /\ (m - 1) + 1 = m /\ m \in 1 .. N
      BY <3>1, <3>3
    <3>5. at[m - 1] <= at[n] /\ at[m] = next_entry(at[m - 1])
      BY <1>1, <3>4
    <3>6. at[m] \in Int /\ at[m - 1] \in Int /\ at[m] <= at[m - 1]
      <4>1. at[m] \in 0 .. (N - m) /\ at[m - 1] \in 0 .. (N - (m - 1))
        BY <1>3, <3>4
      <4>2. CASE at[m - 1] = 0
        BY <3>5, <4>1, <4>2 DEF next_entry
      <4>3. CASE at[m - 1] # 0
        <5>1. at[(m - 1) + 1] < at[m - 1]
          BY <1>4, <3>4, <4>3
        <5> QED
          BY <3>4, <4>1, <5>1
      <4> QED
        BY <4>2, <4>3
    <3> QED
      BY <3>1, <3>2, <3>5, <3>6
  <2> QED
    BY <2>1
<1> QED
  BY <1>3, <1>4, <1>5 DEF at

(* What a chain holds is what following it from the bucket meets. *)
LEMMA LinkedIsChain ==
    ASSUME NEW b, Len(entries) \in Nat, heads[b] \in 0 .. Len(entries), Descends(entries)
    PROVE  IsChain(Linked(b), heads[b], entries)
<1> DEFINE N == Len(entries)
           at == Follow(b)
<1>1. /\ at[0] = heads[b]
      /\ \A n \in 1 .. N : at[n] = next_entry(at[n - 1])
  BY FollowSteps
<1>2. Linked(b) = {at[n] : n \in 0 .. N} \ {0}
  BY DEF Linked
<1> HIDE DEF at
<1>3. \A n \in 0 .. N : at[n] \in 0 .. (N - n)
  BY FollowDescends DEF at
<1>4. \A n \in 0 .. N : at[n] # 0 =>
        n < N /\ at[n + 1] = entries[at[n]].next /\ at[n + 1] < at[n]
  BY FollowDescends DEF at
<1>5. \A n \in 0 .. N : \A m \in n .. N : at[m] <= at[n]
  BY FollowDescends DEF at
<1>6. Linked(b) \subseteq 1 .. N
  BY <1>2, <1>3
<1>7. heads[b] # 0 => heads[b] \in Linked(b)
  BY <1>1, <1>2
<1>8. \A i \in Linked(b) : i <= heads[b]
  BY <1>1, <1>2, <1>5
<1>9. heads[b] = 0 => Linked(b) = {}
  <2> SUFFICES ASSUME heads[b] = 0, NEW i \in Linked(b) PROVE FALSE
    OBVIOUS
  <2> QED
    BY <1>6, <1>8
<1>10. ASSUME NEW i \in Linked(b), entries[i].next # 0 PROVE entries[i].next \in Linked(b)
  <2>1. PICK n \in 0 .. N : i = at[n] /\ at[n] # 0
    BY <1>2, <1>10
  <2>2. n < N /\ at[n + 1] = entries[i].next
    BY <1>4, <2>1
  <2>3. n + 1 \in 0 .. N
    BY <2>2
  <2> QED
    BY <1>2, <1>10, <2>2, <2>3
<1>11. ASSUME NEW i \in Linked(b), NEW j \in Linked(b), j < i PROVE j <= entries[i].next
  <2>1. PICK n \in 0 .. N : i = at[n] /\ at[n] # 0
    BY <1>2
  <2>2. PICK m \in 0 .. N : j = at[m]
    BY <1>2
  <2>3. n < N /\ at[n + 1] = entries[i].next
    BY <1>4, <2>1
  <2>4. i \in Nat /\ j \in Nat
    BY <1>6
  <2>5. n < m
    <3> SUFFICES ASSUME ~(n < m) PROVE FALSE
      OBVIOUS
    <3>1. n \in m .. N
      OBVIOUS
    <3>2. at[n] <= at[m]
      BY <1>5, <3>1
    <3> QED
      BY <1>11, <2>1, <2>2, <2>4, <3>2
  <2>6. n + 1 \in 0 .. N /\ m \in (n + 1) .. N
    BY <2>3, <2>5
  <2> QED
    BY <1>5, <2>2, <2>3, <2>6
<1> QED
  BY <1>6, <1>7, <1>8, <1>9, <1>10, <1>11 DEF IsChain

(* Every entry of a chain but the first is the link of another. *)
LEMMA Predecessor ==
    ASSUME NEW e, Len(e) \in Nat, NEW S, NEW h, IsChain(S, h, e), Descends(e), NEW i \in S, i # h
    PROVE  \E j \in S : i < j /\ e[j].next = i
<1> DEFINE T == {j \in S : i < j}
<1>1. h # 0 /\ h \in S /\ i \in 1 .. Len(e) /\ S \subseteq Nat /\ h \in 1 .. Len(e) /\ i <= h
  <2>1. S \subseteq 1 .. Len(e)
    BY DEF IsChain
  <2>2. h # 0 /\ h \in S /\ i <= h
    BY DEF IsChain
  <2> QED
    BY <2>1, <2>2
<1>2. h \in T
  BY <1>1
<1>3. T \subseteq Nat /\ T # {}
  BY <1>1, <1>2
<1> HIDE DEF T
<1>4. PICK j \in T : \A y \in T : j <= y
  BY <1>3, LeastElement
<1> USE DEF T
<1>5. j \in S /\ j \in 1 .. Len(e) /\ i < j
  BY <1>4 DEF IsChain
<1>6. e[j].next \in 0 .. (j - 1) /\ i <= e[j].next
  BY <1>5 DEF IsChain, Descends
<1>7. e[j].next \in S
  BY <1>1, <1>5, <1>6 DEF IsChain
<1>8. e[j].next = i
  <2> SUFFICES ASSUME e[j].next # i PROVE FALSE
    OBVIOUS
  <2>1. e[j].next \in T
    BY <1>1, <1>6, <1>7
  <2>2. j <= e[j].next
    BY <1>4, <2>1
  <2> QED
    BY <1>5, <1>6, <2>2
<1> QED
  BY <1>5, <1>8

(* One half of: there is only one chain. *)
LEMMA ChainWithin ==
    ASSUME NEW e, Len(e) \in Nat, Descends(e), NEW h, NEW S, NEW T, IsChain(S, h, e), IsChain(T, h, e)
    PROVE  S \subseteq T
<1>0. ASSUME NEW i \in S, i # h PROVE \E j \in S : i < j /\ e[j].next = i
  BY <1>0, Predecessor
<1> DEFINE D == {i \in S : i \notin T}
<1>1. ASSUME D # {} PROVE FALSE
  <2>1. D \subseteq 0 .. Len(e)
    <3>1. S \subseteq 1 .. Len(e)
      BY DEF IsChain
    <3> DEFINE n == Len(e)
    <3>2. n \in Nat /\ S \subseteq 1 .. n
      BY <3>1
    <3> HIDE DEF n
    <3>3. ASSUME NEW i \in D PROVE i \in 0 .. n
      <4>1. i \in S
        OBVIOUS
      <4>2. i \in 1 .. n
        BY <3>2, <4>1
      <4> QED
        BY <3>2, <4>2
    <3> QED
      BY <3>3 DEF n
  <2> HIDE DEF D
  <2>2. PICK i \in D : \A y \in D : y <= i
    BY <1>1, <2>1, GreatestElement
  <2> USE DEF D
  <2>3. i # h /\ i \in 1 .. Len(e)
    BY <2>2 DEF IsChain
  <2>4. PICK j \in S : i < j /\ e[j].next = i
    <3>1. i \in S
      BY <2>2
    <3> QED
      BY <1>0, <2>3, <3>1
  <2>5. j \in 1 .. Len(e)
    BY DEF IsChain
  <2>6. j \in T
    BY <2>2, <2>3, <2>4, <2>5
  <2>7. e[j].next \in T
    BY <2>3, <2>4, <2>6 DEF IsChain
  <2> QED
    BY <2>2, <2>4, <2>7
<1> QED
  BY <1>1

(* So a chain is determined by its properties. *)
LEMMA ChainIsUnique ==
    ASSUME NEW e, Len(e) \in Nat, Descends(e), NEW h, NEW S, NEW T, IsChain(S, h, e), IsChain(T, h, e)
    PROVE  S = T
BY ChainWithin

(* Every bucket's entries form a chain from its head. *)
AllLinked ==
    /\ Len(entries) \in Nat /\ Descends(entries)
    /\ \A b \in Buckets : IsChain(Linked(b), heads[b], entries)

(* The shape of the file makes them so. *)
LEMMA LinkedChains == ChainInv => AllLinked
<1> SUFFICES ASSUME ChainInv PROVE AllLinked
  OBVIOUS
<1>1. entries \in Seq(Entries) /\ Len(entries) \in Nat
  BY DEF ChainInv, TypeOK
<1>2. Descends(entries)
  BY <1>1, EntryFields DEF ChainInv, ChainsDescend, Descends
<1>3. ASSUME NEW b \in Buckets PROVE IsChain(Linked(b), heads[b], entries)
  <2>1. heads[b] \in 0 .. Len(entries)
    BY DEF ChainInv, TypeOK, EntryNumbers
  <2> QED
    BY <1>1, <1>2, <2>1, LinkedIsChain
<1> QED
  BY <1>1, <1>2, <1>3 DEF AllLinked

(* What a step of the file has to show about a set for it to be the chain  *)
(* of a bucket afterwards.                                                 *)
LEMMA LinkedAfter ==
    ASSUME ChainInv', NEW b \in Buckets, NEW S, IsChain(S, heads'[b], entries')
    PROVE  Linked(b)' = S
<1>1. (ChainInv => AllLinked)'
  BY ONLY LinkedChains, PTL
<1>2. IsChain(Linked(b)', heads'[b], entries')
  BY <1>1 DEF IsChain, AllLinked
<1>3. Len(entries') \in Nat /\ Descends(entries')
  BY <1>1 DEF AllLinked, Descends
<1> QED
  BY <1>2, <1>3, ChainIsUnique

-----------------------------------------------------------------------------
(* How the steps of the calls change the chains.                           *)

(* The four ways in which the file changes: links that stay, ... *)
LEMMA ChainKept ==
    ASSUME NEW S, NEW h, NEW e, NEW f, IsChain(S, h, e),
           Len(e) \in Nat, Len(f) \in Nat, Len(e) <= Len(f),
           \A j \in 1 .. Len(e) : f[j].next = e[j].next
    PROVE  IsChain(S, h, f)
<1>1. ASSUME NEW i \in S PROVE i \in 1 .. Len(e) /\ i \in 1 .. Len(f) /\ f[i].next = e[i].next
  <2>1. i \in 1 .. Len(e)
    BY DEF IsChain
  <2> QED
    BY <2>1
<1> QED
  BY <1>1 DEF IsChain

(* ... an entry put in front, ... *)
LEMMA ChainPush ==
    ASSUME NEW S, NEW h, NEW e, IsChain(S, h, e), Len(e) \in Nat, Descends(e),
           NEW c \in 1 .. Len(e), e[c].next = h
    PROVE  IsChain(S \cup {c}, c, e)
<1>1. h \in 0 .. (c - 1)
  BY DEF Descends
<1>2. ASSUME NEW i \in S PROVE i \in 1 .. Len(e) /\ i <= h /\ i < c
  <2>1. i \in 1 .. Len(e) /\ i <= h
    BY DEF IsChain
  <2> QED
    BY <1>1, <2>1
<1>3. S \cup {c} \subseteq 1 .. Len(e) /\ \A i \in S \cup {c} : i <= c
  BY <1>2
<1>4. ASSUME NEW i \in S \cup {c}, e[i].next # 0 PROVE e[i].next \in S \cup {c}
  BY <1>4 DEF IsChain
<1>5. ASSUME NEW i \in S \cup {c}, NEW j \in S \cup {c}, j < i PROVE j <= e[i].next
  <2>1. CASE i = c
    <3>1. j \in S
      BY <1>5, <2>1
    <3> QED
      BY <1>2, <2>1, <3>1
  <2>2. CASE i \in S
    <3>1. j # c
      BY <1>1, <1>2, <1>5, <2>2
    <3> QED
      BY <1>5, <2>2, <3>1 DEF IsChain
  <2> QED
    BY <2>1, <2>2
<1> QED
  BY <1>3, <1>4, <1>5 DEF IsChain

(* ... the first entry taken out, ... *)
LEMMA ChainPop ==
    ASSUME NEW S, NEW h, NEW e, IsChain(S, h, e), Len(e) \in Nat, Descends(e), h # 0
    PROVE  IsChain(S \ {h}, e[h].next, e)
<1>1. h \in S /\ h \in 1 .. Len(e)
  BY DEF IsChain
<1>2. e[h].next \in 0 .. (h - 1)
  BY <1>1 DEF Descends
<1>3. ASSUME NEW i \in S \ {h} PROVE i \in 1 .. Len(e) /\ i < h /\ i <= e[h].next
  <2>1. i \in 1 .. Len(e) /\ i <= h
    BY DEF IsChain
  <2>2. i < h
    BY <1>1, <2>1
  <2> QED
    BY <1>1, <2>1, <2>2 DEF IsChain
<1>4. e[h].next = 0 => S \ {h} = {}
  BY <1>3
<1>5. e[h].next # 0 => e[h].next \in S \ {h}
  BY <1>1, <1>2 DEF IsChain
<1>6. ASSUME NEW i \in S \ {h}, e[i].next # 0 PROVE e[i].next \in S \ {h}
  <2>1. e[i].next \in S
    BY <1>6 DEF IsChain
  <2>2. e[i].next \in 0 .. (i - 1) /\ i < h /\ i \in Nat /\ h \in Nat
    BY <1>1, <1>3 DEF Descends
  <2> QED
    BY <2>1, <2>2
<1>7. \A i, j \in S \ {h} : j < i => j <= e[i].next
  BY DEF IsChain
<1> QED
  BY <1>3, <1>4, <1>5, <1>6, <1>7 DEF IsChain

(* ... and another one bypassed by its predecessor. *)
LEMMA ChainBypass ==
    ASSUME NEW S, NEW h, NEW e, NEW f, IsChain(S, h, e), Len(e) \in Nat, Len(f) = Len(e), Descends(e),
           NEW p \in S, NEW c, c = e[p].next, c # 0, f[p].next = e[c].next,
           \A j \in 1 .. Len(e) : j # p => f[j].next = e[j].next
    PROVE  IsChain(S \ {c}, h, f)
<1>1. c \in S
  BY DEF IsChain
<1>2. ASSUME NEW i \in S PROVE i \in 1 .. Len(e) /\ i <= h /\ e[i].next \in 0 .. (i - 1)
  <2>1. i \in 1 .. Len(e) /\ i <= h
    BY DEF IsChain
  <2> QED
    BY <2>1 DEF Descends
<1>3. c < p /\ c \in Nat /\ p \in Nat /\ p \in 1 .. Len(e)
  BY <1>1, <1>2
<1>4. h # 0 /\ h \in S
  BY DEF IsChain
<1>5. h \in S \ {c}
  <2>1. p <= h /\ h \in Nat
    BY <1>2, <1>4
  <2> QED
    BY <1>3, <1>4, <2>1
<1>6. ASSUME NEW i \in S, i # p PROVE f[i].next = e[i].next /\ e[i].next # c
  <2>1. f[i].next = e[i].next
    BY <1>2, <1>6
  <2>2. CASE i < p
    <3>1. i <= e[p].next
      BY <2>2 DEF IsChain
    <3>2. i <= c
      BY <3>1
    <3>3. i \in Nat /\ e[i].next < i
      BY <1>2
    <3>4. e[i].next \in Nat
      BY <1>2
    <3> QED
      BY <1>3, <2>1, <3>2, <3>3, <3>4
  <2>3. CASE p < i
    <3>1. p <= e[i].next
      BY <2>3 DEF IsChain
    <3> QED
      BY <1>2, <1>3, <2>1, <3>1
  <2> QED
    BY <1>2, <1>3, <1>6, <2>2, <2>3
<1>7. ASSUME NEW i \in S \ {c}, f[i].next # 0 PROVE f[i].next \in S \ {c}
  <2>1. CASE i = p
    <3>1. e[c].next # 0 /\ f[i].next = e[c].next
      BY <1>7, <2>1
    <3>2. e[c].next \in S /\ e[c].next < c
      BY <1>1, <1>2, <1>3, <3>1 DEF IsChain
    <3> QED
      BY <1>3, <3>1, <3>2
  <2>2. CASE i # p
    <3>1. f[i].next = e[i].next /\ e[i].next # c
      BY <1>6, <2>2
    <3> QED
      BY <1>7, <3>1 DEF IsChain
  <2> QED
    BY <2>1, <2>2
<1>8. ASSUME NEW i \in S \ {c}, NEW j \in S \ {c}, j < i PROVE j <= f[i].next
  <2>1. CASE i = p
    <3>1. j <= c
      BY <1>8, <2>1 DEF IsChain
    <3>2. j < c
      BY <1>2, <1>3, <3>1
    <3>3. j <= e[c].next
      BY <1>1, <3>2 DEF IsChain
    <3> QED
      BY <2>1, <3>3
  <2>2. CASE i # p
    <3>1. f[i].next = e[i].next
      BY <1>6, <2>2
    <3> QED
      BY <1>8, <3>1 DEF IsChain
  <2> QED
    BY <2>1, <2>2
<1>9. S \ {c} \subseteq 1 .. Len(f) /\ \A i \in S \ {c} : i <= h
  BY <1>2
<1> QED
  BY <1>4, <1>5, <1>7, <1>8, <1>9 DEF IsChain

(* The strengthening of KeysAreLinkedOnce that is inductive: a walk is at  *)
(* an entry of the key's chain with its predecessor, has the key in no     *)
(* entry it passed, so that one who reaches the end knows that the key is  *)
(* absent; the appended entry is not linked yet and points at the head;    *)
(* the entry about to be unlinked is the key's.                            *)
LinkInv ==
    /\ KeysAreLinkedOnce
    /\ pc = "idle" => op = NoCall
    /\ pc \in {"walk", "erase_unlink"} =>
         /\ cur # 0 => cur \in Linked(BucketOf(op.key))
         /\ IF prev = 0 THEN cur = heads[BucketOf(op.key)] ELSE prev \in Linked(BucketOf(op.key))
         /\ \A i \in Linked(BucketOf(op.key)) : cur < i => entries[i].key # op.key
    /\ pc = "set_link" =>
         /\ \A i \in Linked(BucketOf(op.key)) : entries[i].key # op.key
         /\ entries[chain].next = heads[BucketOf(op.key)]
         /\ entries[chain].db_offset = op.offset
    /\ pc = "erase_unlink" => op.op = "erase" /\ entries[cur].key = op.key

(* Every key met along a bucket's chain hashes to that bucket. *)
LEMMA LinkedKeys ==
    ASSUME ChainInv, NEW b \in Buckets
    PROVE  \A i \in Linked(b) : i \in 1 .. Len(entries) /\ BucketOf(entries[i].key) = b
<1>1. Len(entries) \in Nat /\ Descends(entries) /\ IsChain(Linked(b), heads[b], entries)
  BY LinkedChains DEF AllLinked
<1> DEFINE S == Linked(b)
           h == heads[b]
           n == Len(entries)
<1>2. S \subseteq 1 .. n /\ n \in Nat
  BY <1>1 DEF IsChain
<1>3. ASSUME NEW i \in S, i # h PROVE \E j \in S : i < j /\ entries[j].next = i
  BY <1>1, <1>3, Predecessor
<1>4. h \in S => BucketOf(entries[h].key) = b
  <2> SUFFICES ASSUME h \in S PROVE BucketOf(entries[h].key) = b
    OBVIOUS
  <2>1. h # 0
    BY <1>2
  <2> QED
    BY <2>1 DEF ChainInv, ChainsStayInBucket
<1>5. ASSUME NEW j \in S, entries[j].next # 0
      PROVE  BucketOf(entries[entries[j].next].key) = BucketOf(entries[j].key)
  BY <1>2, <1>5 DEF ChainInv, ChainsStayInBucket
<1> HIDE DEF S, h, n
<1> DEFINE D == {i \in S : BucketOf(entries[i].key) # b}
<1>6. ASSUME D # {} PROVE FALSE
  <2>1. D \subseteq 0 .. n
    <3> SUFFICES ASSUME NEW i \in D PROVE i \in 0 .. n
      OBVIOUS
    <3>1. i \in 1 .. n
      BY <1>2
    <3> QED
      BY <1>2, <3>1
  <2> HIDE DEF D
  <2>2. PICK i \in D : \A y \in D : y <= i
    BY <1>2, <1>6, <2>1, GreatestElement
  <2> USE DEF D
  <2>3. i \in S /\ i # h /\ i \in 1 .. n
    BY <1>2, <1>4, <2>2
  <2>4. PICK j \in S : i < j /\ entries[j].next = i
    BY <1>3, <2>3
  <2>5. j \in 1 .. n
    BY <1>2
  <2>6. j \notin D
    BY <2>2, <2>3, <2>4, <2>5
  <2>7. i # 0
    BY <1>2, <2>3
  <2>8. BucketOf(entries[i].key) = BucketOf(entries[j].key)
    BY <1>5, <2>4, <2>7
  <2> QED
    BY <2>2, <2>6, <2>8
<1>7. \A i \in S : BucketOf(entries[i].key) = b
  BY <1>6
<1> QED
  BY <1>2, <1>7 DEF S, n

(* The chains stay as they are while no head and no link changes. *)
LEMMA LinkedSame ==
    ASSUME ChainInv, ChainInv', heads' = heads, Len(entries) <= Len(entries'),
           \A j \in 1 .. Len(entries) : entries'[j].next = entries[j].next
    PROVE  \A b \in Buckets : Linked(b)' = Linked(b)
<1> SUFFICES ASSUME NEW b \in Buckets PROVE Linked(b)' = Linked(b)
  OBVIOUS
<1>1. IsChain(Linked(b), heads[b], entries)
  BY LinkedChains DEF AllLinked
<1>2. Len(entries) \in Nat /\ Len(entries') \in Nat
  BY DEF ChainInv, TypeOK
<1> DEFINE S == Linked(b)
           h == heads[b]
<1>3. IsChain(S, h, entries)
  BY <1>1
<1> HIDE DEF S, h
<1>4. IsChain(S, h, entries')
  BY <1>2, <1>3, ChainKept
<1> USE DEF S, h
<1>5. IsChain(Linked(b), heads'[b], entries')
  BY <1>4
<1> QED
  BY <1>5, LinkedAfter

(* set() puts the entry it appended in front of its chain. *)
LEMMA LinkedPush ==
    ASSUME ChainInv, ChainInv', LinkInv, SetLink, NEW B \in Buckets, B = BucketOf(op.key)
    PROVE  /\ Linked(B)' = Linked(B) \cup {chain}
           /\ \A b \in Buckets \ {B} : Linked(b)' = Linked(b)
<1>1. Len(entries) \in Nat /\ Descends(entries) /\ \A b \in Buckets : IsChain(Linked(b), heads[b], entries)
  BY LinkedChains DEF AllLinked
<1>2. chain \in 1 .. Len(entries) /\ entries[chain].next = heads[B]
  BY DEF ChainInv, TypeOK, EntryNumbers, WalkInStep, LinkInv, SetLink
<1>3. heads \in [Buckets -> EntryNumbers] /\ heads' = [heads EXCEPT ![B] = chain] /\ entries' = entries
  BY DEF SetLink, ChainInv, TypeOK
<1>4. heads'[B] = chain /\ \A b \in Buckets \ {B} : heads'[b] = heads[b]
  BY <1>3
<1> DEFINE S == Linked(B)
           h == heads[B]
           e == entries
           c == chain
<1>5. Len(e) \in Nat /\ Descends(e) /\ IsChain(S, h, e) /\ c \in 1 .. Len(e) /\ e[c].next = h
  BY <1>1, <1>2
<1> HIDE DEF S, h, e, c
<1>6. IsChain(S \cup {c}, c, e)
  BY <1>5, ChainPush
<1> USE DEF S, h, e, c
<1>7. IsChain(Linked(B) \cup {chain}, heads'[B], entries')
  BY <1>3, <1>4, <1>6
<1>8. Linked(B)' = Linked(B) \cup {chain}
  BY <1>7, LinkedAfter
<1>9. ASSUME NEW b \in Buckets \ {B} PROVE Linked(b)' = Linked(b)
  <2>1. IsChain(Linked(b), heads'[b], entries')
    BY <1>1, <1>3, <1>4
  <2> QED
    BY <2>1, LinkedAfter
<1> QED
  BY <1>8, <1>9

(* erase() takes the entry it found out of its chain, and no other out of  *)
(* any chain.                                                              *)
LEMMA LinkedCut ==
    ASSUME ChainInv, ChainInv', LinkInv, EraseUnlink, NEW B \in Buckets, B = BucketOf(op.key)
    PROVE  /\ Linked(B)' = Linked(B) \ {cur}
           /\ \A b \in Buckets \ {B} : Linked(b)' = Linked(b)
<1>1. Len(entries) \in Nat /\ Descends(entries) /\ \A b \in Buckets : IsChain(Linked(b), heads[b], entries)
  BY LinkedChains DEF AllLinked
<1>2. cur \in 1 .. Len(entries) /\ cur \in Linked(B) /\ cur # 0
  BY DEF ChainInv, TypeOK, EntryNumbers, WalkInStep, LinkInv, EraseUnlink
<1>3. heads \in [Buckets -> EntryNumbers] /\ entries \in Seq(Entries)
  BY DEF ChainInv, TypeOK
<1>4. CASE prev = 0
  <2>1. heads' = [heads EXCEPT ![B] = entries[cur].next] /\ entries' = entries /\ cur = heads[B]
    BY <1>4 DEF EraseUnlink, LinkInv
  <2>2. heads'[B] = entries[cur].next /\ \A b \in Buckets \ {B} : heads'[b] = heads[b]
    BY <1>3, <2>1
  <2> DEFINE S == Linked(B)
             h == heads[B]
             e == entries
  <2>3. Len(e) \in Nat /\ Descends(e) /\ IsChain(S, h, e) /\ h # 0
    BY <1>1, <1>2, <2>1
  <2> HIDE DEF S, h, e
  <2>4. IsChain(S \ {h}, e[h].next, e)
    BY <2>3, ChainPop
  <2> USE DEF S, h, e
  <2>5. IsChain(Linked(B) \ {cur}, heads'[B], entries')
    BY <2>1, <2>2, <2>4
  <2>6. Linked(B)' = Linked(B) \ {cur}
    BY <2>5, LinkedAfter
  <2>7. ASSUME NEW b \in Buckets \ {B} PROVE Linked(b)' = Linked(b)
    <3>1. IsChain(Linked(b), heads'[b], entries')
      BY <1>1, <2>1, <2>2
    <3> QED
      BY <3>1, LinkedAfter
  <2> QED
    BY <2>6, <2>7
<1>5. CASE prev # 0
  <2>1. /\ heads' = heads
        /\ entries' = [entries EXCEPT ![prev].next = entries[cur].next]
        /\ prev \in Linked(B) /\ entries[prev].next = cur
    BY <1>5 DEF EraseUnlink, LinkInv, ChainInv, WalkInStep
  <2>2. prev \in 1 .. Len(entries) /\ BucketOf(entries[prev].key) = B
    BY <2>1, LinkedKeys
  <2>3. entries[cur].next \in Nat
    BY <1>2, <1>3, EntryFields
  <2>4. /\ Len(entries') = Len(entries)
        /\ entries'[prev].next = entries[cur].next
        /\ \A j \in 1 .. Len(entries) : j # prev => entries'[j].next = entries[j].next
    BY <1>3, <2>1, <2>2, <2>3, LinkChange
  <2> DEFINE S == Linked(B)
             h == heads[B]
             e == entries
             f == entries'
             p == prev
             c == cur
  <2>5. /\ IsChain(S, h, e) /\ Len(e) \in Nat /\ Len(f) = Len(e) /\ Descends(e) /\ p \in S
        /\ c = e[p].next /\ c # 0 /\ f[p].next = e[c].next
        /\ \A j \in 1 .. Len(e) : j # p => f[j].next = e[j].next
    BY <1>1, <1>2, <2>1, <2>4
  <2> HIDE DEF S, h, e, f, p, c
  <2>6. IsChain(S \ {c}, h, f)
    BY <2>5, ChainBypass
  <2> USE DEF S, h, e, f, p, c
  <2>7. IsChain(Linked(B) \ {cur}, heads'[B], entries')
    BY <2>1, <2>6
  <2>8. Linked(B)' = Linked(B) \ {cur}
    BY <2>7, LinkedAfter
  <2>9. ASSUME NEW b \in Buckets \ {B} PROVE Linked(b)' = Linked(b)
    <3>1. \A i \in Linked(b) : i \in 1 .. Len(entries) /\ i # prev
      BY <2>2, LinkedKeys
    <3>2. \A i \in Linked(b) : entries'[i].next = entries[i].next
      BY <2>4, <3>1
    <3>3. IsChain(Linked(b), heads[b], entries)
      BY <1>1
    <3>4. IsChain(Linked(b), heads'[b], entries')
      BY <2>1, <2>4, <3>2, <3>3 DEF IsChain
    <3> QED
      BY <3>4, LinkedAfter
  <2> QED
    BY <2>8, <2>9
<1> QED
  BY <1>4, <1>5

-----------------------------------------------------------------------------
(* No key is linked twice.                                                 *)

(* Chains without repeated keys, and what a running call knows of the one  *)
(* it walks, hold initially ...                                            *)
LEMMA LinkInit == Init => LinkInv
<1> SUFFICES ASSUME Init PROVE LinkInv
  OBVIOUS
<1>1. \A b \in Buckets : IsChain(Linked(b), heads[b], entries)
  BY ChainInit, LinkedChains DEF AllLinked
<1>2. \A b \in Buckets : heads[b] = 0
  BY DEF Init
<1>3. \A b \in Buckets : Linked(b) = {}
  BY <1>1, <1>2 DEF IsChain
<1> QED
  BY <1>3 DEF LinkInv, KeysAreLinkedOnce, Init

(* A step that keeps the heads, the links and the keys keeps the chains. *)
LEMMA KeysKept ==
    ASSUME ChainInv, ChainInv', KeysAreLinkedOnce, heads' = heads, Len(entries) <= Len(entries'),
           \A j \in 1 .. Len(entries) : entries'[j].next = entries[j].next /\ entries'[j].key = entries[j].key
    PROVE  /\ KeysAreLinkedOnce'
           /\ \A b \in Buckets : /\ Linked(b)' = Linked(b)
                                 /\ \A i \in Linked(b) : entries'[i].key = entries[i].key
<1>1. \A b \in Buckets : Linked(b)' = Linked(b)
  BY LinkedSame
<1>2. \A b \in Buckets : \A i \in Linked(b) : entries'[i].key = entries[i].key
  BY LinkedKeys
<1>3. KeysAreLinkedOnce'
  BY <1>1, <1>2 DEF KeysAreLinkedOnce
<1> QED
  BY <1>1, <1>2, <1>3

(* ... and every step of every call keeps them. *)
LEMMA LinkStep == ChainInv /\ ChainInv' /\ LinkInv /\ [Next]_vars => LinkInv'
<1> SUFFICES ASSUME ChainInv, ChainInv', LinkInv, [Next]_vars PROVE LinkInv'
  OBVIOUS
<1>0. KeysAreLinkedOnce /\ entries \in Seq(Entries) /\ Len(entries) \in Nat
  BY DEF LinkInv, ChainInv, TypeOK
<1>a. ASSUME UNCHANGED file PROVE KeysAreLinkedOnce' /\ \A b \in Buckets : Linked(b)' = Linked(b)
  BY <1>0, <1>a, KeysKept DEF file
<1>b. ASSUME pc' = "idle", op' = NoCall, KeysAreLinkedOnce' PROVE LinkInv'
  BY <1>b DEF LinkInv
<1>c. ASSUME pc # "idle" PROVE op.key \in Keys /\ BucketOf(op.key) \in Buckets
  BY <1>c, BucketType DEF ChainInv, TypeOK, Calls
<1>1. ASSUME NEW c \in Calls, Begin(c) PROVE LinkInv'
  <2>1. UNCHANGED file
    BY <1>1 DEF Begin
  <2>2. PICK B \in Buckets : B = BucketOf(c.key)
    BY BucketType DEF Calls
  <2>3. KeysAreLinkedOnce' /\ Linked(B)' = Linked(B)
    BY <1>a, <2>1
  <2>4. pc' = "walk" /\ op' = c /\ cur' = heads'[B] /\ prev' = 0
    BY <1>1, <2>1, <2>2 DEF Begin, file
  <2>5. IsChain(Linked(B), heads[B], entries)
    BY LinkedChains DEF AllLinked
  <2>6. cur' # 0 => cur' \in Linked(B)'
    BY <2>1, <2>3, <2>4, <2>5 DEF IsChain, file
  <2>7. \A i \in Linked(B)' : ~(cur' < i)
    <3> SUFFICES ASSUME NEW i \in Linked(B) PROVE ~(heads[B] < i)
      BY <2>1, <2>3, <2>4 DEF file
    <3>1. i \in 1 .. Len(entries) /\ i <= heads[B]
      BY <2>5 DEF IsChain
    <3>2. heads[B] \in Nat
      BY DEF ChainInv, TypeOK, EntryNumbers
    <3> QED
      BY <3>1, <3>2
  <2> QED
    BY <2>2, <2>3, <2>4, <2>6, <2>7 DEF LinkInv
<1>2. ASSUME NEW k \in Keys, SetRejected(k) PROVE LinkInv'
  BY <1>2, <1>a DEF SetRejected, LinkInv, locals
<1>3. CASE WalkOn
  <2>1. UNCHANGED file /\ pc = "walk" /\ pc' = "walk" /\ op' = op /\ prev' = cur /\ cur # 0
        /\ cur' = entries[cur].next /\ entries[cur].key # op.key
    BY <1>3 DEF WalkOn, Found
  <2>2. PICK B \in Buckets : B = BucketOf(op.key)
    BY <1>c, <2>1
  <2>3. KeysAreLinkedOnce' /\ Linked(B)' = Linked(B) /\ entries' = entries
    BY <1>a, <2>1 DEF file
  <2>4. cur \in Linked(B) /\ \A i \in Linked(B) : cur < i => entries[i].key # op.key
    BY <2>1, <2>2 DEF LinkInv
  <2>5. IsChain(Linked(B), heads[B], entries)
    BY LinkedChains DEF AllLinked
  <2>6. cur' # 0 => cur' \in Linked(B)'
    BY <2>1, <2>3, <2>4, <2>5 DEF IsChain
  <2>7. ASSUME NEW i \in Linked(B), cur' < i PROVE entries[i].key # op.key
    <3>1. i \in 1 .. Len(entries) /\ cur \in 1 .. Len(entries) /\ cur' \in 0 .. Len(entries)
      <4>1. cur' \in 0 .. Len(entries')
        BY DEF ChainInv, TypeOK, EntryNumbers
      <4> QED
        BY <2>3, <2>4, <4>1, LinkedKeys
    <3>2. ~(i < cur)
      <4> SUFFICES ASSUME i < cur PROVE FALSE
        OBVIOUS
      <4>1. i <= entries[cur].next
        BY <2>4, <2>5 DEF IsChain
      <4> QED
        BY <2>1, <2>7, <3>1, <4>1
    <3>3. i = cur \/ cur < i
      BY <3>1, <3>2
    <3> QED
      BY <2>1, <2>4, <3>3
  <2> QED
    BY <2>1, <2>2, <2>3, <2>4, <2>6, <2>7 DEF LinkInv
<1>4. CASE FindFound
  BY <1>4, <1>a, <1>b DEF FindFound, Ended
<1>5. CASE FindAbsent
  BY <1>5, <1>a, <1>b DEF FindAbsent, Ended
<1>6. CASE SetReplace
  <2> DEFINE o == op.offset
  <2>1. /\ entries \in Seq(Entries) /\ cur \in 1 .. Len(entries)
        /\ o \in DbOffsets \cup {0}
        /\ entries' = [entries EXCEPT ![cur] = [entries[cur] EXCEPT !.db_offset = o]]
    BY <1>6 DEF SetReplace, ChainInv, TypeOK, EntryNumbers, Calls, Found
  <2> HIDE DEF o
  <2>2. /\ Len(entries') = Len(entries)
        /\ \A j \in 1 .. Len(entries) : entries'[j].next = entries[j].next
                                       /\ entries'[j].key = entries[j].key
    BY ONLY <2>1, OffsetChange, Z3T(20)
  <2>3. heads' = heads /\ pc' = "idle" /\ op' = NoCall
    BY <1>6 DEF SetReplace, Ended
  <2>4. KeysAreLinkedOnce'
    BY <1>0, <2>2, <2>3, KeysKept
  <2> QED
    BY <1>b, <2>3, <2>4
<1>7. CASE SetAppend
  <2>1. /\ entries \in Seq(Entries) /\ op.offset \in DbOffsets /\ op.key \in Keys /\ chain \in Nat
        /\ entries' = Append(entries, [db_offset |-> op.offset, next |-> chain, key |-> op.key])
        /\ chain' = Len(entries) + 1
    BY <1>7 DEF SetAppend, NewEntry, EndOfFile, ChainInv, TypeOK, EntryNumbers, Calls
  <2>2. /\ Len(entries') = Len(entries) + 1
        /\ entries'[Len(entries) + 1] = [db_offset |-> op.offset, next |-> chain, key |-> op.key]
        /\ \A j \in 1 .. Len(entries) : entries'[j] = entries[j]
    BY ONLY <2>1
  <2>3. heads' = heads /\ pc = "walk" /\ pc' = "set_link" /\ op' = op /\ cur = 0
    BY <1>7 DEF SetAppend
  <2>4. PICK B \in Buckets : B = BucketOf(op.key)
    BY <1>c, <2>3
  <2>5. /\ KeysAreLinkedOnce' /\ Linked(B)' = Linked(B)
        /\ \A i \in Linked(B) : entries'[i].key = entries[i].key
    BY <1>0, <2>2, <2>3, KeysKept
  <2>6. \A i \in Linked(B) : entries[i].key # op.key
    <3> SUFFICES ASSUME NEW i \in Linked(B) PROVE entries[i].key # op.key
      OBVIOUS
    <3>1. cur < i
      BY <2>3, LinkedKeys
    <3> QED
      BY <2>3, <2>4, <3>1 DEF LinkInv
  <2>7. entries'[chain'].next = heads'[B] /\ entries'[chain'].db_offset = op.offset
    BY <2>1, <2>2, <2>3, <2>4 DEF ChainInv, WalkInStep
  <2> QED
    BY <2>3, <2>4, <2>5, <2>6, <2>7 DEF LinkInv
<1>8. CASE SetLink
  <2>1. pc = "set_link" /\ entries' = entries /\ pc' = "idle" /\ op' = NoCall
    BY <1>8 DEF SetLink, Ended
  <2>2. PICK B \in Buckets : B = BucketOf(op.key)
    BY <1>c, <2>1
  <2>3. /\ Linked(B)' = Linked(B) \cup {chain}
        /\ \A b \in Buckets \ {B} : Linked(b)' = Linked(b)
    BY <1>8, <2>2, LinkedPush
  <2>4. entries[chain].key = op.key /\ \A i \in Linked(B) : entries[i].key # op.key
    BY <2>1, <2>2 DEF LinkInv, ChainInv, WalkInStep
  <2>5. ASSUME NEW b \in Buckets, NEW i \in Linked(b)', NEW j \in Linked(b)',
               entries'[i].key = entries'[j].key
        PROVE  i = j
    <3>1. CASE b # B
      BY <1>0, <2>1, <2>3, <2>5, <3>1 DEF KeysAreLinkedOnce
    <3>2. CASE b = B
      BY <1>0, <2>1, <2>3, <2>4, <2>5, <3>2 DEF KeysAreLinkedOnce
    <3> QED
      BY <3>1, <3>2
  <2>6. KeysAreLinkedOnce'
    BY <2>5 DEF KeysAreLinkedOnce
  <2> QED
    BY <1>b, <2>1, <2>6
<1>9. CASE EraseAbsent
  BY <1>9, <1>a, <1>b DEF EraseAbsent, Ended
<1>10. CASE EraseZero
  <2>1. /\ entries \in Seq(Entries) /\ cur \in 1 .. Len(entries)
        /\ 0 \in DbOffsets \cup {0}
        /\ entries' = [entries EXCEPT ![cur] = [entries[cur] EXCEPT !.db_offset = 0]]
    BY <1>10 DEF EraseZero, ChainInv, TypeOK, EntryNumbers, Found
  <2>2. /\ Len(entries') = Len(entries)
        /\ \A j \in 1 .. Len(entries) : entries'[j].next = entries[j].next
                                       /\ entries'[j].key = entries[j].key
    BY ONLY <2>1, OffsetChange
  <2>3. /\ heads' = heads /\ pc = "walk" /\ pc' = "erase_unlink" /\ op' = op /\ cur' = cur /\ prev' = prev
        /\ op.op = "erase" /\ cur # 0 /\ entries[cur].key = op.key
    BY <1>10 DEF EraseZero, Found, locals
  <2>4. PICK B \in Buckets : B = BucketOf(op.key)
    BY <1>c, <2>3
  <2>5. /\ KeysAreLinkedOnce' /\ Linked(B)' = Linked(B)
        /\ \A i \in Linked(B) : entries'[i].key = entries[i].key
    BY <1>0, <2>2, <2>3, KeysKept
  <2>6. entries'[cur].key = op.key
    BY <2>1, <2>2, <2>3
  <2> QED
    BY <2>3, <2>4, <2>5, <2>6 DEF LinkInv
<1>11. CASE EraseUnlink
  <2>1. pc = "erase_unlink" /\ pc' = "idle" /\ op' = NoCall
    BY <1>11 DEF EraseUnlink, Ended
  <2>2. PICK B \in Buckets : B = BucketOf(op.key)
    BY <1>c, <2>1
  <2>3. /\ Linked(B)' = Linked(B) \ {cur}
        /\ \A b \in Buckets \ {B} : Linked(b)' = Linked(b)
    BY <1>11, <2>2, LinkedCut
  <2>4. \A b \in Buckets : Linked(b)' \subseteq Linked(b)
    BY <2>3
  <2>5. \A b \in Buckets : \A i \in Linked(b) : entries'[i].key = entries[i].key
    <3>1. CASE prev = 0
      BY <1>11, <3>1 DEF EraseUnlink
    <3>2. CASE prev # 0
      <4>1. /\ entries' = [entries EXCEPT ![prev].next = entries[cur].next]
            /\ prev \in 1 .. Len(entries) /\ cur \in 1 .. Len(entries)
        BY <1>11, <3>2 DEF EraseUnlink, ChainInv, TypeOK, EntryNumbers, WalkInStep
      <4>2. entries[cur].next \in Nat
        BY <1>0, <4>1, EntryFields
      <4>3. \A j \in 1 .. Len(entries) : entries'[j].key = entries[j].key
        BY <1>0, <4>1, <4>2, LinkChange
      <4> QED
        BY <4>3, LinkedKeys
    <3> QED
      BY <3>1, <3>2
  <2>6. KeysAreLinkedOnce'
    BY <1>0, <2>4, <2>5 DEF KeysAreLinkedOnce
  <2> QED
    BY <1>b, <2>1, <2>6
<1>12. CASE Throw
  BY <1>12, <1>a, <1>b DEF Throw, Ended
<1>13. CASE ThrowInAppend
  <2>1. /\ entries \in Seq(Entries) /\ op.offset \in DbOffsets /\ op.key \in Keys /\ chain \in Nat
        /\ entries' = Append(entries, [db_offset |-> op.offset, next |-> chain, key |-> op.key])
    BY <1>13 DEF ThrowInAppend, NewEntry, ChainInv, TypeOK, EntryNumbers, Calls
  <2>2. /\ Len(entries') = Len(entries) + 1
        /\ \A j \in 1 .. Len(entries) : entries'[j] = entries[j]
    BY ONLY <2>1
  <2>3. heads' = heads /\ pc' = "idle" /\ op' = NoCall
    BY <1>13 DEF ThrowInAppend, Ended
  <2>4. KeysAreLinkedOnce'
    BY <1>0, <2>2, <2>3, KeysKept
  <2> QED
    BY <1>b, <2>3, <2>4
<1>14. CASE UNCHANGED vars
  <2>1. UNCHANGED <<heads, entries, op, cur, prev, chain, pc>> /\ KeysAreLinkedOnce'
    BY <1>14, <1>a DEF vars, file, locals
  <2>2. CASE pc = "idle"
    BY <1>b, <2>1, <2>2 DEF LinkInv
  <2>3. CASE pc # "idle"
    <3>1. PICK B \in Buckets : B = BucketOf(op.key)
      BY <1>c, <2>3
    <3>2. Linked(B)' = Linked(B)
      BY <1>a, <2>1 DEF file
    <3> QED
      BY <2>1, <3>1, <3>2 DEF LinkInv
  <2> QED
    BY <2>2, <2>3
<1> QED
  BY <1>1, <1>2, <1>3, <1>4, <1>5, <1>6, <1>7, <1>8, <1>9, <1>10, <1>11, <1>12, <1>13, <1>14
     DEF Next, Step

(* A key is in its chain at most once, whatever calls threw half-way, so    *)
(* that erase() never uncovers an older offset of the key it removed.      *)
THEOREM KeysAreUniquelyLinked == Spec => []KeysAreLinkedOnce
<1>1. LinkInv => KeysAreLinkedOnce
  BY DEF LinkInv
<1> QED
  BY <1>1, ChainInit, ChainStep, LinkInit, LinkStep, PTL DEF Spec

-----------------------------------------------------------------------------
(* The chains implement a map.                                             *)

(* What a new offset for one entry does to the offsets of all. *)
LEMMA OffsetWritten ==
    ASSUME entries \in Seq(Entries), NEW i \in 1 .. Len(entries), NEW o,
           NEW e, e = [entries EXCEPT ![i].db_offset = o]
    PROVE  /\ e[i].db_offset = o
           /\ \A j \in 1 .. Len(entries) : j # i => e[j] = entries[j]
<1>1. entries[i] \in Entries
  OBVIOUS
<1>2. e[i] = [entries[i] EXCEPT !.db_offset = o]
  OBVIOUS
<1>3. e[i].db_offset = o
  BY <1>1, <1>2 DEF Entries
<1> QED
  BY <1>3

(* The map, read from the chains. *)
MapReads ==
    \A k \in Keys :
        /\ (\A i \in Linked(BucketOf(k)) : entries[i].key # k) => mapBar[k] = NoEntry
        /\ \A i \in Linked(BucketOf(k)) : entries[i].key = k => mapBar[k] = entries[i].db_offset

(* With every key linked at most once, the newest entry is the only one. *)
LEMMA MapIsRead == ChainInv /\ LinkInv => MapReads
<1> SUFFICES ASSUME ChainInv, LinkInv, NEW k \in Keys
             PROVE  /\ (\A i \in Linked(BucketOf(k)) : entries[i].key # k) => mapBar[k] = NoEntry
                    /\ \A i \in Linked(BucketOf(k)) : entries[i].key = k => mapBar[k] = entries[i].db_offset
  BY DEF MapReads
<1>1. mapBar[k] = IF EntryOf(k) = {} THEN NoEntry ELSE entries[Newest(EntryOf(k))].db_offset
  BY DEF mapBar
<1>2. (\A i \in Linked(BucketOf(k)) : entries[i].key # k) => EntryOf(k) = {}
  BY DEF EntryOf
<1>3. ASSUME NEW i \in Linked(BucketOf(k)), entries[i].key = k
      PROVE  EntryOf(k) = {i} /\ Newest(EntryOf(k)) = i
  <2>1. BucketOf(k) \in Buckets
    BY BucketType
  <2>2. EntryOf(k) = {i}
    BY <1>3, <2>1 DEF EntryOf, LinkInv, KeysAreLinkedOnce
  <2>3. i \in 1 .. Len(entries)
    BY <2>1, LinkedKeys
  <2>4. Newest({i}) = i
    BY <2>3 DEF Newest
  <2> QED
    BY <2>2, <2>4
<1> QED
  BY <1>1, <1>2, <1>3

(* A key that the same entry holds with the same offset before and after a *)
(* step has the same place in the map.                                     *)
LEMMA KeyKept ==
    ASSUME MapReads, MapReads', NEW k \in Keys, NEW B, B = BucketOf(k),
           \A i : (i \in Linked(B)' /\ entries'[i].key = k) <=> (i \in Linked(B) /\ entries[i].key = k),
           \A i \in Linked(B) : entries[i].key = k => entries'[i].db_offset = entries[i].db_offset
    PROVE  mapBar'[k] = mapBar[k]
<1>1. /\ (\A i \in Linked(B)' : entries'[i].key # k) => mapBar'[k] = NoEntry
      /\ \A i \in Linked(B)' : entries'[i].key = k => mapBar'[k] = entries'[i].db_offset
  BY DEF MapReads, NoEntry, BucketOf
<1>2. /\ (\A i \in Linked(B) : entries[i].key # k) => mapBar[k] = NoEntry
      /\ \A i \in Linked(B) : entries[i].key = k => mapBar[k] = entries[i].db_offset
  BY DEF MapReads
<1>3. CASE \E i \in Linked(B) : entries[i].key = k
  BY <1>1, <1>2, <1>3
<1>4. CASE \A i \in Linked(B) : entries[i].key # k
  BY <1>1, <1>2, <1>4
<1> QED
  BY <1>3, <1>4

(* The map is a function on the keys: it is the same if every key is, ... *)
LEMMA SameMap ==
    ASSUME \A k \in Keys : mapBar'[k] = mapBar[k]
    PROVE  mapBar' = mapBar
<1>1. mapBar = [k \in Keys |-> mapBar[k]]
  BY DEF mapBar
<1>2. mapBar' = [k \in Keys |-> mapBar'[k]]
  BY DEF mapBar
<1> HIDE DEF mapBar
<1> QED
  BY <1>1, <1>2

(* ... and changes at one key if all others are the same. *)
LEMMA ChangedMap ==
    ASSUME NEW x \in Keys, NEW v, mapBar'[x] = v, \A k \in Keys \ {x} : mapBar'[k] = mapBar[k]
    PROVE  mapBar' = [mapBar EXCEPT ![x] = v]
<1>1. mapBar = [k \in Keys |-> mapBar[k]]
  BY DEF mapBar
<1>2. mapBar' = [k \in Keys |-> mapBar'[k]]
  BY DEF mapBar
<1> HIDE DEF mapBar
<1> QED
  BY <1>1, <1>2

(* A step that keeps the heads, and of every entry all it says, keeps the map. *)
LEMMA MapKept ==
    ASSUME ChainInv, ChainInv', LinkInv, LinkInv', MapReads, MapReads', heads' = heads,
           Len(entries) <= Len(entries'), \A j \in 1 .. Len(entries) : entries'[j] = entries[j]
    PROVE  mapBar' = mapBar
<1>1. \A b \in Buckets : Linked(b)' = Linked(b)
  BY LinkedSame
<1>2. \A b \in Buckets : \A i \in Linked(b) : entries'[i] = entries[i]
  BY LinkedKeys
<1>3. ASSUME NEW k \in Keys PROVE mapBar'[k] = mapBar[k]
  <2>1. PICK B \in Buckets : B = BucketOf(k)
    BY BucketType
  <2>2. Linked(B)' = Linked(B) /\ \A i \in Linked(B) : entries'[i] = entries[i]
    BY <1>1, <1>2
  <2> QED
    BY <2>1, <2>2, KeyKept
<1> QED
  BY <1>3, SameMap

(* A write into the entry that was found changes the offset of its key. *)
LEMMA OffsetStep ==
    ASSUME ChainInv, ChainInv', LinkInv, LinkInv', MapReads, MapReads', pc = "walk", Found, heads' = heads,
           NEW o \in DbOffsets \cup {0}, entries' = [entries EXCEPT ![cur].db_offset = o]
    PROVE  /\ mapBar[op.key] = entries[cur].db_offset
           /\ mapBar' = [mapBar EXCEPT ![op.key] = o]
<1>1. PICK x \in Keys : x = op.key
  BY DEF ChainInv, TypeOK, Calls
<1>2. PICK B \in Buckets : B = BucketOf(x)
  BY BucketType
<1>3. cur \in Linked(B) /\ entries[cur].key = x /\ cur \in 1 .. Len(entries)
  BY <1>1, <1>2, LinkedKeys DEF LinkInv, Found
<1>4. entries \in Seq(Entries)
  BY DEF ChainInv, TypeOK
<1>5. entries'[cur].db_offset = o /\ \A j \in 1 .. Len(entries) : j # cur => entries'[j] = entries[j]
  BY <1>3, <1>4, OffsetWritten
<1>6. /\ Len(entries') = Len(entries)
      /\ \A j \in 1 .. Len(entries) : entries'[j].next = entries[j].next
                                     /\ entries'[j].key = entries[j].key
  BY <1>3, <1>4, OffsetChange
<1>7. \A b \in Buckets : Linked(b)' = Linked(b)
  BY <1>4, <1>6, LinkedSame
<1>8. mapBar[x] = entries[cur].db_offset
  BY <1>2, <1>3 DEF MapReads
<1>9. mapBar'[x] = o
  <2>1. cur \in Linked(B)' /\ entries'[cur].key = x
    BY <1>3, <1>6, <1>7
  <2> QED
    BY <1>2, <1>5, <2>1 DEF MapReads, BucketOf
<1>10. ASSUME NEW k \in Keys \ {x} PROVE mapBar'[k] = mapBar[k]
  <2>1. PICK C \in Buckets : C = BucketOf(k)
    BY BucketType
  <2>2. Linked(C)' = Linked(C) /\ \A i \in Linked(C) : i \in 1 .. Len(entries)
    BY <1>7, LinkedKeys
  <2>3. \A i \in Linked(C) : entries'[i].key = entries[i].key
    BY <1>6, <2>2
  <2>4. \A i \in Linked(C) : entries[i].key = k => entries'[i].db_offset = entries[i].db_offset
    BY <1>3, <1>5, <2>2
  <2> QED
    BY <2>1, <2>2, <2>3, <2>4, KeyKept
<1> QED
  BY <1>1, <1>8, <1>9, <1>10, ChangedMap

(* set() of a key that is not there: one key comes into the map. *)
LEMMA PushStep ==
    ASSUME ChainInv, ChainInv', LinkInv, LinkInv', MapReads, MapReads', SetLink
    PROVE  mapBar' = [mapBar EXCEPT ![op.key] = op.offset]
<1>1. PICK x \in Keys : x = op.key
  BY DEF ChainInv, TypeOK, Calls, SetLink
<1>2. PICK B \in Buckets : B = BucketOf(x)
  BY BucketType
<1>3. /\ Linked(B)' = Linked(B) \cup {chain}
      /\ \A b \in Buckets \ {B} : Linked(b)' = Linked(b)
  BY <1>1, <1>2, LinkedPush
<1>4. entries' = entries /\ entries[chain].key = x /\ entries[chain].db_offset = op.offset
  BY <1>1 DEF SetLink, ChainInv, WalkInStep, LinkInv
<1>5. mapBar'[x] = op.offset
  <2>1. chain \in Linked(B)' /\ entries'[chain].key = x
    BY <1>3, <1>4
  <2> QED
    BY <1>2, <1>4, <2>1 DEF MapReads, BucketOf
<1>6. ASSUME NEW k \in Keys \ {x} PROVE mapBar'[k] = mapBar[k]
  <2>1. PICK C \in Buckets : C = BucketOf(k)
    BY BucketType
  <2>2. \A i : (i \in Linked(C)' /\ entries'[i].key = k) <=> (i \in Linked(C) /\ entries[i].key = k)
    BY <1>3, <1>4
  <2> QED
    BY <1>4, <2>1, <2>2, KeyKept
<1> QED
  BY <1>1, <1>5, <1>6, ChangedMap

(* erase(), second half: the key is gone, from wherever it was. *)
LEMMA CutStep ==
    ASSUME ChainInv, ChainInv', LinkInv, LinkInv', MapReads, MapReads', EraseUnlink
    PROVE  mapBar' = [mapBar EXCEPT ![op.key] = NoEntry]
<1>1. PICK x \in Keys : x = op.key
  BY DEF ChainInv, TypeOK, Calls, EraseUnlink
<1>2. PICK B \in Buckets : B = BucketOf(x)
  BY BucketType
<1>3. /\ Linked(B)' = Linked(B) \ {cur}
      /\ \A b \in Buckets \ {B} : Linked(b)' = Linked(b)
  BY <1>1, <1>2, LinkedCut
<1>4. cur \in Linked(B) /\ cur \in 1 .. Len(entries) /\ entries[cur].key = x /\ entries \in Seq(Entries)
  BY <1>1, <1>2, LinkedKeys DEF EraseUnlink, ChainInv, TypeOK, WalkInStep, LinkInv
<1>5. \A j \in 1 .. Len(entries) : entries'[j].key = entries[j].key
                                  /\ entries'[j].db_offset = entries[j].db_offset
  <2>1. CASE prev = 0
    BY <2>1 DEF EraseUnlink
  <2>2. CASE prev # 0
    <3>1. /\ entries' = [entries EXCEPT ![prev].next = entries[cur].next]
          /\ prev \in 1 .. Len(entries)
      BY <2>2 DEF EraseUnlink, ChainInv, TypeOK, EntryNumbers
    <3>2. entries[cur].next \in Nat
      BY <1>4, EntryFields
    <3> QED
      BY <1>4, <3>1, <3>2, LinkChange
  <2> QED
    BY <2>1, <2>2
<1>6. \A b \in Buckets : \A i \in Linked(b) : entries'[i].key = entries[i].key
                                             /\ entries'[i].db_offset = entries[i].db_offset
  BY <1>5, LinkedKeys
<1>7. mapBar'[x] = NoEntry
  <2>1. \A i \in Linked(B)' : entries'[i].key # x
    <3> SUFFICES ASSUME NEW i \in Linked(B)', entries'[i].key = x PROVE FALSE
      OBVIOUS
    <3>1. i \in Linked(B) /\ i # cur
      BY <1>3
    <3>2. entries[i].key = x
      BY <1>6, <3>1
    <3> QED
      BY <1>4, <3>1, <3>2 DEF LinkInv, KeysAreLinkedOnce
  <2> QED
    BY <1>2, <2>1 DEF MapReads, BucketOf, NoEntry
<1>8. ASSUME NEW k \in Keys \ {x} PROVE mapBar'[k] = mapBar[k]
  <2>1. PICK C \in Buckets : C = BucketOf(k)
    BY BucketType
  <2>2. \A i : (i \in Linked(C)' /\ entries'[i].key = k) <=> (i \in Linked(C) /\ entries[i].key = k)
    BY <1>3, <1>4, <1>6
  <2> QED
    BY <1>6, <2>1, <2>2, KeyKept
<1> QED
  BY <1>1, <1>7, <1>8, ChangedMap

(* Every step of a call is a step of the map, or none. *)
LEMMA IndexStep ==
    ASSUME ChainInv, ChainInv', LinkInv, LinkInv', MapReads, MapReads', [Next]_vars
    PROVE  [IM!Next]_(IM!vars)
<1>0. entries \in Seq(Entries) /\ Len(entries) \in Nat
  BY DEF ChainInv, TypeOK
<1>a. ASSUME UNCHANGED file PROVE mapBar' = mapBar
  <2>1. heads' = heads /\ entries' = entries
    BY <1>a DEF file
  <2>2. Len(entries) <= Len(entries') /\ \A j \in 1 .. Len(entries) : entries'[j] = entries[j]
    BY <1>0, <2>1
  <2> QED
    BY <2>1, <2>2, MapKept
<1>b. pc = "idle" => callBar = IM!NoCall
  BY DEF callBar, LinkInv, NoCall, IM!NoCall
<1>c. (pc' = "idle" /\ op' = NoCall) => callBar' = IM!NoCall
  BY DEF callBar, NoCall, IM!NoCall
<1>d. pc # "idle" => callBar # IM!NoCall /\ op.key \in Keys
  <2> SUFFICES ASSUME pc # "idle" PROVE callBar.op # "none" /\ op.key \in Keys
    BY DEF IM!NoCall
  <2>1. op \in Calls
    BY DEF ChainInv, TypeOK
  <2> QED
    BY <2>1 DEF callBar, Calls
<1>e. ASSUME pc = "walk", cur = 0 PROVE mapBar[op.key] = NoEntry
  <2>1. PICK x \in Keys : x = op.key
    BY <1>d, <1>e
  <2>2. PICK B \in Buckets : B = BucketOf(x)
    BY BucketType
  <2>3. \A i \in Linked(B) : cur < i
    BY <1>e, LinkedKeys
  <2>4. \A i \in Linked(B) : entries[i].key # x
    BY <1>e, <2>1, <2>2, <2>3 DEF LinkInv
  <2> QED
    BY <2>1, <2>2, <2>4 DEF MapReads
<1>f. ASSUME pc = "walk", Found PROVE mapBar[op.key] = entries[cur].db_offset /\ mapBar[op.key] # NoEntry
  <2>1. PICK x \in Keys : x = op.key
    BY <1>d, <1>f
  <2>2. PICK B \in Buckets : B = BucketOf(x)
    BY BucketType
  <2>3. cur \in Linked(B) /\ entries[cur].key = x
    BY <1>f, <2>1, <2>2 DEF LinkInv, Found
  <2>4. mapBar[x] = entries[cur].db_offset
    BY <2>2, <2>3 DEF MapReads
  <2>5. cur \in 1 .. Len(entries)
    BY <2>3, LinkedKeys
  <2>6. entries[cur].db_offset \in Nat
    <3>1. entries[cur].db_offset \in DbOffsets \cup {0}
      BY ONLY <1>0, <2>5, EntryFields
    <3>2. DbOffsets \subseteq Nat
      BY HashIndexAssumption, Zenon
    <3>3. \A o \in DbOffsets \cup {0} : o \in Nat
      BY ONLY <3>2
    <3> QED
      BY ONLY <3>1, <3>3, Zenon
  <2> QED
    BY <2>1, <2>4, <2>6 DEF NoEntry
<1>1. ASSUME NEW c \in Calls, Begin(c) PROVE [IM!Next]_(IM!vars)
  <2>1. c \in IM!Calls
    BY DEF Calls, IM!Calls
  <2>2. callBar' = c
    BY <1>1 DEF Begin, callBar
  <2>3. IM!Begin(c)
    BY <1>1, <1>a, <1>b, <2>2 DEF Begin, IM!Begin, NoEntry, IM!NoEntry
  <2> QED
    BY <2>1, <2>3 DEF IM!Next
<1>2. ASSUME NEW k \in Keys, SetRejected(k) PROVE [IM!Next]_(IM!vars)
  <2>1. IM!Rejected
    BY <1>2, <1>a, <1>b, <1>c DEF SetRejected, locals, LinkInv, IM!Rejected, IM!Ended, NoEntry, IM!NoEntry
  <2> QED
    BY <2>1 DEF IM!Next
<1>3. CASE WalkOn
  <2>1. UNCHANGED <<mapBar, callBar, result>>
    BY <1>3, <1>a DEF WalkOn, callBar
  <2> QED
    BY <2>1 DEF IM!vars
<1>4. CASE FindFound
  <2>1. callBar = op /\ op.op = "find" /\ UNCHANGED mapBar
    BY <1>4, <1>a DEF FindFound, callBar
  <2>2. IM!Find
    BY <1>4, <1>c, <1>f, <2>1 DEF FindFound, Ended, IM!Find, IM!Ended, NoEntry, IM!NoEntry
  <2> QED
    BY <2>2 DEF IM!Next
<1>5. CASE FindAbsent
  <2>1. callBar = op /\ op.op = "find" /\ UNCHANGED mapBar
    BY <1>5, <1>a DEF FindAbsent, callBar
  <2>2. IM!Find
    BY <1>5, <1>c, <1>e, <2>1 DEF FindAbsent, Ended, IM!Find, IM!Ended, NoEntry, IM!NoEntry
  <2> QED
    BY <2>2 DEF IM!Next
<1>6. CASE SetReplace
  <2>1. callBar = op /\ op.op = "set" /\ pc = "walk" /\ Found /\ heads' = heads
    BY <1>6 DEF SetReplace, callBar
  <2>2. op.offset \in DbOffsets \cup {0} /\ entries' = [entries EXCEPT ![cur].db_offset = op.offset]
    BY <1>6, <2>1 DEF SetReplace, ChainInv, TypeOK, Calls
  <2>3. mapBar' = [mapBar EXCEPT ![op.key] = op.offset]
    BY <2>1, <2>2, OffsetStep
  <2>4. IM!Set
    BY <1>6, <1>c, <2>1, <2>3 DEF SetReplace, Ended, IM!Set, IM!Ended, NoEntry, IM!NoEntry
  <2> QED
    BY <2>4 DEF IM!Next
<1>7. CASE SetAppend
  <2>1. Len(entries) <= Len(entries') /\ \A j \in 1 .. Len(entries) : entries'[j] = entries[j]
    BY <1>0, <1>7 DEF SetAppend
  <2>2. mapBar' = mapBar
    BY <1>7, <2>1, MapKept DEF SetAppend
  <2>3. UNCHANGED <<callBar, result>>
    BY <1>7 DEF SetAppend, callBar
  <2> QED
    BY <2>2, <2>3 DEF IM!vars
<1>8. CASE SetLink
  <2>1. callBar = op /\ op.op = "set"
    BY <1>8 DEF SetLink, callBar, ChainInv, TypeOK
  <2>2. mapBar' = [mapBar EXCEPT ![op.key] = op.offset]
    BY <1>8, PushStep
  <2>3. IM!Set
    BY <1>8, <1>c, <2>1, <2>2 DEF SetLink, Ended, IM!Set, IM!Ended, NoEntry, IM!NoEntry
  <2> QED
    BY <2>3 DEF IM!Next
<1>9. CASE EraseAbsent
  <2>1. callBar = op /\ op.op = "erase" /\ UNCHANGED mapBar
    BY <1>9, <1>a DEF EraseAbsent, callBar
  <2>2. IM!EraseAbsent
    BY <1>9, <1>c, <1>e, <2>1 DEF EraseAbsent, Ended, IM!EraseAbsent, IM!Ended, NoEntry, IM!NoEntry
  <2> QED
    BY <2>2 DEF IM!Next
<1>10. CASE EraseZero
  <2>1. callBar = op /\ op.op = "erase" /\ pc = "walk" /\ Found /\ heads' = heads /\ result' = result
    BY <1>10 DEF EraseZero, callBar
  <2>2. callBar' = [op |-> "unlink", key |-> op.key]
    BY <1>10 DEF EraseZero, callBar, locals
  <2>3. 0 \in DbOffsets \cup {0} /\ entries' = [entries EXCEPT ![cur].db_offset = 0]
    BY <1>10 DEF EraseZero
  <2>4. mapBar' = [mapBar EXCEPT ![op.key] = 0]
    BY <2>1, <2>3, OffsetStep
  <2>5. IM!EraseZero
    BY <1>f, <2>1, <2>2, <2>4 DEF IM!EraseZero, NoEntry, IM!NoEntry, IM!NullOffset
  <2> QED
    BY <2>5 DEF IM!Next
<1>11. CASE EraseUnlink
  <2>1. callBar.op = "unlink" /\ callBar.key = op.key
    BY <1>11 DEF EraseUnlink, callBar
  <2>2. mapBar' = [mapBar EXCEPT ![op.key] = NoEntry]
    BY <1>11, CutStep
  <2>3. IM!EraseUnlink
    BY <1>11, <1>c, <2>1, <2>2 DEF EraseUnlink, Ended, IM!EraseUnlink, IM!Ended, NoEntry, IM!NoEntry
  <2> QED
    BY <2>3 DEF IM!Next
<1>12. CASE Throw
  <2>1. IM!Throw
    BY <1>12, <1>a, <1>c, <1>d DEF Throw, Ended, IM!Throw, IM!Ended, NoEntry, IM!NoEntry
  <2> QED
    BY <2>1 DEF IM!Next
<1>13. CASE ThrowInAppend
  <2>1. Len(entries) <= Len(entries') /\ \A j \in 1 .. Len(entries) : entries'[j] = entries[j]
    BY <1>0, <1>13 DEF ThrowInAppend
  <2>2. mapBar' = mapBar
    BY <1>13, <2>1, MapKept DEF ThrowInAppend
  <2>3. IM!Throw
    BY <1>13, <1>c, <1>d, <2>2 DEF ThrowInAppend, Ended, IM!Throw, IM!Ended, NoEntry, IM!NoEntry
  <2> QED
    BY <2>3 DEF IM!Next
<1>14. CASE UNCHANGED vars
  <2>1. UNCHANGED <<mapBar, callBar, result>>
    BY <1>14, <1>a DEF vars, file, locals, callBar
  <2> QED
    BY <2>1 DEF IM!vars
<1> QED
  BY <1>1, <1>2, <1>3, <1>4, <1>5, <1>6, <1>7, <1>8, <1>9, <1>10, <1>11, <1>12, <1>13, <1>14
     DEF Next, Step

(* The Index implements the map the Database relies on: for every hash     *)
(* function, and whatever calls threw half-way, set() and erase() change   *)
(* their own key and find() returns what was last set.                     *)
THEOREM IndexImplementsIndexMap == Spec => ImplementsIndexMap
<1>1. Init => IM!Init
  <2> SUFFICES ASSUME Init PROVE IM!Init
    OBVIOUS
  <2>1. MapReads
    BY ChainInit, LinkInit, MapIsRead
  <2>2. \A b \in Buckets : IsChain(Linked(b), heads[b], entries) /\ heads[b] = 0
    BY ChainInit, LinkedChains DEF AllLinked, Init
  <2>3. \A b \in Buckets : Linked(b) = {}
    BY <2>2 DEF IsChain
  <2>4. \A k \in Keys : mapBar[k] = NoEntry
    BY <2>1, <2>3, BucketType DEF MapReads
  <2>5. mapBar = [k \in Keys |-> mapBar[k]]
    BY DEF mapBar
  <2>6. mapBar = [k \in Keys |-> IM!NoEntry]
    BY <2>4, <2>5 DEF NoEntry, IM!NoEntry
  <2> QED
    BY <2>6 DEF Init, IM!Init, callBar, NoCall, IM!NoCall, NoEntry, IM!NoEntry
<1>2. ChainInv /\ ChainInv' /\ LinkInv /\ LinkInv' /\ MapReads /\ MapReads' /\ [Next]_vars
        => [IM!Next]_(IM!vars)
  BY IndexStep
<1>3. Spec => [](ChainInv /\ LinkInv)
  BY ChainInit, ChainStep, LinkInit, LinkStep, PTL DEF Spec
<1> QED
  BY <1>1, <1>2, <1>3, MapIsRead, PTL DEF Spec, ImplementsIndexMap, IM!Spec

-----------------------------------------------------------------------------
(* What stats() counts.                                                    *)

(* Two sets of which each element of one stands for one of the other. *)
LEMMA SameSize ==
    ASSUME NEW S, NEW T, IsFiniteSet(S), NEW f \in [S -> T],
           \A x, y \in S : f[x] = f[y] => x = y,
           \A t \in T : \E x \in S : f[x] = t
    PROVE  IsFiniteSet(T) /\ Cardinality(T) = Cardinality(S)
<1>1. f \in Bijection(S, T)
  BY DEF Bijection, Injection, IsInjective, Surjection
<1> QED
  BY <1>1, FS_Bijection DEF ExistsBijection

(* The keys that a bucket's chain holds. *)
KeysOf(b) == { entries[i].key : i \in Linked(b) }

(* chain_length() counts the entries it meets, each of them once, and each *)
(* of them with a key of its own.                                          *)
LEMMA ChainCounts ==
    ASSUME ChainInv, LinkInv, NEW b \in Buckets
    PROVE  /\ chain_length(b) \in 0 .. (Len(entries) + 1)
           /\ chain_length(b) = Cardinality(KeysOf(b))
<1> DEFINE N == Len(entries)
           at == Follow(b)
           S == { n \in 0 .. N : at[n] # 0 }
           g == [n \in S |-> entries[at[n]].key]
<1>1. N \in Nat /\ heads[b] \in 0 .. N /\ Descends(entries)
  BY LinkedChains DEF AllLinked, ChainInv, TypeOK, EntryNumbers
<1>2. /\ \A n \in 0 .. N : at[n] \in 0 .. (N - n)
      /\ \A n \in 0 .. N : at[n] # 0 => n < N /\ at[n + 1] < at[n]
      /\ \A n \in 0 .. N : \A m \in n .. N : at[m] <= at[n]
  BY <1>1, FollowDescends
<1>3. Linked(b) = {at[n] : n \in 0 .. N} \ {0}
  BY DEF Linked
<1>4. chain_length(b) = Cardinality(S)
  BY DEF chain_length
<1> HIDE DEF at, N
<1>5. IsFiniteSet(S) /\ Cardinality(S) \in Nat /\ Cardinality(S) <= N + 1
  <2>1. IsFiniteSet(0 .. N) /\ Cardinality(0 .. N) = N + 1
    BY <1>1, FS_Interval
  <2>2. S \in SUBSET (0 .. N)
    OBVIOUS
  <2> HIDE DEF S
  <2> QED
    BY <2>1, <2>2, FS_Subset, FS_CardinalityType
<1>6. ASSUME NEW n \in S, NEW m \in S, n < m PROVE at[n] # at[m]
  <2>1. n + 1 \in 0 .. N /\ m \in (n + 1) .. N
    BY <1>1, <1>6
  <2>2. at[n + 1] < at[n] /\ at[m] <= at[n + 1]
    BY <1>2, <2>1
  <2>3. at[n] \in Int /\ at[m] \in Int /\ at[n + 1] \in Int
    BY <1>1, <1>2, <2>1
  <2> QED
    BY <2>2, <2>3
<1>7. \A n, m \in S : at[n] = at[m] => n = m
  <2> SUFFICES ASSUME NEW n \in S, NEW m \in S, n # m PROVE at[n] # at[m]
    OBVIOUS
  <2>1. n < m \/ m < n
    BY <1>1
  <2> QED
    BY <1>6, <2>1
<1>8. \A n \in S : at[n] \in Linked(b)
  BY <1>3
<1>9. \A n, m \in S : g[n] = g[m] => n = m
  BY <1>7, <1>8 DEF LinkInv, KeysAreLinkedOnce
<1>10. g \in [S -> KeysOf(b)]
  BY <1>8 DEF KeysOf
<1>11. \A k \in KeysOf(b) : \E n \in S : g[n] = k
  <2> SUFFICES ASSUME NEW i \in Linked(b) PROVE \E n \in S : g[n] = entries[i].key
    BY DEF KeysOf
  <2>1. PICK n \in 0 .. N : i = at[n] /\ at[n] # 0
    BY <1>3
  <2> QED
    BY <2>1
<1> HIDE DEF S, g
<1>12. Cardinality(KeysOf(b)) = Cardinality(S)
  BY <1>5, <1>9, <1>10, <1>11, SameSize
<1> QED
  BY <1>1, <1>4, <1>5, <1>12 DEF N

(* max_chain_length is the length of a longest chain. *)
LEMMA LongestChain ==
    ASSUME ChainInv, LinkInv
    PROVE  /\ \A b \in Buckets : chain_length(b) <= stats.max_chain_length
           /\ \E b \in Buckets : chain_length(b) = stats.max_chain_length
<1> DEFINE n == Len(entries) + 1
           T == { chain_length(b) : b \in Buckets }
           Longest(m) == /\ \A b \in Buckets : chain_length(b) <= m
                         /\ m = 0 \/ \E b \in Buckets : chain_length(b) = m
<1>1. n \in Nat
  BY DEF ChainInv, TypeOK
<1>2. \A b \in Buckets : chain_length(b) \in 0 .. n
  BY ChainCounts
<1>3. 0 \in Buckets
  BY HashIndexAssumption DEF Buckets
<1>4. T \subseteq 0 .. n /\ T # {}
  BY <1>2, <1>3
<1> HIDE DEF n
<1>5. \E m \in 0 .. n : Longest(m)
  <2> HIDE DEF T
  <2>1. PICK m \in T : \A y \in T : y <= m
    BY <1>1, <1>4, GreatestElement
  <2> USE DEF T
  <2> QED
    BY <1>4, <2>1
<1>6. stats.max_chain_length = CHOOSE m \in 0 .. n : Longest(m)
  BY DEF stats, n
<1> DEFINE m == stats.max_chain_length
<1>7. m \in 0 .. n /\ Longest(m)
  BY <1>5, <1>6
<1>8. CASE m = 0
  <2>1. chain_length(0) <= 0 /\ chain_length(0) \in 0 .. n
    BY <1>2, <1>3, <1>7, <1>8
  <2>2. chain_length(0) = 0
    BY <1>1, <2>1
  <2> QED
    BY <1>3, <1>7, <1>8, <2>2
<1>9. CASE m # 0
  BY <1>7, <1>9
<1> QED
  BY <1>8, <1>9

(* empty() and stats() agree with the map: an index counts as empty just   *)
(* when it has no key, and the chain statistics count keys, also while a   *)
(* call is half done and after calls that threw.                           *)
THEOREM StatsAlwaysCountKeys == Spec => []StatsCountKeys
<1>1. ASSUME ChainInv, LinkInv PROVE StatsCountKeys
  <2> DEFINE present == { k \in Keys : mapBar[k] # NoEntry }
             inBucket(b) == { k \in present : BucketOf(k) = b }
  <2>1. MapReads
    BY <1>1, MapIsRead
  <2>2. \A b \in Buckets : IsChain(Linked(b), heads[b], entries)
    BY <1>1, LinkedChains DEF AllLinked
  <2>3. ASSUME NEW b \in Buckets PROVE inBucket(b) = KeysOf(b)
    <3>1. ASSUME NEW i \in Linked(b) PROVE entries[i].key \in inBucket(b)
      <4>1. i \in 1 .. Len(entries) /\ BucketOf(entries[i].key) = b
        BY <1>1, LinkedKeys
      <4>2. entries \in Seq(Entries)
        BY <1>1 DEF ChainInv, TypeOK
      <4>3. entries[i].key \in Keys /\ entries[i].db_offset \in DbOffsets \cup {0}
        BY ONLY <4>1, <4>2, EntryFields
      <4>4. mapBar[entries[i].key] = entries[i].db_offset
        BY <2>1, <4>1, <4>3 DEF MapReads
      <4>5. NoEntry \notin DbOffsets \cup {0}
        <5>1. DbOffsets \subseteq Nat
          BY HashIndexAssumption, Zenon
        <5> QED
          BY ONLY <5>1 DEF NoEntry
      <4>6. mapBar[entries[i].key] # NoEntry
        BY ONLY <4>3, <4>4, <4>5, Zenon
      <4> QED
        BY <4>1, <4>3, <4>6
    <3>2. ASSUME NEW k \in inBucket(b) PROVE \E i \in Linked(b) : entries[i].key = k
      BY <2>1 DEF MapReads
    <3> QED
      BY <3>1, <3>2 DEF KeysOf
  <2>4. \A b \in Buckets : heads[b] = 0 <=> Linked(b) = {}
    BY <2>2 DEF IsChain
  <2>5. \A b \in Buckets : heads[b] = 0 <=> inBucket(b) = {}
    BY <2>3, <2>4 DEF KeysOf
  <2>6. empty <=> present = {}
    <3>1. \A k \in present : BucketOf(k) \in Buckets /\ k \in inBucket(BucketOf(k))
      BY BucketType
    <3> QED
      BY <2>5, <3>1 DEF empty
  <2>7. stats.non_empty_buckets = Cardinality({ b \in Buckets : inBucket(b) # {} })
    <3>1. { b \in Buckets : heads[b] # 0 } = { b \in Buckets : inBucket(b) # {} }
      BY <2>5
    <3>2. stats.non_empty_buckets = Cardinality({ b \in Buckets : heads[b] # 0 })
      BY DEF stats
    <3> HIDE DEF inBucket
    <3> QED
      BY <3>1, <3>2
  <2>8. \A b \in Buckets : chain_length(b) = Cardinality(inBucket(b))
    BY <1>1, <2>3, ChainCounts
  <2>9. \A b \in Buckets : Cardinality(inBucket(b)) <= stats.max_chain_length
    BY <1>1, <2>8, LongestChain
  <2>10. \E b \in Buckets : Cardinality(inBucket(b)) = stats.max_chain_length
    BY <1>1, <2>8, LongestChain
  <2> QED
    BY <2>6, <2>7, <2>8, <2>9, <2>10 DEF StatsCountKeys
<1>2. ChainInv /\ LinkInv => StatsCountKeys
  BY <1>1
<1> QED
  BY <1>2, ChainInit, ChainStep, LinkInit, LinkStep, PTL DEF Spec
=============================================================================
