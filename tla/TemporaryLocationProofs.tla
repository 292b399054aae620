----------------------- MODULE TemporaryLocationProofs -----------------------
(***************************************************************************)
(* Proofs about TemporaryLocation, for any number of runs, names and       *)
(* attempts.  StagingInv is inductive as it stands.                        *)
(***************************************************************************)
EXTENDS TemporaryLocation, TLAPS

LEMMA StagingInit == Init => StagingInv
BY TemporaryLocationAssumption
   DEF Init, StagingInv, TypeOK, WorkersOwn, LeftoversAreExcused, Users, PCs, Working

LEMMA StagingStep == StagingInv /\ [Next]_vars => StagingInv'
<1> SUFFICES ASSUME StagingInv, [Next]_vars PROVE StagingInv'
  OBVIOUS
<1> USE TemporaryLocationAssumption
<1>1. ASSUME NEW u \in Users, NEW n \in Names, Create(u, n) PROVE StagingInv'
  BY <1>1 DEF StagingInv, TypeOK, WorkersOwn, LeftoversAreExcused, PCs, Working, Create
<1>2. ASSUME NEW u \in Users, NEW n \in Names, Collide(u, n) PROVE StagingInv'
  BY <1>2 DEF StagingInv, TypeOK, WorkersOwn, LeftoversAreExcused, PCs, Working, Collide
<1>3. ASSUME NEW u \in Users, Begin(u) \/ GiveUp(u) \/ CreateThrows(u) PROVE StagingInv'
  BY <1>3 DEF StagingInv, TypeOK, WorkersOwn, LeftoversAreExcused, PCs, Working,
              Begin, GiveUp, CreateThrows
<1>4. ASSUME NEW u \in Users, Build(u) \/ Install(u) PROVE StagingInv'
  <2>1. dir[u] \in Names /\ owner[dir[u]] = u /\ pc[u] = "use"
    BY <1>4 DEF StagingInv, WorkersOwn, Working, Build, Install
  <2>2. /\ UNCHANGED <<owner, attempt, dir, excused>>
        /\ pc' = pc \/ pc' = [pc EXCEPT ![u] = "installed"]
    BY <1>4 DEF Build, Install
  \* Only the run's own directory is filled or emptied.
  <2>3. PICK f \in BOOLEAN : full' = [full EXCEPT ![dir[u]] = f]
    BY <1>4 DEF Build, Install
  <2>4. full' \in [Names -> BOOLEAN]
    BY <2>1, <2>3 DEF StagingInv, TypeOK
  <2>5. pc' \in [Users -> PCs]
    BY <2>2 DEF StagingInv, TypeOK, PCs
  <2>6. TypeOK'
    BY <2>2, <2>4, <2>5 DEF StagingInv, TypeOK
  <2>7. WorkersOwn'
    BY <2>1, <2>2 DEF StagingInv, TypeOK, WorkersOwn, Working
  <2>8. LeftoversAreExcused'
    BY <2>1, <2>2 DEF StagingInv, TypeOK, LeftoversAreExcused, Working
  <2>9. \A n \in Names : owner'[n] \in {Nobody, Foreign} => ~full'[n]
    BY <2>1, <2>2, <2>3 DEF StagingInv, TypeOK
  <2>10. \A v \in Users : pc'[v] \in {"installed", "tidy"} => ~full'[dir'[v]]
    <3>1. CASE Build(u)
      BY <2>1, <3>1 DEF StagingInv, TypeOK, WorkersOwn, Working, Build
    <3>2. CASE Install(u)
      BY <2>1, <3>2 DEF StagingInv, TypeOK, WorkersOwn, Working, Install
    <3> QED
      BY <1>4, <3>1, <3>2
  <2> QED
    BY <2>6, <2>7, <2>8, <2>9, <2>10 DEF StagingInv
<1>5. ASSUME NEW u \in Users, Finish(u) \/ Fail(u) PROVE StagingInv'
  BY <1>5 DEF StagingInv, TypeOK, WorkersOwn, LeftoversAreExcused, PCs, Working, Finish, Fail
<1>6. ASSUME NEW u \in Users, Remove(u) \/ RemoveAll(u) PROVE StagingInv'
  \* The directory that goes is the run's own, and it is empty or emptied.
  <2>1. /\ dir[u] \in Names /\ owner[dir[u]] = u
        /\ Remove(u) => ~full[dir[u]]
    BY <1>6 DEF StagingInv, WorkersOwn, Working, Remove, RemoveAll
  <2>2. /\ owner' = [owner EXCEPT ![dir[u]] = Nobody]
        /\ pc' = [pc EXCEPT ![u] = "ended"]
        /\ UNCHANGED <<attempt, dir, excused>>
        /\ full' = full \/ full' = [full EXCEPT ![dir[u]] = FALSE]
        /\ ~full'[dir[u]]
    BY <1>6, <2>1 DEF StagingInv, TypeOK, Remove, RemoveAll
  <2>3. TypeOK'
    BY <2>1, <2>2 DEF StagingInv, TypeOK, PCs
  <2>4. WorkersOwn'
    BY <2>1, <2>2 DEF StagingInv, TypeOK, WorkersOwn, Working
  <2>5. LeftoversAreExcused'
    BY <2>1, <2>2 DEF StagingInv, TypeOK, LeftoversAreExcused, Working
  <2>6. /\ \A n \in Names : owner'[n] \in {Nobody, Foreign} => ~full'[n]
        /\ \A v \in Users : pc'[v] \in {"installed", "tidy"} => ~full'[dir'[v]]
    BY <2>1, <2>2 DEF StagingInv, TypeOK, WorkersOwn, Working
  <2> QED
    BY <2>3, <2>4, <2>5, <2>6 DEF StagingInv
<1>7. ASSUME NEW u \in Users, RemovalFails(u) \/ Kill(u) PROVE StagingInv'
  BY <1>7 DEF StagingInv, TypeOK, WorkersOwn, LeftoversAreExcused, PCs, Working, RemovalFails, Kill
<1>8. CASE UNCHANGED vars
  BY <1>8 DEF StagingInv, TypeOK, WorkersOwn, LeftoversAreExcused, vars
<1> QED
  BY <1>1, <1>2, <1>3, <1>4, <1>5, <1>6, <1>7, <1>8 DEF Next, Proceed, Terminated

(* The inductive invariant holds in every reachable state. *)
THEOREM StagingIsInvariant == Spec => []StagingInv
BY StagingInit, StagingStep, PTL DEF Spec

(* No two runs ever work in the same directory. *)
THEOREM StagingIsExclusive == Spec => []Exclusive
<1>1. StagingInv => Exclusive
  BY TemporaryLocationAssumption DEF StagingInv, WorkersOwn, Exclusive
<1> QED
  BY <1>1, StagingIsInvariant, PTL

(* Only a kill, or a removal the file system refused, leaves a directory   *)
(* behind.                                                                 *)
THEOREM NoSilentLeftovers == Spec => []LeftoversAreExcused
<1>1. StagingInv => LeftoversAreExcused
  BY DEF StagingInv
<1> QED
  BY <1>1, StagingIsInvariant, PTL

(* An entry that no run made stays as it is. *)
THEOREM ForeignEntriesStay == Spec => ForeignIsUntouched
<1>1. StagingInv /\ [Next]_vars
        => [\A n \in Names : owner[n] = Foreign => owner'[n] = Foreign /\ full'[n] = full[n]]_vars
  BY TemporaryLocationAssumption
     DEF StagingInv, TypeOK, WorkersOwn, Working, Next, Proceed, Terminated, vars, Begin, Create, Collide,
         GiveUp, CreateThrows, Build, Install, Finish, Fail, Remove, RemoveAll, RemovalFails, Kill
<1> QED
  BY <1>1, StagingIsInvariant, PTL DEF Spec, ForeignIsUntouched
=============================================================================
