-------------------------- MODULE TemporaryLocation --------------------------
(***************************************************************************)
(* Directories with random names: make_temporary_index_location() of       *)
(* src/database.cpp with the staging index that rebuild_index_impl() puts  *)
(* there, and TemporaryDirectory of apps/matrix/utils.cpp.  Several        *)
(* processes look for names in the same parent directory, among entries    *)
(* they did not make and the leftovers of processes that were killed.      *)
(***************************************************************************)
EXTENDS Naturals

CONSTANTS
    Rebuilds,     \* runs of rebuild_index_impl()
    Tests,        \* runs of a crash test
    Names,        \* the names that random tokens can give
    MaxAttempts,  \* tokens tried before the search gives up (100)
    Nobody,       \* no entry of that name
    Foreign       \* an entry that no run made

Users == Rebuilds \cup Tests

ASSUME TemporaryLocationAssumption ==
    /\ MaxAttempts \in Nat
    /\ Nobody # Foreign
    /\ {Nobody, Foreign} \cap Users = {}
    /\ Nobody \notin Names

VARIABLES
    owner,    \* who made the entry of that name
    full,     \* the entry holds a staging index
    pc,       \* where each run is
    attempt,  \* failed attempts of the search
    dir,      \* the path that was returned
    excused   \* history: names a killed run, or a failed removal, left behind

vars == <<owner, full, pc, attempt, dir, excused>>

PCs == {"start", "search", "use", "installed", "tidy", "cleanup", "ended", "killed"}
Working == {"use", "installed", "tidy", "cleanup"}

-----------------------------------------------------------------------------
Begin(u) ==
    /\ pc[u] = "start"
    /\ pc' = [pc EXCEPT ![u] = "search"]
    /\ UNCHANGED <<owner, full, attempt, dir, excused>>

(* create_directory() made the entry: it is a test and a set in one. *)
Create(u, n) ==
    /\ pc[u] = "search"
    /\ attempt[u] < MaxAttempts
    /\ owner[n] = Nobody
    /\ owner' = [owner EXCEPT ![n] = u]
    /\ dir' = [dir EXCEPT ![u] = n]
    /\ pc' = [pc EXCEPT ![u] = "use"]
    /\ UNCHANGED <<full, attempt, excused>>

(* Mutant: create_directory() without an error counts as a success.        *)
Collide_accepted(u, n) ==
    /\ pc[u] = "search"
    /\ attempt[u] < MaxAttempts
    /\ owner[n] # Nobody
    /\ dir' = [dir EXCEPT ![u] = n]
    /\ pc' = [pc EXCEPT ![u] = "use"]
    /\ UNCHANGED <<owner, full, attempt, excused>>

(* Mutant: a collision does not count as an attempt. *)
Collide_uncounted(u, n) ==
    /\ pc[u] = "search"
    /\ attempt[u] < MaxAttempts
    /\ owner[n] # Nobody
    /\ UNCHANGED vars

(* The name is taken, by a directory (false without an error) or by a file *)
(* (file_exists): try another.                                             *)
Collide(u, n) ==
    /\ pc[u] = "search"
    /\ attempt[u] < MaxAttempts
    /\ owner[n] # Nobody
    /\ attempt' = [attempt EXCEPT ![u] = @ + 1]
    /\ UNCHANGED <<owner, full, pc, dir, excused>>

GiveUp(u) ==
    /\ pc[u] = "search"
    /\ attempt[u] = MaxAttempts
    /\ pc' = [pc EXCEPT ![u] = "ended"]
    /\ UNCHANGED <<owner, full, attempt, dir, excused>>

(* Any error but file_exists. *)
CreateThrows(u) ==
    /\ pc[u] = "search"
    /\ attempt[u] < MaxAttempts
    /\ pc' = [pc EXCEPT ![u] = "ended"]
    /\ UNCHANGED <<owner, full, attempt, dir, excused>>

-----------------------------------------------------------------------------
(* The staging index is built, ... *)
Build(u) ==
    /\ u \in Rebuilds
    /\ pc[u] = "use"
    /\ ~full[dir[u]]
    /\ full' = [full EXCEPT ![dir[u]] = TRUE]
    /\ UNCHANGED <<owner, pc, attempt, dir, excused>>

(* Mutant: the index is copied to its place. *)
Install_copies(u) ==
    /\ pc[u] = "use"
    /\ full[dir[u]]
    /\ pc' = [pc EXCEPT ![u] = "installed"]
    /\ UNCHANGED <<owner, full, attempt, dir, excused>>

(* ... renamed, ... *)
Install(u) ==
    /\ pc[u] = "use"
    /\ full[dir[u]]
    /\ full' = [full EXCEPT ![dir[u]] = FALSE]
    /\ pc' = [pc EXCEPT ![u] = "installed"]
    /\ UNCHANGED <<owner, attempt, dir, excused>>

(* ... and loaded.  A crash test just ends. *)
Finish(u) ==
    /\ \/ pc[u] = "installed" /\ pc' = [pc EXCEPT ![u] = "tidy"]
       \/ u \in Tests /\ pc[u] = "use" /\ pc' = [pc EXCEPT ![u] = "cleanup"]
    /\ UNCHANGED <<owner, full, attempt, dir, excused>>

(* A corrupt log, a failed write, rename or load: the catch block. *)
Fail(u) ==
    /\ pc[u] \in {"use", "installed"}
    /\ pc' = [pc EXCEPT ![u] = "cleanup"]
    /\ UNCHANGED <<owner, full, attempt, dir, excused>>

(* remove() takes away an empty directory only, and its error is ignored. *)
Remove(u) ==
    /\ pc[u] = "tidy"
    /\ owner' = IF full[dir[u]] THEN owner ELSE [owner EXCEPT ![dir[u]] = Nobody]
    /\ pc' = [pc EXCEPT ![u] = "ended"]
    /\ UNCHANGED <<full, attempt, dir, excused>>

(* remove_all(), in the catch block or in ~TemporaryDirectory(). *)
RemoveAll(u) ==
    /\ pc[u] = "cleanup"
    /\ owner' = [owner EXCEPT ![dir[u]] = Nobody]
    /\ full' = [full EXCEPT ![dir[u]] = FALSE]
    /\ pc' = [pc EXCEPT ![u] = "ended"]
    /\ UNCHANGED <<attempt, dir, excused>>

(* The file system refuses the removal; the error is ignored. *)
RemovalFails(u) ==
    /\ pc[u] \in {"tidy", "cleanup"}
    /\ pc' = [pc EXCEPT ![u] = "ended"]
    /\ excused' = excused \cup {dir[u]}
    /\ UNCHANGED <<owner, full, attempt, dir>>

Kill(u) ==
    /\ pc[u] \in {"search"} \cup Working
    /\ pc' = [pc EXCEPT ![u] = "killed"]
    /\ excused' = IF pc[u] \in Working THEN excused \cup {dir[u]} ELSE excused
    /\ UNCHANGED <<owner, full, attempt, dir>>

-----------------------------------------------------------------------------
Init ==
    /\ owner \in [Names -> {Nobody, Foreign}]
    /\ full = [n \in Names |-> FALSE]
    /\ pc = [u \in Users |-> "start"]
    /\ attempt = [u \in Users |-> 0]
    /\ dir = [u \in Users |-> Nobody]
    /\ excused = {}

Proceed(u) ==
    \/ \E n \in Names : Create(u, n) \/ Collide(u, n)
    \/ GiveUp(u) \/ Build(u) \/ Install(u) \/ Finish(u) \/ Remove(u) \/ RemoveAll(u)

Terminated == (\A u \in Users : pc[u] \in {"ended", "killed"}) /\ UNCHANGED vars

Next ==
    \/ \E u \in Users : Begin(u) \/ Proceed(u) \/ CreateThrows(u) \/ Fail(u) \/ RemovalFails(u) \/ Kill(u)
    \/ Terminated

(* A run that began is executed; nothing makes it fail. *)
Spec == Init /\ [][Next]_vars /\ \A u \in Users : WF_vars(Proceed(u))

-----------------------------------------------------------------------------
(* The shape of the variables. *)
TypeOK ==
    /\ owner \in [Names -> Users \cup {Nobody, Foreign}]
    /\ full \in [Names -> BOOLEAN]
    /\ pc \in [Users -> PCs]
    /\ attempt \in [Users -> 0 .. MaxAttempts]
    /\ dir \in [Users -> Names \cup {Nobody}]
    /\ excused \subseteq Names

(* A run that works in a directory made it. *)
WorkersOwn == \A u \in Users : pc[u] \in Working => dir[u] \in Names /\ owner[dir[u]] = u

(* Two runs never work in the same directory, so neither installs the      *)
(* other's staging index nor removes it: names can collide, with           *)
(* directories that are in use, left over or foreign.                      *)
Exclusive ==
    \A u, v \in Users : u # v /\ pc[u] \in Working /\ pc[v] \in Working => dir[u] # dir[v]

(* What no run made is neither written to nor removed. *)
ForeignIsUntouched == [][\A n \in Names : owner[n] = Foreign => owner'[n] = Foreign /\ full'[n] = full[n]]_vars

(* A directory is left behind only by a run that was killed or whose       *)
(* removal the file system refused: every way out of the rebuild, with or  *)
(* without an exception, removes it, although a directory that is not      *)
(* empty would survive the remove() of the success path unnoticed.         *)
LeftoversAreExcused ==
    \A n \in Names :
        owner[n] \in Users => n \in excused \/ (pc[owner[n]] \in Working /\ dir[owner[n]] = n)

(* The search for a name ends, even among leftovers that take every name. *)
SearchEnds == \A u \in Users : pc[u] = "search" ~> pc[u] # "search"

(* What the induction needs: the staging index of a live rebuild is in its *)
(* directory only until the rename.                                        *)
StagingInv ==
    /\ TypeOK
    /\ WorkersOwn
    /\ LeftoversAreExcused
    /\ \A n \in Names : owner[n] \in {Nobody, Foreign} => ~full[n]
    /\ \A u \in Users : pc[u] \in {"installed", "tidy"} => ~full[dir[u]]
=============================================================================
