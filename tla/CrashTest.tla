----------------------------- MODULE CrashTest -----------------------------
(***************************************************************************)
(* matrix crash-test (apps/matrix/crash_tests.cpp, with ChildProcess and   *)
(* TemporaryDirectory of apps/matrix/utils.cpp): a parent prepares a       *)
(* database, forks the zidane worker with ZIDANEDB_FAILPOINT set, waits    *)
(* until the worker stops itself at the failpoint (src/failpoints.h),      *)
(* kills and reaps it, opens the database again and compares the recovery  *)
(* report and the contents with what it expects.                           *)
(*                                                                         *)
(* Parent and worker use the database one after the other, so both drive   *)
(* the variables of Database; SoleUser says that they may.  The worker is  *)
(* a run of CommandLine.  Signals from outside, a failing fork, exec or    *)
(* waitpid and, with IOFaults, failing file operations can happen anywhere.*)
(***************************************************************************)
EXTENDS CommandLine

VARIABLES
    failpoint,  \* argument of the test
    tpc,        \* where run_crash_test() is
    script,     \* puts of the initial session still to be made
    child,      \* the worker, as waitpid sees it
    killSent,   \* SIGKILL is on its way to the worker
    reached,    \* reached_failpoint
    verdict,    \* what run_crash_test() returns
    disturbed   \* history: a file operation failed or the worker was hit from outside

harness == <<failpoint, tpc, script, child, killSent, reached, verdict, disturbed>>
testVars == <<cliVars, harness>>

ASSUME CrashTestAssumption ==
    /\ {"team", "player"} \subseteq Keys \ TooLargeKeys
    /\ {"madrid", "benzema", "bellingham"} \subseteq Values \ TooLargeValues
    /\ MaxLog >= 3

Failpoints ==
    {"before_db_append", "after_db_append", "after_modify_existing_entry",
     "before_update_bucket_head", "after_update_bucket_head",
     "before_update_indexed_up_to_offset", "after_update_indexed_up_to_offset",
     "before_set_index_clean", "clean_db_close"}

Alive == {"forked", "running", "SIGSTOP", "SIGTSTP"}
Ended == {"exited", "killed"}

(* Mutant: every scenario starts from the same database. *)
InitialPuts_same == << [key |-> "team", value |-> "madrid"] >>

(* The replacement failpoint needs the key to be there already. *)
InitialPuts ==
    << [key |-> "team", value |-> "madrid"] >>
      \o IF failpoint = "after_modify_existing_entry"
         THEN << [key |-> "player", value |-> "benzema"] >> ELSE <<>>

Worker == [op |-> "put", key |-> "player", value |-> "bellingham"]

-----------------------------------------------------------------------------
(* The initial session.                                                    *)

MakeWorkspace ==
    /\ tpc = "start"
    /\ Open
    /\ script' = InitialPuts
    /\ tpc' = "init"
    /\ UNCHANGED <<cli, failpoint, child, killSent, reached, verdict, disturbed>>

InitPut ==
    /\ tpc = "init"
    /\ script # <<>>
    /\ resp = "ok"
    /\ PutStart(Head(script).key, Head(script).value)
    /\ script' = Tail(script)
    /\ UNCHANGED <<cli, failpoint, tpc, child, killSent, reached, verdict, disturbed>>

(* The end of the block: the destructor swallows what close() throws. *)
InitDone ==
    /\ tpc = "init"
    /\ script = <<>>
    /\ resp = "ok"
    /\ CloseStart("dtor") \/ DestroyUnclean
    /\ tpc' = "fork"
    /\ UNCHANGED <<cli, failpoint, script, child, killSent, reached, verdict, disturbed>>

(* A failing test: destructors run on the way out. *)
Fail(next) ==
    /\ verdict' = "1"
    /\ tpc' = next

(* An exception of the initial session or of the reopen reaches main() of  *)
(* matrix, which returns 1; an open Database object is destroyed first.    *)
TestThrew ==
    /\ tpc \in {"init", "verify"}
    /\ resp = "throw"
    /\ \/ pc = "none" /\ UNCHANGED vars
       \/ CloseStart("dtor") \/ DestroyUnclean
    /\ Fail("remove")
    /\ UNCHANGED <<cli, failpoint, script, child, killSent, reached, disturbed>>

-----------------------------------------------------------------------------
(* The worker.                                                             *)

Fork ==
    /\ tpc = "fork"
    /\ pc = "none"
    /\ child' = "forked"
    /\ tpc' = "poll"
    /\ UNCHANGED <<cliVars, failpoint, script, killSent, reached, verdict, disturbed>>

ForkFails ==
    /\ tpc = "fork"
    /\ pc = "none"
    /\ Fail("remove")
    /\ disturbed' = TRUE
    /\ UNCHANGED <<cliVars, failpoint, script, child, killSent, reached>>

Exec ==
    /\ child = "forked"
    /\ Launch(Worker)
    /\ child' = "running"
    /\ UNCHANGED <<failpoint, tpc, script, killSent, reached, verdict, disturbed>>

ExecFails ==
    /\ child = "forked"
    /\ child' = "exited"
    /\ disturbed' = TRUE
    /\ UNCHANGED <<cliVars, failpoint, tpc, script, killSent, reached, verdict>>

(* The failpoints that the worker's next step runs into.  Those inside     *)
(* Index::set come before its last flush(): the new bucket head, or the    *)
(* replaced offset, is still in the buffer of the stream, so that for      *)
(* everyone who looks up the key the step's write does not happen.         *)
FailpointsBefore ==
    IF pc # "put_index" THEN {}
    ELSE IF idx[rec.key] = NoEntry THEN {"before_update_bucket_head", "after_update_bucket_head"}
    ELSE {"after_modify_existing_entry"}

FailpointsAfter ==
    CASE pc = "idle" /\ stage = "open" -> {"before_db_append"}
      [] pc = "put_append" -> {"after_db_append"}
      [] pc = "put_index" -> {"before_update_indexed_up_to_offset"}
      [] pc = "put_checkpoint" -> {"after_update_indexed_up_to_offset"}
      [] pc = "idle" /\ stage = "leave" /\ FileSize = cachedUpTo -> {"before_set_index_clean"}
      [] pc = "close_mark" -> {"clean_db_close"}
      [] OTHER -> {}

(* failpoint(): the worker raises SIGSTOP before this step ... *)
StopInside ==
    /\ child = "running"
    /\ failpoint \in FailpointsBefore
    /\ child' = "SIGSTOP"
    /\ UNCHANGED <<cliVars, failpoint, tpc, script, killSent, reached, verdict, disturbed>>

(* ... or after it. *)
WorkerStep ==
    /\ child = "running"
    /\ failpoint \notin FailpointsBefore
    /\ run_put \/ Returned \/ Leave \/ (Step /\ UNCHANGED cli)
    /\ child' = IF failpoint \in FailpointsAfter THEN "SIGSTOP" ELSE "running"
    /\ UNCHANGED <<failpoint, tpc, script, killSent, reached, verdict, disturbed>>

WorkerEnds ==
    /\ child = "running"
    /\ OpenThrew \/ Exit
    /\ child' = "exited"
    /\ UNCHANGED <<failpoint, tpc, script, killSent, reached, verdict, disturbed>>

(* Someone stops the worker (a SIGSTOP from outside, which the parent      *)
(* cannot tell from the failpoint's, is left out) or kills it; or the      *)
(* parent's SIGKILL arrives.  A worker that waits at its failpoint is not  *)
(* in the middle of a write.                                               *)
StoppedFromOutside ==
    /\ child = "running"
    /\ child' = "SIGTSTP"
    /\ disturbed' = TRUE
    /\ UNCHANGED <<cliVars, failpoint, tpc, script, killSent, reached, verdict>>

WorkerDies(hit) ==
    /\ child \in Alive
    /\ child' = "killed"
    /\ child = "SIGSTOP" => log' = log
    /\ \/ stage # "shell" /\ pc # "none" /\ ProcessKilled
       \/ /\ pc = "none"
          /\ stage' = "shell"
          /\ UNCHANGED <<vars, command, code>>
    /\ disturbed' = (disturbed \/ hit)
    /\ UNCHANGED <<failpoint, tpc, script, killSent, reached, verdict>>

KilledFromOutside == WorkerDies(TRUE)
KilledByParent == killSent /\ WorkerDies(FALSE)

-----------------------------------------------------------------------------
(* wait_for_state(): waitpid(WUNTRACED | WNOHANG), then a look at the      *)
(* clock; what the worker does in between is seen only by the next poll.   *)

PollNothing ==
    /\ tpc = "poll"
    /\ child \in {"forked", "running"}
    /\ tpc' = "deadline"
    /\ UNCHANGED <<cliVars, failpoint, script, child, killSent, reached, verdict, disturbed>>

DeadlineAhead ==
    /\ tpc = "deadline"
    /\ tpc' = "poll"
    /\ UNCHANGED <<cliVars, failpoint, script, child, killSent, reached, verdict, disturbed>>

(* Mutant: a timeout returns at once. *)
DeadlinePassed_leaves ==
    /\ tpc = "deadline"
    /\ Fail("remove")
    /\ UNCHANGED <<cliVars, failpoint, script, child, killSent, reached, disturbed>>

(* Timed out: kill_and_reap() and return 1. *)
DeadlinePassed ==
    /\ tpc = "deadline"
    /\ Fail("kill_late")
    /\ UNCHANGED <<cliVars, failpoint, script, child, killSent, reached, disturbed>>

PollError ==
    /\ tpc = "poll"
    /\ disturbed' = TRUE
    /\ Fail("kill_left")
    /\ UNCHANGED <<cliVars, failpoint, script, child, killSent, reached>>

PollFailpoint ==
    /\ tpc = "poll"
    /\ child = "SIGSTOP"
    /\ tpc' = "kill_stopped"
    /\ UNCHANGED <<cliVars, failpoint, script, child, killSent, reached, verdict, disturbed>>

(* Stopped by another signal: return 1, ~ChildProcess cleans up. *)
PollOtherStop ==
    /\ tpc = "poll"
    /\ child = "SIGTSTP"
    /\ Fail("kill_left")
    /\ UNCHANGED <<cliVars, failpoint, script, child, killSent, reached, disturbed>>

(* Exited or killed, and reaped by this very call: no failpoint reached. *)
PollEnded ==
    /\ tpc = "poll"
    /\ child \in Ended
    /\ child' = "reaped"
    /\ Fail("remove")
    /\ UNCHANGED <<cliVars, failpoint, script, killSent, reached, disturbed>>

-----------------------------------------------------------------------------
(* kill_and_reap() after a stop and after a timeout, and cleanup() from    *)
(* the destructor: SIGKILL, then waitpid until the worker is gone.         *)

(* Mutant: the parent waits for the worker without killing it. *)
SendKill_waits(from, to) ==
    /\ tpc = from
    /\ tpc' = to
    /\ UNCHANGED <<cliVars, failpoint, script, child, killSent, reached, verdict, disturbed>>

SendKill(from, to) ==
    /\ tpc = from
    /\ killSent' = TRUE
    /\ tpc' = to
    /\ UNCHANGED <<cliVars, failpoint, script, child, reached, verdict, disturbed>>

(* kill_and_reap() is true if SIGKILL is what ended the worker. *)
ReapStopped ==
    /\ tpc = "reap_stopped"
    /\ child \in Ended
    /\ child' = "reaped"
    /\ reached' = (child = "killed")
    /\ IF child = "killed" THEN tpc' = "reopen" /\ UNCHANGED verdict ELSE Fail("remove")
    /\ UNCHANGED <<cliVars, failpoint, script, killSent, disturbed>>

ReapAfterFailure ==
    /\ tpc = "reap_failed"
    /\ child \in Ended
    /\ child' = "reaped"
    /\ tpc' = "remove"
    /\ UNCHANGED <<cliVars, failpoint, script, killSent, reached, verdict, disturbed>>

-----------------------------------------------------------------------------
(* The reopen, the comparison, and the removal of the directory.           *)

Reopen ==
    /\ tpc = "reopen"
    /\ Open
    /\ tpc' = "verify"
    /\ UNCHANGED <<cli, failpoint, script, child, killSent, reached, verdict, disturbed>>

ExpectedReport ==
    IF failpoint = "clean_db_close" THEN NoReport
    ELSE [reason |-> "unclean_index", action |-> "full_index_rebuild", truncated |-> 0]

ExpectedPlayer == IF failpoint = "before_db_append" THEN Absent ELSE "bellingham"

Verify ==
    /\ tpc = "verify"
    /\ resp = "ok"
    /\ verdict' = IF /\ report = ExpectedReport
                     /\ get("team") = "madrid"
                     /\ get("player") = ExpectedPlayer
                  THEN "0" ELSE "1"
    /\ CloseStart("dtor") \/ DestroyUnclean
    /\ tpc' = "remove"
    /\ UNCHANGED <<cli, failpoint, script, child, killSent, reached, disturbed>>

(* ~TemporaryDirectory. *)
RemoveWorkspace ==
    /\ tpc = "remove"
    /\ pc = "none"
    /\ tpc' = "done"
    /\ dbFile' = "missing" /\ log' = <<>>
    /\ idxFile' = "missing"
    /\ UNCHANGED <<idx, indexedUpTo, indexClean, handle, locals, pc, resp, unfinished,
                   cli, failpoint, script, child, killSent, reached, verdict, disturbed>>

(* The steps of the parent's own Database objects. *)
ParentDatabase ==
    /\ tpc \in {"init", "fork", "verify", "remove"}
    /\ child \notin Alive
    /\ Step
    /\ UNCHANGED <<cli, harness>>

FileOperationFails ==
    /\ pc # "none"
    /\ child \notin {"SIGSTOP", "SIGTSTP"}
    /\ IOFail
    /\ disturbed' = TRUE
    /\ UNCHANGED <<cli, failpoint, tpc, script, child, killSent, reached, verdict>>

Finished ==
    /\ tpc = "done"
    /\ UNCHANGED testVars

-----------------------------------------------------------------------------
TestInit ==
    /\ CliInit
    /\ failpoint \in Failpoints
    /\ tpc = "start"
    /\ script = <<>>
    /\ child = "none"
    /\ killSent = FALSE
    /\ reached = FALSE
    /\ verdict = "none"
    /\ disturbed = FALSE

Parent ==
    \/ MakeWorkspace \/ InitPut \/ InitDone \/ TestThrew \/ ParentDatabase
    \/ Fork \/ PollNothing \/ PollFailpoint \/ PollOtherStop \/ PollEnded
    \/ SendKill("kill_stopped", "reap_stopped")
    \/ SendKill("kill_late", "reap_failed") \/ SendKill("kill_left", "reap_failed")
    \/ ReapStopped \/ ReapAfterFailure
    \/ Reopen \/ Verify \/ RemoveWorkspace

WorkerActs == Exec \/ StopInside \/ WorkerStep \/ WorkerEnds
Outside ==
    \/ ForkFails \/ ExecFails \/ PollError \/ FileOperationFails
    \/ StoppedFromOutside \/ KilledFromOutside

TestNext ==
    \/ Parent \/ WorkerActs \/ Outside
    \/ DeadlineAhead \/ DeadlinePassed \/ KilledByParent \/ Finished

(* The parent runs, the clock passes the deadline of five seconds, and a   *)
(* SIGKILL that was sent arrives.  Nothing is assumed of the worker.       *)
TestSpec ==
    /\ TestInit /\ [][TestNext]_testVars
    /\ WF_testVars(Parent) /\ WF_testVars(DeadlineAhead \/ DeadlinePassed)
    /\ SF_testVars(DeadlinePassed) /\ WF_testVars(KilledByParent)

-----------------------------------------------------------------------------
(* The parent has the database open, or is about to remove it, only when   *)
(* no worker can still write to it: each of the five ways out of the wait  *)
(* loop ends with a worker that was reaped, never one that is merely       *)
(* signalled.                                                              *)
SoleUser == tpc \in {"start", "init", "fork", "reopen", "verify", "remove", "done"} =>
                child \in {"none", "reaped"}

(* Unless something from outside interferes, the worker cannot run to its  *)
(* end: for each failpoint the initial session has prepared a database on  *)
(* which the worker's put passes it.                                       *)
WorkerMeetsFailpoint == child = "exited" => disturbed

(* A worker that was killed at its failpoint always gives PASS: for every  *)
(* failpoint, the report and the contents the test expects are the ones    *)
(* recovery produces.                                                      *)
ReachedMeansPass == tpc = "done" /\ reached /\ ~disturbed => verdict = "0"

(* The test always returns, with a verdict and with its directory removed, *)
(* even if the worker hangs.                                               *)
TestReturns == <>(tpc = "done" /\ verdict # "none" /\ dbFile = "missing")
=============================================================================
