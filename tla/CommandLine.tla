---------------------------- MODULE CommandLine ----------------------------
(***************************************************************************)
(* The zidane command (apps/zidane): every run of the program is one       *)
(* process that opens the database, makes one call, reports and destroys   *)
(* the Database object on its way out.  The database itself is Database.   *)
(*                                                                         *)
(* The arguments have been parsed: a run that CLI11 rejects ends before it *)
(* touches a file.                                                         *)
(***************************************************************************)
EXTENDS Database

VARIABLES
    command,  \* the subcommand with its arguments
    stage,    \* how far main() is; "shell": no process is running
    code      \* the exit status of the last run, or of this one once known

cli == <<command, stage, code>>
cliVars == <<vars, cli>>

NoCommand == [op |-> "none"]
Commands == [op : {"put"}, key : Keys, value : Values] \cup [op : {"get", "del"}, key : Keys]
Stages == {"shell", "open", "call", "leave"}
Codes == {"none", "0", "1", "signal"}

(* main(): the constructor is called first.  Under the bound on the log a  *)
(* put or delete is started only while there is room for its record.       *)
Launch(c) ==
    /\ stage = "shell"
    /\ c.op = "get" \/ Len(log) < MaxLog
    /\ Open
    /\ command' = c
    /\ stage' = "open"
    /\ code' = "none"

(* The constructor threw: main() prints the message and returns 1. *)
OpenThrew ==
    /\ stage = "open"
    /\ pc = "none"
    /\ stage' = "shell"
    /\ code' = "1"
    /\ UNCHANGED <<vars, command>>

run_put ==
    /\ stage = "open"
    /\ command.op = "put"
    /\ PutStart(command.key, command.value) \/ PutRejected(command.key, command.value)
    /\ stage' = "call"
    /\ UNCHANGED <<command, code>>

run_delete ==
    /\ stage = "open"
    /\ command.op = "del"
    /\ EraseStart(command.key) \/ EraseMissing(command.key)
    /\ stage' = "call"
    /\ UNCHANGED <<command, code>>

(* "Key not found", and an exception of get(), both end with status 1. *)
run_get ==
    /\ stage = "open"
    /\ pc = "idle"
    /\ command.op = "get"
    /\ stage' = "leave"
    /\ code' = IF get(command.key) \in {Absent, Error} THEN "1" ELSE "0"
    /\ UNCHANGED <<vars, command>>

(* Mutant: the exception of a failed call is swallowed. *)
Returned_swallowed ==
    /\ stage = "call"
    /\ pc = "idle"
    /\ stage' = "leave"
    /\ code' = IF resp = "absent" THEN "1" ELSE "0"
    /\ UNCHANGED <<vars, command>>

(* put() or erase() returned, or threw into main()'s handler; erase() of a *)
(* key that does not exist is reported like a failure.                     *)
Returned ==
    /\ stage = "call"
    /\ pc = "idle"
    /\ stage' = "leave"
    /\ code' = IF resp = "ok" THEN "0" ELSE "1"
    /\ UNCHANGED <<vars, command>>

(* The Database object goes out of scope. *)
Leave ==
    /\ stage = "leave"
    /\ CloseStart("dtor") \/ DestroyUnclean
    /\ UNCHANGED cli

Exit ==
    /\ stage = "leave"
    /\ pc = "none"
    /\ stage' = "shell"
    /\ UNCHANGED <<vars, command, code>>

(* The steps and failures of the constructor and of the running call. *)
DatabaseStep ==
    /\ stage # "shell"
    /\ Step \/ IOFail
    /\ UNCHANGED cli

ProcessKilled ==
    /\ stage # "shell"
    /\ Crash
    /\ stage' = "shell"
    /\ code' = "signal"
    /\ UNCHANGED command

Main == OpenThrew \/ run_put \/ run_delete \/ run_get \/ Returned \/ Leave \/ Exit

CliInit ==
    /\ Init
    /\ command = NoCommand
    /\ stage = "shell"
    /\ code = "none"

CliNext ==
    \/ \E c \in Commands : Launch(c)
    \/ Main \/ DatabaseStep \/ ProcessKilled

CliTypeOK == command \in Commands \cup {NoCommand} /\ stage \in Stages /\ code \in Codes
=============================================================================
