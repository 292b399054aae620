------------------------ MODULE CommandLineContract ------------------------
(***************************************************************************)
(* What someone who works with zidane from a shell can rely on.  A history *)
(* variable keeps, for every key, the contents that are consistent with    *)
(* the messages and exit statuses seen so far.                             *)
(***************************************************************************)
EXTENDS CommandLine

VARIABLE may    \* for every key the contents it may have, Absent included

contractVars == <<cliVars, may>>

(* A put or delete without a report, or one that failed, has happened or   *)
(* has not, unless it was refused because of its size.                     *)
Refused == command.op = "put" /\ (command.key \in TooLargeKeys \/ command.value \in TooLargeValues)
Undecided(c) ==
    IF Refused THEN may[c.key]
    ELSE may[c.key] \cup {IF c.op = "put" THEN c.value ELSE Absent}

(* What the report of a call says about its key. *)
Reported(c, status) ==
    CASE c.op = "put" /\ status = "0" -> {c.value}
      [] c.op = "del" /\ status = "0" -> IF may[c.key] = {Absent} THEN {} ELSE {Absent}
      [] c.op = "del" /\ resp = "absent" -> may[c.key] \cap {Absent}
      [] OTHER -> Undecided(c)

Remember ==
    CASE stage = "open" /\ stage' = "leave" ->
           may' = [may EXCEPT ![command.key] = @ \cap {get(command.key)}]
      [] stage = "call" /\ stage' = "leave" ->
           may' = [may EXCEPT ![command.key] = Reported(command, code')]
      [] stage = "call" /\ stage' = "shell" ->
           may' = [may EXCEPT ![command.key] = Undecided(command)]
      [] OTHER -> UNCHANGED may

ContractInit == CliInit /\ may = [k \in Keys |-> {Absent}]
ContractNext == CliNext /\ Remember
ContractSpec == ContractInit /\ [][ContractNext]_contractVars

(* Every variable of main() and of the history keeps its shape. *)
ContractTypeOK == CliTypeOK /\ may \in [Keys -> SUBSET (Values \cup {Absent})]

(* No report of zidane ever contradicts an earlier one.  After "Value      *)
(* stored" every get prints that value until another command changes the   *)
(* key; after "deleted" or "does not exist" the key stays gone; and once a *)
(* get has shown which way an interrupted or failed command went, it never *)
(* goes the other way later.  This holds for kills at every step and for   *)
(* file operations that fail at every step.                                *)
ReportsAgree == \A k \in Keys : may[k] # {}
=============================================================================
