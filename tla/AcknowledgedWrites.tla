-------------------------- MODULE AcknowledgedWrites --------------------------
(***************************************************************************)
(* Database with a history variable: for every key, which record of the    *)
(* log is its newest acknowledged write.  A write is acknowledged when     *)
(* put() returns, or erase() returns true; the record of a call that threw *)
(* may be in the log, and may even become visible, but was never promised. *)
(***************************************************************************)
EXTENDS DatabaseProperties

VARIABLE acked  \* its offset; 0: none, or its record is gone from the log

historyVars == <<vars, acked>>

(* The last write of put() and erase() succeeded and the call returns. *)
Acknowledging(k) ==
    /\ pc \in {"put_checkpoint", "erase_checkpoint"} /\ rec.key = k
    /\ pc' = "idle" /\ resp' = "ok"

RememberAcked ==
    acked' = [k \in Keys |->
                CASE Acknowledging(k) -> endOffset - HeaderSize
                  [] ~Acknowledging(k) /\ acked[k] <= Len(log') -> acked[k]
                  [] OTHER -> 0]

HistoryInit == Init /\ acked = [k \in Keys |-> 0]
HistoryNext == Next /\ RememberAcked
HistorySpec == HistoryInit /\ [][HistoryNext]_historyVars

-----------------------------------------------------------------------------
(* An answer is never older than what was acknowledged: when get() answers *)
(* with a value, it is that of the newest acknowledged write of the key or *)
(* of a later record.  So no overwritten value comes back and no deleted   *)
(* key reappears, whatever operations failed in between: calls that left a *)
(* stale or zeroed entry, rebuilds given up after the rename, a truncation *)
(* after which other records take the offsets that the index still holds.  *)
AcknowledgedWriteIsNotUndone ==
    pc = "idle" =>
        \A k \in Keys : get(k) \notin {Absent, Error} => idx[k] >= acked[k]

(* What put() and erase() have acknowledged stays in the log, whatever     *)
(* recover_records() cuts off as an incomplete tail.                       *)
AcknowledgedWritesAreKept ==
    [][dbFile = "ok" /\ dbFile' = "ok" =>
         \A k \in Keys : acked[k] <= Len(log')]_historyVars

-----------------------------------------------------------------------------
(* Why: an entry is never older than the newest acknowledged write, not in *)
(* the index and not in the one that a rebuild is about to install.        *)
AckedInLog ==
    /\ acked \in [Keys -> Nat]
    /\ \A k \in Keys : acked[k] # 0 =>
         /\ acked[k] \in 1 .. Len(log)
         /\ log[acked[k]].status = "Success" /\ log[acked[k]].key = k

EntriesAreNotOlder == \A k \in Keys : idx[k] > 0 => idx[k] >= acked[k]

AckInv == EntriesInv /\ AckedInLog /\ EntriesAreNotOlder
=============================================================================
