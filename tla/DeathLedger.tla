----------------------------- MODULE DeathLedger -----------------------------
(* What capture promises about its database, whatever the process does: a     *)
(* prefix of the combat log is covered, exactly the tracked deaths of that    *)
(* prefix are on record, and a run that ended stays as it ended.              *)
EXTENDS CombatLog

VARIABLES
  log,        \* the lines the game wrote
  covered,    \* how many of them are covered
  recorded,   \* the numbers of the death lines on record
  status      \* the status of every run

ledgerVars == <<log, covered, recorded, status>>

Ended == {"completed", "abandoned"}

LedgerInit ==
  /\ log = << >>
  /\ covered = 0
  /\ recorded = {}
  /\ status = [r \in RunIds |-> "absent"]

Write ==
  /\ \E l \in Line : log' = Append(log, l)
  /\ UNCHANGED <<covered, recorded, status>>

(* Cover some more lines: their deaths go on record in the same step, and     *)
(* runs may appear.                                                           *)
Cover ==
  /\ covered < Len(log)
  /\ covered' \in covered + 1 .. Len(log)
  /\ recorded' = recorded \union {i \in covered + 1 .. covered' : log[i].kind = "died"}
  /\ \E opened \in SUBSET {r \in RunIds : status[r] = "absent"} :
       status' = [r \in RunIds |-> IF r \in opened THEN "active" ELSE status[r]]
  /\ UNCHANGED log

(* A run ends, once.                                                          *)
End ==
  /\ \E r \in RunIds, how \in Ended :
       /\ status[r] \notin Ended
       /\ status' = [status EXCEPT ![r] = how]
  /\ UNCHANGED <<log, covered, recorded>>

LedgerNext == Write \/ Cover \/ End

LedgerSafety == LedgerInit /\ [][LedgerNext]_ledgerVars

(* Whatever was written is covered in the end.                                *)
LedgerSpec == LedgerSafety /\ WF_ledgerVars(Cover)
=============================================================================
