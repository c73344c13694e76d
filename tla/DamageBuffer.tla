----------------------------- MODULE DamageBuffer -----------------------------
(* internal/detection/damage.go: the last hits on one player, and the ranking *)
(* of those before a death as its likely causes.                              *)
EXTENDS Integers, Sequences

CONSTANTS
  CauseKeys,   \* what causeKey tells apart: source, event type, spell or environment
  Capacity,    \* defaultDamageCapacity
  Lookback,    \* defaultLookbackLines
  MaxCauses    \* how many causes rankCauses returns: 3

ASSUME DamageAssumption ==
  Capacity \in Nat \ {0} /\ Lookback \in Nat /\ MaxCauses \in Nat \ {0}

(* A hit either overkilled, did damage, or did none (absorbed, blocked).      *)
Damages == {"overkill", "amount", "nothing"}

Hit   == [line : Nat, key : CauseKeys, damage : Damages]
Cause == [key : CauseKeys, confidence : {"high", "medium", "low"}]

\* Mutant: the full buffer keeps its oldest hits and drops the new one.
Add_DropsNew(buffer, hit) ==
  IF Len(buffer) = Capacity THEN buffer ELSE Append(buffer, hit)

\* Mutant: the buffer has no limit.
Add_Unlimited(buffer, hit) == Append(buffer, hit)

(* damageBuffer.add: a full buffer forgets its oldest hit.                    *)
Add(buffer, hit) ==
  IF Len(buffer) = Capacity THEN Append(Tail(buffer), hit) ELSE Append(buffer, hit)

(* damageBuffer.snapshotBefore: newest first, without hits that do not come   *)
(* before the line, up to the first that is too far back.  from[i] is what    *)
(* the loop takes of the oldest i hits.                                       *)
SnapshotBefore(buffer, line) ==
  LET from[i \in 0 .. Len(buffer)] ==
        IF i = 0 THEN << >>
        ELSE IF buffer[i].line >= line THEN from[i - 1]
        ELSE IF line - buffer[i].line > Lookback THEN << >>
        ELSE << buffer[i] >> \o from[i - 1]
  IN  from[Len(buffer)]

(* causeConfidence: only the first cause may be certain.                      *)
CauseConfidence(hit, primary) ==
  IF ~primary THEN "medium"
  ELSE CASE hit.damage = "overkill" -> "high"
         [] hit.damage = "amount"   -> "medium"
         [] hit.damage = "nothing"  -> "low"

(* rankCauses: the first hits with different keys; the rank is the position.  *)
AddCause(out, hit) ==
  IF Len(out) = MaxCauses \/ \E i \in DOMAIN out : out[i].key = hit.key
  THEN out
  ELSE Append(out, [key        |-> hit.key,
                    confidence |-> CauseConfidence(hit, out = << >>)])

RankCauses(hits) ==
  LET after[n \in 0 .. Len(hits)] ==
        IF n = 0 THEN << >> ELSE AddCause(after[n - 1], hits[n])
  IN  after[Len(hits)]
=============================================================================
