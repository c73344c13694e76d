------------------------------- MODULE LogClock -------------------------------
(* internal/parser/envelope.go: from the stamp of a combat log line to the    *)
(* canonical UTC instant, or to a hold.  The game writes wall-clock time, as  *)
(* a rule without an offset, and the zone it was written in may change its    *)
(* offset at some instant: a wall time then occurs twice, or never.           *)
(*                                                                            *)
(* CombatLog takes this for granted when it lets a resolved line carry the    *)
(* instant the game wrote it.                                                 *)
EXTENDS Integers

CONSTANTS
  Hour,          \* time.Hour, in steps of the search in hasDuplicateWallTime
  Zones,         \* environment: time zones, with one change of offset each
  SuffixOffsets, \* environment: the offsets a stamp may carry as a suffix
  MaxTime        \* bound: the last instant at which the game writes

(* Two offsets of a zone differ by an hour at most.                           *)
ASSUME ClockAssumption ==
  /\ Hour \in Nat \ {0}
  /\ MaxTime \in Nat
  /\ SuffixOffsets \subseteq Int
  /\ \A z \in Zones :
       /\ z.before \in Int /\ z.after \in Int /\ z.switch \in Int
       /\ z.before - z.after \in -Hour .. Hour

VARIABLES
  zone,        \* the time zone of the machine, as in WOW_LOG_TIMEZONE
  configured,  \* whether WOW_LOG_TIMEZONE is set
  now,         \* the true time
  line,        \* the stamp of the line being read, and when it was written
  resolution   \* what the program made of it

vars == <<zone, configured, now, line, resolution>>

Times == 0 .. MaxTime

Forms == {
  "local",     \* no offset
  "offset",    \* a well-formed offset after the fraction
  "broken" }   \* no stamp, a date that does not exist, a malformed suffix

Stamp == [form : Forms, wall : Int, offset : Int]

(* "edited" is a line some other tool wrote: no instant is the true one.      *)
Line  == [stamp : Stamp, by : {"game", "edited"}, at : Times]

Holds == {"missing_log_timezone", "dst_ambiguous", "invalid_instant"}

(* InstantResolution: a canonical instant, or the reason why there is none.   *)
Resolved(t) == [held |-> "none", canonical |-> t]
\* Mutant: a hold without a reason.
HeldFor_NoReason(why) == [held |-> "", canonical |-> 0]
HeldFor(why) == [held |-> why, canonical |-> 0]

NoLine == [stamp |-> [form |-> "broken", wall |-> 0, offset |-> 0],
           by |-> "edited", at |-> 0]

TypeOK ==
  /\ zone \in Zones
  /\ configured \in BOOLEAN
  /\ now \in Times
  /\ line \in Line
  /\ resolution \in [held : Holds \union {"none"}, canonical : Int]

Init ==
  /\ zone \in Zones
  /\ configured \in BOOLEAN
  /\ now = 0
  /\ line = NoLine
  /\ resolution = HeldFor("invalid_instant")

-------------------------------------------------------------------------------
(* Go's time.Location, In and Date.                                           *)

OffsetAt(z, t) == IF t < z.switch THEN z.before ELSE z.after
Local(z, t)    == t + OffsetAt(z, t)

(* The instants whose local time is w: none, one or two.                      *)
Readings(z, w) == {t \in {w - z.before, w - z.after} : Local(z, t) = w}

(* Date: a reading, where there is one; otherwise a time that is correct in   *)
(* one of the two offsets around the change, either of them.                  *)
Date(z, w) == IF Readings(z, w) # {} THEN Readings(z, w)
              ELSE {w - z.before, w - z.after}

-------------------------------------------------------------------------------
(* hasDuplicateWallTime: the search from an hour before t to an hour after.   *)
\* Mutant: offset < 2*time.Hour, the end of the window is not tried.
HasDuplicateWallTime_Exclusive(z, t) ==
  \E offset \in 0 .. 2 * Hour - 1 :
    LET candidate == t - Hour + offset
    IN  Local(z, candidate) = Local(z, t) /\ candidate # t

\* Mutant: the candidate that is t itself is not told apart.
HasDuplicateWallTime_Itself(z, t) ==
  \E offset \in 0 .. 2 * Hour :
    LET candidate == t - Hour + offset
    IN  Local(z, candidate) = Local(z, t)

HasDuplicateWallTime(z, t) ==
  \E offset \in 0 .. 2 * Hour :
    LET candidate == t - Hour + offset
    IN  Local(z, candidate) = Local(z, t) /\ candidate # t

(* The rest of ResolveCanonicalInstant for a stamp without an offset; t is    *)
(* what Date returned.  localWallTimeFromComponents compares the fields.      *)
\* Mutant: a wall time that does not exist is not noticed.
ResolveLocal_GapTaken(z, w, t) ==
  IF HasDuplicateWallTime(z, t) THEN HeldFor("dst_ambiguous") ELSE Resolved(t)

ResolveLocal(z, w, t) ==
  IF Local(z, t) # w \/ HasDuplicateWallTime(z, t)
  THEN HeldFor("dst_ambiguous") ELSE Resolved(t)

(* Why a stamp without an instant is held: an empty one or a bad suffix is    *)
(* noticed before the missing time zone, a bad date after it.                 *)
BrokenHolds ==
  {"invalid_instant"} \union {why \in {"missing_log_timezone"} : ~configured}

(* ResolveCanonicalInstant.                                                   *)
Resolutions(s) ==
  CASE s.form = "broken" -> {HeldFor(why) : why \in BrokenHolds}
    [] s.form = "offset" -> {Resolved(s.wall - s.offset)}
    [] s.form = "local" /\ ~configured -> {HeldFor("missing_log_timezone")}
    [] OTHER -> {ResolveLocal(zone, s.wall, t) : t \in Date(zone, s.wall)}

-------------------------------------------------------------------------------
Tick ==
  /\ now < MaxTime
  /\ now' = now + 1
  /\ UNCHANGED <<zone, configured, line, resolution>>

(* A line with stamp s is read: SplitEnvelope, then ResolveCanonicalInstant.  *)
Read(s, by) ==
  /\ line' = [stamp |-> s, by |-> by, at |-> now]
  /\ resolution' \in Resolutions(s)
  /\ UNCHANGED <<zone, configured, now>>

(* The game stamps a line with its wall clock, with or without the offset.    *)
GameWrites ==
  \E form \in {"local", "offset"} :
    Read([form |-> form, wall |-> Local(zone, now),
          offset |-> IF form = "offset" THEN OffsetAt(zone, now) ELSE 0], "game")

(* A stamp of any other origin: a wall time the zone may skip, an offset that *)
(* need not be one of the zone, or no stamp at all.                           *)
OtherWrites ==
  \E w \in Times, form \in Forms :
    \E o \in (IF form = "offset" THEN SuffixOffsets ELSE {0}) :
      Read([form |-> form, wall |-> w, offset |-> o], "edited")

Next == Tick \/ GameWrites \/ OtherWrites

Spec == Init /\ [][Next]_vars

-------------------------------------------------------------------------------
(* Properties.                                                                *)

(* A line of the game that is resolved is resolved to the instant the game    *)
(* wrote it, on either side of a change of offset.                            *)
ResolvedIsTrue ==
  (line.by = "game" /\ resolution.held = "none") => resolution.canonical = line.at

(* A stamp without an offset is resolved only where its wall time occurs, and *)
(* occurs once; the canonical instant then reads as that wall time.           *)
ResolvedIsOnlyReading ==
  (line.stamp.form = "local" /\ resolution.held = "none") =>
    Readings(zone, line.stamp.wall) = {resolution.canonical}

(* A stamp is held as ambiguous only if its wall time occurs twice, or never: *)
(* the search window holds nothing back around a change that it need not.     *)
HeldOnlyWhenAmbiguous ==
  resolution.held = "dst_ambiguous" =>
    \/ Readings(zone, line.stamp.wall) = {}
    \/ \E t, u \in Readings(zone, line.stamp.wall) : t # u
=============================================================================
