------------------------------ MODULE CombatLog ------------------------------
(* The combat log as the capture service sees it: the parsed events of        *)
(* internal/parser, reduced to what session, detection and storage branch on. *)
(*                                                                            *)
(*  - A line carries the instant the game wrote it.  "resolved" is FALSE when *)
(*    ResolveCanonicalInstant holds the stamp (no timezone, DST gap or        *)
(*    overlap), and for a CHALLENGE_MODE_START also when its map or key       *)
(*    fails the contract's range: both leave the start without a clientRunId. *)
(*  - The game opens at most one keystone per instant, so the digest          *)
(*    clientRunId(start instant, map, level) is injective on instants and the *)
(*    start instant stands for it.                                            *)
EXTENDS Integers, Sequences

CONSTANTS
  Players,    \* the tracked character GUIDs
  NoOne,      \* the victim field of a line that is not a tracked death
  MaxLines    \* bound: how many lines the game writes

ASSUME PlayersAssumption  == NoOne \notin Players
ASSUME MaxLinesAssumption == MaxLines \in Nat \ {0}

Stamps    == 1 .. MaxLines    \* instants at which the game can write
NoInstant == 0                \* a held instant: "" in the code
RunIds    == Stamps
NoRun     == 0                \* ClientRunID == "" in the code

LineKinds == {
  "start",      \* CHALLENGE_MODE_START with integer map and level
  "end",        \* CHALLENGE_MODE_END with success
  "failedEnd",  \* CHALLENGE_MODE_END without success, level not zeroed
  "died",       \* UNIT_DIED of a tracked player
  "activity",   \* any other line that is not metadata
  "quiet" }     \* other metadata, a zeroed END, a START with bad fields

Line == {l \in [kind     : LineKinds,
                at       : Stamps,
                resolved : BOOLEAN,
                who      : Players \union {NoOne}] :
           l.kind = "died" <=> l.who \in Players}

(* Points of the wall clock.  A line written at stamp s is written at tick    *)
(* 2s; what the process does before the next line happens at 2s + 1.          *)
Ticks      == 0 .. 2 * MaxLines + 1
TickOf(s)  == 2 * s
TickAfter(s) == 2 * s + 1

(* The canonical instant the program derives from a line, or NoInstant.      *)
Instant(l) == IF l.resolved THEN l.at ELSE NoInstant
=============================================================================
