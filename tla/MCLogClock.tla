----------------------------- MODULE MCLogClock -----------------------------
(* A finite instance of LogClock: an hour is two search steps, and the zones  *)
(* move forward or back by a full hour, by half of one (as Lord Howe Island   *)
(* does), or not at all.                                                      *)
EXTENDS LogClock

SomeZones ==
  {[before |-> b, after |-> a, switch |-> 5] : b \in {0}, a \in -2 .. 2}
Offsets == {-1, 0, 1}
=============================================================================
