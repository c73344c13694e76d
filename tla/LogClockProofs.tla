---------------------------- MODULE LogClockProofs ----------------------------
(* Theorems about LogClock, for every hour, every set of zones that change by *)
(* an hour at most, and every length of the log.                              *)
EXTENDS LogClock, TLAPS

(* The facts about an hour and about a zone that the lemmas below use.        *)
LEMMA ZoneFacts ==
  ASSUME NEW z \in Zones
  PROVE  /\ Hour \in Nat /\ Hour > 0
         /\ z.before \in Int /\ z.after \in Int /\ z.switch \in Int
         /\ z.before - z.after <= Hour /\ z.after - z.before <= Hour
  <1>1. z.before - z.after \in -Hour .. Hour
    BY ClockAssumption
  <1>2. Hour \in Nat \ {0} /\ z.before \in Int /\ z.after \in Int /\ z.switch \in Int
    BY ClockAssumption
  <1>3. QED
    BY <1>1, <1>2

(* Local time is an integer.                                                  *)
LEMMA LocalType ==
  ASSUME NEW z \in Zones, NEW t \in Int
  PROVE  Local(z, t) \in Int
  BY ZoneFacts DEF Local, OffsetAt

(* An instant is among the readings of its own local time, and nothing else   *)
(* is a reading.                                                              *)
LEMMA ReadingsComplete ==
  ASSUME NEW z \in Zones, NEW w \in Int, NEW t \in Int
  PROVE  t \in Readings(z, w) <=> Local(z, t) = w
  <1>1. Local(z, t) = w => t \in {w - z.before, w - z.after}
    BY ZoneFacts DEF Local, OffsetAt
  <1>2. QED
    BY <1>1 DEF Readings

(* Two readings of one wall time are an hour apart at most.                   *)
LEMMA ReadingsNear ==
  ASSUME NEW z \in Zones, NEW t \in Int, NEW u \in Int, Local(z, t) = Local(z, u)
  PROVE  u - t \in -Hour .. Hour
  BY ZoneFacts DEF Local, OffsetAt

(* The search finds a duplicate exactly when there is one.                    *)
LEMMA SearchExact ==
  ASSUME NEW z \in Zones, NEW t \in Int
  PROVE  HasDuplicateWallTime(z, t) <=> \E u \in Int : u # t /\ Local(z, u) = Local(z, t)
  <1>1. Hour \in Nat
    BY ZoneFacts
  <1>2. ASSUME HasDuplicateWallTime(z, t)
        PROVE  \E u \in Int : u # t /\ Local(z, u) = Local(z, t)
    <2>1. PICK offset \in 0 .. 2 * Hour :
            /\ Local(z, t - Hour + offset) = Local(z, t)
            /\ t - Hour + offset # t
      BY <1>2 DEF HasDuplicateWallTime
    <2>2. t - Hour + offset \in Int
      BY <1>1
    <2>3. QED
      BY <2>1, <2>2
  <1>3. ASSUME NEW u \in Int, u # t, Local(z, u) = Local(z, t)
        PROVE  HasDuplicateWallTime(z, t)
    <2> DEFINE offset == u - t + Hour
    <2>1. u - t \in -Hour .. Hour
      BY <1>3, ReadingsNear
    <2>2. offset \in 0 .. 2 * Hour
      BY <1>1, <2>1
    <2>3. t - Hour + offset = u
      BY <1>1
    <2>4. /\ Local(z, t - Hour + offset) = Local(z, t)
          /\ t - Hour + offset # t
      BY <1>3, <2>3
    <2> HIDE DEF offset
    <2>5. QED
      BY <2>2, <2>4 DEF HasDuplicateWallTime
  <1>4. QED
    BY <1>2, <1>3

-------------------------------------------------------------------------------
(* Every instant time.Date may return is an integer; it is a reading of the   *)
(* wall time whenever there is one.                                           *)
LEMMA DateType ==
  ASSUME NEW z \in Zones, NEW w \in Int, NEW t \in Date(z, w)
  PROVE  /\ t \in Int
         /\ Readings(z, w) # {} => Local(z, t) = w
  BY ZoneFacts DEF Date, Readings

(* A wall time that is resolved occurs once, and is resolved to that instant. *)
LEMMA LocalResolvedOnce ==
  ASSUME NEW z \in Zones, NEW w \in Int, NEW t \in Date(z, w),
         ResolveLocal(z, w, t).held = "none"
  PROVE  /\ ResolveLocal(z, w, t).canonical = t
         /\ Readings(z, w) = {t}
  <1>1. t \in Int
    BY DateType
  <1>2. Local(z, t) = w /\ ~HasDuplicateWallTime(z, t)
    BY DEF ResolveLocal, HeldFor
  <1>3. ResolveLocal(z, w, t).canonical = t
    BY <1>2 DEF ResolveLocal, Resolved
  <1>4. t \in Readings(z, w)
    BY <1>1, <1>2, ReadingsComplete
  <1>5. ASSUME NEW u \in Readings(z, w)
        PROVE  u = t
    <2>1. u \in Int
      BY <1>5, ZoneFacts DEF Readings
    <2>2. Local(z, u) = w
      BY <1>5 DEF Readings
    <2>3. QED
      BY <1>1, <1>2, <2>1, <2>2, SearchExact
  <1>6. QED
    BY <1>3, <1>4, <1>5

(* A wall time is held only if it never occurs, or occurs twice.              *)
LEMMA LocalHeldAmbiguous ==
  ASSUME NEW z \in Zones, NEW w \in Int, NEW t \in Date(z, w),
         ResolveLocal(z, w, t).held # "none"
  PROVE  Readings(z, w) = {} \/ \E r, u \in Readings(z, w) : r # u
  <1>1. SUFFICES ASSUME Readings(z, w) # {}
                 PROVE  \E r, u \in Readings(z, w) : r # u
    OBVIOUS
  <1>2. t \in Int /\ Local(z, t) = w
    BY <1>1, DateType
  <1>3. HasDuplicateWallTime(z, t)
    BY <1>2 DEF ResolveLocal, Resolved
  <1>4. PICK u \in Int : u # t /\ Local(z, u) = Local(z, t)
    BY <1>2, <1>3, SearchExact
  <1>5. t \in Readings(z, w) /\ u \in Readings(z, w)
    BY <1>2, <1>4, ReadingsComplete
  <1>6. QED
    BY <1>4, <1>5

-------------------------------------------------------------------------------
(* The inductive invariant: a line of the game carries its wall clock, and    *)
(* the resolution is one the stamp at hand allows in this zone.               *)
GameStamp(s, t) ==
  /\ s.form # "broken"
  /\ s.wall = Local(zone, t)
  /\ s.form = "offset" => s.offset = OffsetAt(zone, t)

IInv ==
  /\ TypeOK
  /\ line.by = "game" => GameStamp(line.stamp, line.at)
  /\ resolution \in Resolutions(line.stamp)

(* A broken stamp may always be held as invalid, and for nothing else but the *)
(* time zone.                                                                 *)
LEMMA BrokenHoldsType ==
  /\ "invalid_instant" \in BrokenHolds
  /\ BrokenHolds \subseteq {"invalid_instant", "missing_log_timezone"}
  BY DEF BrokenHolds

(* What ResolveCanonicalInstant returns is an InstantResolution.              *)
LEMMA ResolutionsType ==
  ASSUME zone \in Zones, NEW s \in Stamp, NEW r \in Resolutions(s)
  PROVE  r \in [held : Holds \union {"none"}, canonical : Int]
  <1>1. s.wall \in Int /\ s.offset \in Int /\ s.form \in Forms
    BY DEF Stamp
  <1>2. CASE s.form = "broken"
    <2>1. PICK why \in BrokenHolds : r = HeldFor(why)
      BY <1>2 DEF Resolutions
    <2>2. QED
      BY <2>1, BrokenHoldsType DEF HeldFor, Holds
  <1>3. CASE s.form = "offset"
    <2>1. r = Resolved(s.wall - s.offset)
      BY <1>3 DEF Resolutions
    <2>2. QED
      BY <1>1, <2>1 DEF Resolved
  <1>4. CASE s.form = "local" /\ ~configured
    BY <1>4 DEF Resolutions, HeldFor, Holds
  <1>5. CASE s.form = "local" /\ configured
    <2>1. PICK t \in Date(zone, s.wall) : r = ResolveLocal(zone, s.wall, t)
      BY <1>5 DEF Resolutions
    <2>2. t \in Int
      BY <1>1, <2>1, DateType
    <2>3. QED
      BY <2>1, <2>2 DEF ResolveLocal, HeldFor, Resolved, Holds
  <1>6. QED
    BY <1>1, <1>2, <1>3, <1>4, <1>5 DEF Forms

LEMMA InitInv == Init => IInv
  <1>1. 0 \in Times
    BY ClockAssumption DEF Times
  <1>2. Init => TypeOK
    BY <1>1 DEF Init, TypeOK, NoLine, Line, Stamp, Forms, HeldFor, Holds
  <1>3. Init => resolution \in Resolutions(line.stamp)
    BY BrokenHoldsType DEF Init, NoLine, Resolutions
  <1>4. QED
    BY <1>2, <1>3 DEF IInv, Init, NoLine

(* Reading a stamp keeps the invariant, if a stamp of the game is the wall    *)
(* clock.                                                                     *)
LEMMA ReadInv ==
  ASSUME IInv, NEW s \in Stamp, NEW by \in {"game", "edited"}, Read(s, by),
         by = "game" => GameStamp(s, now)
  PROVE  IInv'
  <1>1. line' \in Line
    BY DEF Read, IInv, TypeOK, Line
  <1>2. resolution' \in [held : Holds \union {"none"}, canonical : Int]
    BY ResolutionsType DEF Read, IInv, TypeOK
  <1>3. TypeOK'
    BY <1>1, <1>2 DEF Read, IInv, TypeOK
  <1>4. (line.by = "game" => GameStamp(line.stamp, line.at))'
    BY DEF Read, GameStamp
  <1>5. (resolution \in Resolutions(line.stamp))'
    <2>1. line'.stamp = s /\ UNCHANGED <<zone, configured>>
      BY DEF Read
    <2>2. Resolutions(line.stamp)' = Resolutions(s)
      BY <2>1 DEF Resolutions, BrokenHolds
    <2>3. QED
      BY <2>2 DEF Read
  <1>6. QED
    BY <1>3, <1>4, <1>5 DEF IInv

LEMMA NextInv == IInv /\ [Next]_vars => IInv'
  <1> SUFFICES ASSUME IInv, [Next]_vars
               PROVE  IInv'
    OBVIOUS
  <1>1. CASE Tick
    BY <1>1, ClockAssumption
    DEF Tick, IInv, TypeOK, Times, GameStamp, Resolutions, BrokenHolds
  <1>2. CASE GameWrites
    <2>1. PICK form \in {"local", "offset"} :
            Read([form |-> form, wall |-> Local(zone, now),
                  offset |-> IF form = "offset" THEN OffsetAt(zone, now) ELSE 0], "game")
      BY <1>2 DEF GameWrites
    <2> DEFINE s == [form |-> form, wall |-> Local(zone, now),
                     offset |-> IF form = "offset" THEN OffsetAt(zone, now) ELSE 0]
    <2>2. zone \in Zones /\ now \in Int
      BY ClockAssumption DEF IInv, TypeOK, Times
    <2>3. s \in Stamp
      <3>1. Local(zone, now) \in Int
        BY <2>2, LocalType
      <3>2. OffsetAt(zone, now) \in Int
        BY <2>2, ZoneFacts DEF OffsetAt
      <3>3. QED
        BY <3>1, <3>2 DEF Stamp, Forms
    <2>4. GameStamp(s, now)
      BY DEF GameStamp
    <2>5. QED
      BY <2>1, <2>3, <2>4, ReadInv
  <1>3. CASE OtherWrites
    <2>1. PICK w \in Times, form \in Forms :
            \E o \in (IF form = "offset" THEN SuffixOffsets ELSE {0}) :
              Read([form |-> form, wall |-> w, offset |-> o], "edited")
      BY <1>3 DEF OtherWrites
    <2>2. PICK o \in (IF form = "offset" THEN SuffixOffsets ELSE {0}) :
            Read([form |-> form, wall |-> w, offset |-> o], "edited")
      BY <2>1
    <2>3. [form |-> form, wall |-> w, offset |-> o] \in Stamp
      BY <2>1, <2>2, ClockAssumption DEF Stamp, Times
    <2>4. QED
      BY <2>2, <2>3, ReadInv
  <1>4. CASE UNCHANGED vars
    BY <1>4 DEF vars, IInv, TypeOK, GameStamp, Resolutions, BrokenHolds
  <1>5. QED
    BY <1>1, <1>2, <1>3, <1>4 DEF Next

LEMMA InductiveInvariant == Spec => []IInv
  BY InitInv, NextInv, PTL DEF Spec

-------------------------------------------------------------------------------
(* Every variable keeps its type.                                             *)
THEOREM TypeCorrect == Spec => []TypeOK
  <1>1. IInv => TypeOK
    BY DEF IInv
  <1>2. QED
    BY <1>1, InductiveInvariant, PTL

(* A line without an offset is resolved only if its wall time occurs once,    *)
(* and then to that instant.                                                  *)
LEMMA InvOnlyReading == IInv => ResolvedIsOnlyReading
  <1> SUFFICES ASSUME IInv, line.stamp.form = "local", resolution.held = "none"
               PROVE  Readings(zone, line.stamp.wall) = {resolution.canonical}
    BY DEF ResolvedIsOnlyReading
  <1>1. zone \in Zones /\ line.stamp.wall \in Int
    BY DEF IInv, TypeOK, Line, Stamp
  <1>2. configured
    BY DEF IInv, Resolutions, HeldFor
  <1>3. PICK t \in Date(zone, line.stamp.wall) :
          resolution = ResolveLocal(zone, line.stamp.wall, t)
    BY <1>2 DEF IInv, Resolutions
  <1>4. QED
    BY <1>1, <1>3, LocalResolvedOnce

(* A resolution that comes with an instant is the instant at which the game   *)
(* wrote the line: the code of hasDuplicateWallTime looks far enough.         *)
THEOREM ResolutionTrue == Spec => []ResolvedIsTrue
  <1>1. IInv => ResolvedIsTrue
    <2> SUFFICES ASSUME IInv, line.by = "game", resolution.held = "none"
                 PROVE  resolution.canonical = line.at
      BY DEF ResolvedIsTrue
    <2>1. zone \in Zones /\ line.at \in Int /\ line.stamp \in Stamp
      BY ClockAssumption DEF IInv, TypeOK, Line, Times
    <2>2. GameStamp(line.stamp, line.at)
      BY DEF IInv
    <2>3. CASE line.stamp.form = "offset"
      <3>1. resolution = Resolved(line.stamp.wall - line.stamp.offset)
        BY <2>3 DEF IInv, Resolutions
      <3>2. resolution.canonical = Local(zone, line.at) - OffsetAt(zone, line.at)
        BY <2>2, <2>3, <3>1 DEF Resolved, GameStamp
      <3>3. OffsetAt(zone, line.at) \in Int
        BY <2>1, ZoneFacts DEF OffsetAt
      <3>4. QED
        BY <2>1, <3>2, <3>3 DEF Local
    <2>4. CASE line.stamp.form = "local"
      <3>1. Readings(zone, line.stamp.wall) = {resolution.canonical}
        BY <2>4, InvOnlyReading DEF ResolvedIsOnlyReading
      <3>2. line.at \in Readings(zone, line.stamp.wall)
        BY <2>1, <2>2, ReadingsComplete DEF GameStamp, Stamp
      <3>3. QED
        BY <3>1, <3>2
    <2>5. QED
      BY <2>1, <2>2, <2>3, <2>4 DEF GameStamp, Stamp, Forms
  <1>2. QED
    BY <1>1, InductiveInvariant, PTL

(* The same as InvOnlyReading, of every behaviour.                            *)
THEOREM OnlyReading == Spec => []ResolvedIsOnlyReading
  BY InvOnlyReading, InductiveInvariant, PTL

(* Nothing is held as ambiguous that is not.                                  *)
THEOREM HoldsAreNeeded == Spec => []HeldOnlyWhenAmbiguous
  <1>1. IInv => HeldOnlyWhenAmbiguous
    <2> SUFFICES ASSUME IInv, resolution.held = "dst_ambiguous"
                 PROVE  \/ Readings(zone, line.stamp.wall) = {}
                        \/ \E t, u \in Readings(zone, line.stamp.wall) : t # u
      BY DEF HeldOnlyWhenAmbiguous
    <2>1. zone \in Zones /\ line.stamp.wall \in Int /\ line.stamp.form \in Forms
      BY DEF IInv, TypeOK, Line, Stamp
    <2>2. line.stamp.form = "local" /\ configured
      BY <2>1, BrokenHoldsType DEF IInv, Resolutions, HeldFor, Resolved, Forms
    <2>3. PICK t \in Date(zone, line.stamp.wall) :
            resolution = ResolveLocal(zone, line.stamp.wall, t)
      BY <2>2 DEF IInv, Resolutions
    <2>4. QED
      BY <2>1, <2>3, LocalHeldAmbiguous
  <1>2. QED
    BY <1>1, InductiveInvariant, PTL
=============================================================================
