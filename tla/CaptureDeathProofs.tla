-------------------------- MODULE CaptureDeathProofs --------------------------
(* Theorems about the deaths and runs Capture stores, in every environment:   *)
(* the ids of deaths differ, none is stored twice or under the wrong run, and *)
(* runs are completed only by an END.                                         *)
EXTENDS CaptureProofs, FiniteSetTheorems, NaturalsInduction

-------------------------------------------------------------------------------
(* The ids of the tracked deaths.  An ordinal that was handed out is below    *)
(* the counter of its key, so the next death of that key gets another one.    *)
OrdinalKey(d) == <<d.who, d.at, d.run>>

OrdinalsAhead ==
  \A k \in DOMAIN deaths :
    CanComputeIDs(deaths[k]) =>
      /\ deaths[k].run # NoRun
      /\ deaths[k].ord < ordinals[OrdinalKey(deaths[k])]

IDInv == TypeInv /\ OrdinalsAhead /\ IDsDistinct

(* Two hashed deaths have one id only if they share key and ordinal.          *)
LEMMA HashedIDs ==
  ASSUME NEW c, NEW d, CanComputeIDs(c), CanComputeIDs(d)
  PROVE  SameID(EventInput(c), EventInput(d))
           <=> c.who = d.who /\ c.at = d.at /\ c.run = d.run /\ c.ord = d.ord
  BY DEF SameID, EventInput

(* While no death is added and no counter reset, the ids stay as they are.    *)
LEMMA SameDeathsIDInv ==
  ASSUME IDInv, TypeInv', deaths' = deaths, ordinals' = ordinals
  PROVE  IDInv'
  BY DEF IDInv, OrdinalsAhead, IDsDistinct

LEMMA NoDeathsIDInv ==
  ASSUME TypeInv', deaths' = << >>
  PROVE  IDInv'
  BY DEF IDInv, OrdinalsAhead, IDsDistinct

(* observeDeath numbers the new death past all earlier ones of its key.       *)
LEMMA ObserveDeathIDInv ==
  ASSUME IDInv, TypeInv', NEW l \in Line, NEW n \in Nat \ {0},
         l.kind = "died", ObserveDeath(l, n)
  PROVE  IDInv'
  <1> DEFINE hold     == ~runCtx.active \/ runCtx.run = NoRun
             key      == <<l.who, Instant(l), runCtx.run>>
             numbered == ~hold /\ Instant(l) # NoInstant
             d == [line |-> n, who |-> l.who, at |-> Instant(l), run |-> runCtx.run,
                   hold |-> hold, ord |-> IF numbered THEN ordinals[key] ELSE 0]
             last == Len(deaths) + 1
  <1>1. /\ deaths \in Seq(Candidate) /\ Len(deaths) \in Nat
        /\ ordinals \in [OrdinalKeys -> Nat]
        /\ runCtx \in [active : BOOLEAN, run : RunIds \union {NoRun}]
    <2>1. TrackerTypeOK
      BY DEF IDInv, TypeInv, TypeOK
    <2> QED BY <2>1 DEF TrackerTypeOK
  <1>2. /\ deaths' = Append(deaths, d)
        /\ ordinals' = IF numbered THEN [ordinals EXCEPT ![key] = @ + 1] ELSE ordinals
    BY DEF ObserveDeath
  <1>3. /\ DOMAIN deaths' = 1 .. last
        /\ deaths'[last] = d
        /\ \A k \in DOMAIN deaths : deaths'[k] = deaths[k] /\ deaths[k] \in Candidate
        /\ DOMAIN deaths = 1 .. Len(deaths)
    <2> HIDE DEF d
    <2> QED BY <1>1, <1>2
  <1>4. CanComputeIDs(d) => numbered /\ runCtx.run # NoRun /\ OrdinalKey(d) = key
                            /\ d.ord = ordinals[key] /\ key \in OrdinalKeys
    BY <1>1, LineFields DEF CanComputeIDs, OrdinalKey, OrdinalKeys
  <1>5. \A k \in DOMAIN deaths :
           CanComputeIDs(deaths[k]) =>
             /\ OrdinalKey(deaths[k]) \in OrdinalKeys
             /\ deaths[k].ord < ordinals[OrdinalKey(deaths[k])]
             /\ deaths[k].run # NoRun
    <2> SUFFICES ASSUME NEW k \in DOMAIN deaths, CanComputeIDs(deaths[k])
                 PROVE  OrdinalKey(deaths[k]) \in OrdinalKeys
      BY DEF IDInv, OrdinalsAhead
    <2>1. deaths[k] \in Candidate /\ deaths[k].run # NoRun /\ deaths[k].at # NoInstant
      BY <1>3 DEF IDInv, OrdinalsAhead, CanComputeIDs
    <2> QED BY <2>1 DEF Candidate, OrdinalKey, OrdinalKeys
  <1>6. /\ \A q \in OrdinalKeys : ordinals[q] \in Nat /\ ordinals[q] <= ordinals'[q]
        /\ CanComputeIDs(d) => ordinals[key] < ordinals'[key]
    <2> HIDE DEF key, numbered, d
    <2> QED BY <1>1, <1>2, <1>4
  <1> HIDE DEF d, key, numbered, hold
  <1>7. OrdinalsAhead'
    <2> SUFFICES ASSUME NEW k \in 1 .. last, CanComputeIDs(deaths'[k])
                 PROVE  /\ deaths'[k].run # NoRun
                        /\ deaths'[k].ord < ordinals'[OrdinalKey(deaths'[k])]
      BY <1>3 DEF OrdinalsAhead, CanComputeIDs, OrdinalKey
    <2>1. CASE k = last
      <3>1. d.run = runCtx.run
        BY DEF d
      <3> QED BY <2>1, <3>1, <1>3, <1>4, <1>6
    <2>2. CASE k \in DOMAIN deaths
      <3>1. deaths[k].ord \in Nat
        BY <2>2, <1>3 DEF Candidate
      <3> QED BY <2>2, <3>1, <1>1, <1>2, <1>3, <1>5, <1>6
    <2> QED BY <1>1, <1>3, <2>1, <2>2
  <1>8. \A k \in DOMAIN deaths :
           CanComputeIDs(deaths[k]) /\ CanComputeIDs(d)
             => ~SameID(EventInput(deaths[k]), EventInput(d))
    <2> SUFFICES ASSUME NEW k \in DOMAIN deaths, CanComputeIDs(deaths[k]), CanComputeIDs(d),
                        OrdinalKey(deaths[k]) = OrdinalKey(d), deaths[k].ord = d.ord
                 PROVE  FALSE
      BY HashedIDs DEF OrdinalKey
    <2> QED BY <1>1, <1>4, <1>5
  <1>9. IDsDistinct'
    <2>1. ASSUME NEW i \in 1 .. last, NEW j \in 1 .. last, i # j,
                 CanComputeIDs(deaths'[i]), CanComputeIDs(deaths'[j])
          PROVE  ~SameID(EventInput(deaths'[i]), EventInput(deaths'[j]))
      <3>1. CASE i \in DOMAIN deaths /\ j \in DOMAIN deaths
        BY <2>1, <3>1, <1>3 DEF IDInv, IDsDistinct
      <3>2. CASE i = last /\ j \in DOMAIN deaths
        BY <2>1, <3>2, <1>3, <1>8, HashedIDs
      <3>3. CASE i \in DOMAIN deaths /\ j = last
        BY <2>1, <3>3, <1>3, <1>8
      <3> QED BY <2>1, <1>1, <1>3, <3>1, <3>2, <3>3
    <2> QED BY <1>3, <2>1 DEF IDsDistinct, EventInput, CanComputeIDs
  <1> QED BY <1>7, <1>9 DEF IDInv

(* Only reading a line and stopping change what the tracker remembers.        *)
LEMMA TrackerSteps ==
  ASSUME [Next]_vars
  PROVE  \/ ReadLine
         \/ \E how \in {"ok", "failure", "killed"} : Stop(how)
         \/ UNCHANGED <<deaths, ordinals>>
  <1>1. CASE \/ WriteLine \/ Elapse \/ Interrupt \/ Start \/ BeginPoll \/ EndOfPoll
             \/ SkipPersist \/ PersistPoll \/ CloseSuperseded \/ SupersededDone
             \/ CloseCompleted \/ CloseInactive \/ UNCHANGED vars
    BY <1>1 DEF WriteLine, Elapse, Interrupt, Start, RestoreRun, BeginPoll, EndOfPoll,
                SkipPersist, PersistPoll, CloseSuperseded, SupersededDone,
                CloseCompleted, CloseInactive, vars, trackerVars
  <1>2. CASE Kill \/ AbortPoll \/ PersistFails \/ ClosureFails \/ ExitOnce \/ Shutdown
    BY <1>2, StoppingSteps
  <1> QED
    BY <1>1, <1>2 DEF Next, Environment, Process

LEMMA IDStep == IDInv /\ [Next]_vars => IDInv'
  <1> SUFFICES ASSUME IDInv, [Next]_vars PROVE IDInv'
    OBVIOUS
  <1>1. TypeInv'
    BY TypeStep DEF IDInv
  <1>2. CASE ReadLine
    <2> DEFINE l == log[pos + 1]
    <2>1. l \in Line /\ lineNumber + 1 \in Nat \ {0}
      BY <1>2 DEF ReadLine, IDInv, TypeInv, TypeOK, OffsetsInOrder
    <2>2. CASE l.kind = "died" /\ ObserveDeath(l, lineNumber + 1)
      <3> HIDE DEF l
      <3> QED BY <1>1, <2>1, <2>2, ObserveDeathIDInv
    <2>3. CASE UNCHANGED <<deaths, ordinals>>
      BY <1>1, <2>3, SameDeathsIDInv
    <2> QED BY <1>2, <2>2, <2>3
         DEF ReadLine, TrackerObserve, ObserveRunStart, ObserveRunEnd, trackerVars
  <1>3. CASE \E how \in {"ok", "failure", "killed"} : Stop(how)
    BY <1>1, <1>3, NoDeathsIDInv DEF Stop
  <1>4. CASE UNCHANGED <<deaths, ordinals>>
    BY <1>1, <1>4, SameDeathsIDInv
  <1> QED BY <1>2, <1>3, <1>4, TrackerSteps

(* Two tracked deaths that can be hashed never get one id: the ordinal tells  *)
(* deaths of one victim at one instant of one run apart, and a restart, which *)
(* resets the ordinals, forgets the deaths as well.                           *)
THEOREM HashedIDsDistinct == Spec => []IDsDistinct
  <1>1. Init => IDInv
    BY InitTypeOK DEF Init, TrackerInit, IDInv, OrdinalsAhead, IDsDistinct
  <1>2. IDInv => IDsDistinct
    BY DEF IDInv
  <1> QED BY <1>1, <1>2, IDStep, PTL DEF Spec

-------------------------------------------------------------------------------
(* Deaths and the lines they were read from.  The line numbers of this        *)
(* process count from where it began to read, which stays the same while it   *)
(* lives; so each tracked death is at a known line of the log, those not yet  *)
(* stored past the committed offset and in the order they were read.          *)
LogLine(d) == d.line + (pos - lineNumber)

ComesFrom(d, i) == log[i].kind = "died" /\ log[i].who = d.who /\ Instant(log[i]) = d.at

DeathsAreLines ==
  /\ \A k \in DOMAIN deaths :
       /\ LogLine(deaths[k]) \in 1 .. pos
       /\ ComesFrom(deaths[k], LogLine(deaths[k]))
       /\ k > persistedDeaths <=> LogLine(deaths[k]) > offset
  /\ \A k, m \in DOMAIN deaths : k < m => deaths[k].line < deaths[m].line
  /\ \A i \in DeathLines(pos) :
       i > offset => \E k \in DOMAIN deaths : LogLine(deaths[k]) = i

(* Each stored event has a death line of its own below the offset.            *)
EventsAreLines ==
  \E f \in [events -> 1 .. offset] :
    /\ \A e \in events : ComesFrom(e, f[e])
    /\ \A e1, e2 \in events : f[e1] = f[e2] => e1 = e2

LineInv == TypeInv /\ DeathsAreLines /\ EventsAreLines

LEMMA DeathTypes ==
  ASSUME TypeInv
  PROVE  /\ deaths \in Seq(Candidate) /\ Len(deaths) \in Nat
         /\ DOMAIN deaths = 1 .. Len(deaths)
         /\ \A k \in DOMAIN deaths : deaths[k].line \in Nat \ {0}
         /\ pos \in Nat /\ lineNumber \in Nat /\ offset \in Nat /\ persistedDeaths \in Nat
         /\ persistedDeaths <= Len(deaths) /\ lineNumber <= pos
         /\ pos <= Len(log) /\ offset <= Len(log)
         /\ log \in Seq(Line) /\ Len(log) \in Nat /\ DOMAIN log = 1 .. Len(log)
  <1>1. deaths \in Seq(Candidate) /\ Len(deaths) \in Nat /\ DOMAIN deaths = 1 .. Len(deaths)
    BY DEF TypeInv, TypeOK, TrackerTypeOK
  <1>2. \A k \in DOMAIN deaths : deaths[k].line \in Nat \ {0}
    <2>1. \A k \in DOMAIN deaths : deaths[k] \in Candidate
      BY <1>1
    <2> QED BY <2>1 DEF Candidate
  <1> QED BY <1>1, <1>2 DEF TypeInv, TypeOK, StoreTypeOK, OffsetsInOrder

(* What every other step leaves alone.                                        *)
LEMMA LineSteps ==
  ASSUME [Next]_vars
  PROVE  \/ WriteLine \/ Start \/ ReadLine \/ PersistPoll
         \/ \E how \in {"ok", "failure", "killed"} : Stop(how)
         \/ UNCHANGED <<log, deaths, persistedDeaths, pos, lineNumber, events, offset, runCtx>>
  <1>1. CASE \/ Elapse \/ Interrupt \/ BeginPoll \/ EndOfPoll \/ SkipPersist
             \/ SupersededDone \/ UNCHANGED vars
    BY <1>1 DEF Elapse, Interrupt, BeginPoll, EndOfPoll, SkipPersist, SupersededDone,
                vars, trackerVars, storeVars, pollVars
  <1>2. CASE CloseSuperseded \/ CloseCompleted \/ CloseInactive
    BY <1>2 DEF CloseSuperseded, CloseCompleted, CloseInactive, PersistClosure, CloseRun,
                trackerVars, storeVars, pollVars
  <1>3. CASE Kill \/ AbortPoll \/ PersistFails \/ ClosureFails \/ ExitOnce \/ Shutdown
    BY <1>3, StoppingSteps
  <1> QED
    BY <1>1, <1>2, <1>3 DEF Next, Environment, Process

LEMMA WriteLineLines ==
  ASSUME LineInv, WriteLine
  PROVE  LineInv'
  <1>1. TypeInv'
    BY WriteLineType DEF LineInv
  <1>2. PICK l \in Line : log' = Append(log, l)
    BY DEF WriteLine
  <1>3. \A i \in 1 .. Len(log) : log'[i] = log[i]
    BY <1>2, DeathTypes DEF LineInv
  <1>4. /\ deaths' = deaths /\ pos' = pos /\ lineNumber' = lineNumber
        /\ persistedDeaths' = persistedDeaths /\ offset' = offset /\ events' = events
    BY DEF WriteLine, trackerVars, pollVars, storeVars
  <1>5. \A d, i : i \in 1 .. Len(log) => (ComesFrom(d, i) <=> ComesFrom(d, i)')
    BY <1>3 DEF ComesFrom
  <1>6. \A i \in 1 .. pos : i \in 1 .. Len(log)
    BY DeathTypes DEF LineInv
  <1>7. DeathLines(pos)' = DeathLines(pos)
    BY <1>3, <1>4, <1>6 DEF DeathLines
  <1>8. DeathsAreLines'
    <2>1. \A k \in DOMAIN deaths : LogLine(deaths[k])' = LogLine(deaths[k])
      BY <1>4 DEF LogLine
    <2>2. \A k \in DOMAIN deaths : ComesFrom(deaths[k], LogLine(deaths[k]))'
      <3> SUFFICES ASSUME NEW k \in DOMAIN deaths
                   PROVE  ComesFrom(deaths[k], LogLine(deaths[k]))'
        OBVIOUS
      <3>1. LogLine(deaths[k]) \in 1 .. Len(log) /\ ComesFrom(deaths[k], LogLine(deaths[k]))
        BY <1>6 DEF LineInv, DeathsAreLines
      <3>2. log'[LogLine(deaths[k])] = log[LogLine(deaths[k])]
        BY <3>1, <1>3
      <3> QED BY <3>1, <3>2, <2>1, <1>4 DEF ComesFrom
    <2> QED BY <1>4, <1>7, <2>1, <2>2 DEF LineInv, DeathsAreLines
  <1>9. EventsAreLines'
    <2>1. PICK f \in [events -> 1 .. offset] :
             /\ \A e \in events : ComesFrom(e, f[e])
             /\ \A e1, e2 \in events : f[e1] = f[e2] => e1 = e2
      BY DEF LineInv, EventsAreLines
    <2>2. \A e \in events : f[e] \in 1 .. Len(log)
      BY <2>1, DeathTypes DEF LineInv
    <2>3. \A e \in events : ComesFrom(e, f[e])'
      BY <2>1, <2>2, <1>3 DEF ComesFrom
    <2> QED BY <1>4, <2>1, <2>3 DEF EventsAreLines
  <1> QED BY <1>1, <1>8, <1>9 DEF LineInv

LEMMA SameEventsAreLines ==
  ASSUME EventsAreLines, log' = log, events' = events, offset' = offset
  PROVE  EventsAreLines'
  BY DEF EventsAreLines, ComesFrom

LEMMA ReadLineLines ==
  ASSUME LineInv, ReadLine
  PROVE  LineInv'
  <1> DEFINE l    == log[pos + 1]
             last == Len(deaths) + 1
  <1>1. TypeInv'
    BY ReadLineType DEF LineInv
  <1>2. /\ log' = log /\ events' = events /\ offset' = offset
        /\ persistedDeaths' = persistedDeaths
        /\ pos' = pos + 1 /\ lineNumber' = lineNumber + 1
        /\ offset <= pos
    BY DEF ReadLine, storeVars, LineInv, TypeInv, OffsetsInOrder
  <1>3. /\ pos \in Nat /\ lineNumber \in Nat /\ offset \in Nat /\ persistedDeaths \in Nat
        /\ Len(deaths) \in Nat /\ DOMAIN deaths = 1 .. Len(deaths)
        /\ persistedDeaths <= Len(deaths) /\ deaths \in Seq(Candidate)
        /\ \A k \in DOMAIN deaths : deaths[k].line \in Nat
    BY DeathTypes DEF LineInv
  <1>4. PICK b \in Int : b = pos - lineNumber /\ b = pos' - lineNumber'
    BY <1>2, <1>3
  <1>5. /\ \A k \in DOMAIN deaths :
             /\ deaths[k].line + b \in 1 .. pos
             /\ ComesFrom(deaths[k], deaths[k].line + b)
             /\ k > persistedDeaths <=> deaths[k].line + b > offset
        /\ \A k, m \in DOMAIN deaths : k < m => deaths[k].line < deaths[m].line
        /\ \A i \in DeathLines(pos) :
             i > offset => \E k \in DOMAIN deaths : deaths[k].line + b = i
    BY <1>4 DEF LineInv, DeathsAreLines, LogLine
  <1>6. \A k \in DOMAIN deaths : deaths[k].line <= lineNumber
    BY <1>3, <1>4, <1>5
  <1>7. SUFFICES
          /\ \A k \in DOMAIN deaths' :
               /\ deaths'[k].line + b \in 1 .. pos + 1
               /\ ComesFrom(deaths'[k], deaths'[k].line + b)
               /\ k > persistedDeaths <=> deaths'[k].line + b > offset
          /\ \A k, m \in DOMAIN deaths' : k < m => deaths'[k].line < deaths'[m].line
          /\ \A i \in DeathLines(pos + 1) :
               i > offset => \E k \in DOMAIN deaths' : deaths'[k].line + b = i
    <2>1. DeathLines(pos)' = DeathLines(pos + 1)
      BY <1>2 DEF DeathLines
    <2>2. DeathsAreLines'
      BY <1>2, <1>4, <1>7, <2>1 DEF DeathsAreLines, LogLine, ComesFrom
    <2> QED BY <1>1, <1>2, <2>2, SameEventsAreLines DEF LineInv
  <1>8. CASE l.kind = "died" /\ ObserveDeath(l, lineNumber + 1)
    <2>1. PICK d : /\ deaths' = Append(deaths, d)
                   /\ d.line = lineNumber + 1 /\ d.who = l.who /\ d.at = Instant(l)
      BY <1>8 DEF ObserveDeath
    <2>2. /\ DOMAIN deaths' = 1 .. last /\ deaths'[last] = d
          /\ \A k \in DOMAIN deaths : deaths'[k] = deaths[k]
          /\ \A k \in 1 .. last : k = last \/ k \in DOMAIN deaths
      BY <1>3, <2>1
    <2>3. d.line + b = pos + 1 /\ ComesFrom(d, pos + 1)
      BY <1>3, <1>4, <1>8, <2>1 DEF ComesFrom
    <2>4. ASSUME NEW k \in DOMAIN deaths'
          PROVE  /\ deaths'[k].line + b \in 1 .. pos + 1
                 /\ ComesFrom(deaths'[k], deaths'[k].line + b)
                 /\ k > persistedDeaths <=> deaths'[k].line + b > offset
      <3>1. CASE k = last
        <4>1. k > persistedDeaths /\ pos + 1 > offset /\ pos + 1 \in 1 .. pos + 1
          BY <3>1, <1>2, <1>3
        <4> QED BY <3>1, <4>1, <2>2, <2>3
      <3>2. CASE k \in DOMAIN deaths
        <4>1. deaths[k].line + b \in 1 .. pos + 1
          BY <3>2, <1>3, <1>5
        <4> QED BY <3>2, <4>1, <2>2, <1>5
      <3> QED BY <2>2, <3>1, <3>2
    <2>5. ASSUME NEW k \in DOMAIN deaths', NEW m \in DOMAIN deaths', k < m
          PROVE  deaths'[k].line < deaths'[m].line
      <3>1. k \in DOMAIN deaths /\ deaths'[k] = deaths[k]
        BY <2>2, <2>5, <1>3
      <3>2. CASE m = last
        BY <3>1, <3>2, <2>1, <2>2, <1>3, <1>6
      <3>3. CASE m \in DOMAIN deaths
        BY <3>1, <3>3, <2>2, <2>5, <1>5
      <3> QED BY <2>2, <3>2, <3>3
    <2>6. ASSUME NEW i \in DeathLines(pos + 1), i > offset
          PROVE  \E k \in DOMAIN deaths' : deaths'[k].line + b = i
      <3>1. CASE i = pos + 1
        <4>1. last \in DOMAIN deaths'
          BY <1>3, <2>2
        <4> QED BY <3>1, <4>1, <2>2, <2>3
      <3>2. CASE i # pos + 1
        <4>1. i \in DeathLines(pos)
          BY <3>2, <1>3 DEF DeathLines
        <4>2. PICK k \in DOMAIN deaths : deaths[k].line + b = i
          BY <4>1, <2>6, <1>5
        <4>3. k \in DOMAIN deaths' /\ deaths'[k] = deaths[k]
          BY <2>2, <1>3
        <4> QED BY <4>2, <4>3
      <3> QED BY <3>1, <3>2
    <2> QED BY <2>4, <2>5, <2>6
  <1>9. CASE l.kind # "died" /\ deaths' = deaths
    <2>1. DeathLines(pos + 1) = DeathLines(pos)
      BY <1>3, <1>9 DEF DeathLines
    <2>2. \A k \in DOMAIN deaths : deaths[k].line + b \in 1 .. pos + 1
      BY <1>3, <1>5
    <2> QED BY <1>5, <1>9, <2>1, <2>2
  <1> QED BY <1>8, <1>9
        DEF ReadLine, TrackerObserve, ObserveRunStart, ObserveRunEnd, trackerVars

(* A new event is one of a death that is not persisted yet.                   *)
LEMMA NewEventIsDeath ==
  ASSUME TypeInv, NEW i \in DOMAIN NewEvents
  PROVE  /\ persistedDeaths + i \in DOMAIN deaths
         /\ persistedDeaths + i > persistedDeaths
         /\ NewEvents[i] = EventInput(deaths[persistedDeaths + i])
         /\ NewEvents[i].who = deaths[persistedDeaths + i].who
         /\ NewEvents[i].at = deaths[persistedDeaths + i].at
  <1>1. i \in 1 .. Len(deaths) - persistedDeaths
    BY NewDeathsType DEF NewEvents, TypeInv
  <1>2. NewEvents[i] = EventInput(deaths[persistedDeaths + i])
    BY NewDeathsType DEF NewEvents, TypeInv
  <1> QED BY <1>1, <1>2, DeathTypes DEF EventInput

LEMMA PersistPollLines ==
  ASSUME LineInv, PersistPoll
  PROVE  LineInv'
  <1>1. TypeInv'
    BY PersistPollType DEF LineInv
  <1>2. /\ log' = log /\ deaths' = deaths /\ pos' = pos /\ lineNumber' = lineNumber
        /\ offset' = pos /\ persistedDeaths' = Len(deaths)
        /\ offset <= pos
    BY DEF PersistPoll, Commit, trackerVars, LineInv, TypeInv, OffsetsInOrder
  <1>3. \A e \in events' :
           e \in events \/ \E i \in DOMAIN NewEvents : e = NewEvents[i]
    BY DEF PersistPoll, Commit
  <1> USE DeathTypes
  <1>4. DeathsAreLines'
    <2>1. \A k \in DOMAIN deaths : ~(k > Len(deaths)) /\ ~(LogLine(deaths[k]) > pos)
      BY DEF LineInv, DeathsAreLines
    <2>2. \A i \in DeathLines(pos) : ~(i > pos)
      BY DEF DeathLines, LineInv
    <2> QED BY <1>2, <2>1, <2>2
        DEF LineInv, DeathsAreLines, LogLine, ComesFrom, DeathLines
  <1>5. PICK f \in [events -> 1 .. offset] :
           /\ \A e \in events : ComesFrom(e, f[e])
           /\ \A e1, e2 \in events : f[e1] = f[e2] => e1 = e2
    BY DEF LineInv, EventsAreLines
  <1> DEFINE Index(e) == CHOOSE i \in DOMAIN NewEvents : e = NewEvents[i]
             line(e)  == LogLine(deaths[persistedDeaths + Index(e)])
             g == [e \in events' |-> IF e \in events THEN f[e] ELSE line(e)]
  <1>6. ASSUME NEW e \in events', e \notin events
        PROVE  /\ Index(e) \in DOMAIN NewEvents /\ e = NewEvents[Index(e)]
               /\ line(e) \in 1 .. pos /\ line(e) > offset
               /\ ComesFrom(e, line(e))
    <2>1. Index(e) \in DOMAIN NewEvents /\ e = NewEvents[Index(e)]
      BY <1>3, <1>6
    <2>2. /\ persistedDeaths + Index(e) \in DOMAIN deaths
          /\ persistedDeaths + Index(e) > persistedDeaths
          /\ e.who = deaths[persistedDeaths + Index(e)].who
          /\ e.at = deaths[persistedDeaths + Index(e)].at
      BY <2>1, NewEventIsDeath DEF LineInv
    <2> QED BY <2>1, <2>2 DEF LineInv, DeathsAreLines, ComesFrom
  <1>7. ASSUME NEW e1 \in events', NEW e2 \in events', e1 \notin events, e2 \notin events,
               line(e1) = line(e2)
        PROVE  e1 = e2
    <2> DEFINE i1 == persistedDeaths + Index(e1)
               i2 == persistedDeaths + Index(e2)
    <2>1. /\ Index(e1) \in DOMAIN NewEvents /\ e1 = NewEvents[Index(e1)]
          /\ Index(e2) \in DOMAIN NewEvents /\ e2 = NewEvents[Index(e2)]
      BY <1>6, <1>7
    <2> HIDE DEF Index
    <2>2. i1 \in DOMAIN deaths /\ i2 \in DOMAIN deaths /\ i1 \in Int /\ i2 \in Int
      BY <2>1, NewEventIsDeath DEF LineInv
    <2>3. deaths[i1].line = deaths[i2].line
      <3>1. deaths[i1].line \in Int /\ deaths[i2].line \in Int /\ pos - lineNumber \in Int
        BY <2>2 DEF LineInv
      <3>2. deaths[i1].line + (pos - lineNumber) = deaths[i2].line + (pos - lineNumber)
        BY <1>7 DEF LogLine
      <3> QED BY <3>1, <3>2
    <2>4. ~(i1 < i2) /\ ~(i2 < i1)
      <3>1. deaths[i1].line \in Int
        BY <2>2 DEF LineInv
      <3> QED BY <2>2, <2>3, <3>1 DEF LineInv, DeathsAreLines
    <2>5. i1 = i2
      BY <2>2, <2>4
    <2> QED BY <2>1, <2>5, NewEventIsDeath DEF LineInv
  <1> HIDE DEF Index, line
  <1>8. g \in [events' -> 1 .. pos]
    <2>1. \A e \in events : f[e] \in 1 .. pos
      BY <1>2, <1>5 DEF LineInv
    <2> QED BY <1>6, <2>1
  <1>9. \A e \in events' : ComesFrom(e, g[e])
    BY <1>5, <1>6
  <1>10. \A e1, e2 \in events' : g[e1] = g[e2] => e1 = e2
    <2> SUFFICES ASSUME NEW e1 \in events', NEW e2 \in events', g[e1] = g[e2]
                 PROVE  e1 = e2
      OBVIOUS
    <2>1. \A e \in events : ~(f[e] > offset)
      BY <1>5 DEF LineInv
    <2> QED BY <1>5, <1>6, <1>7, <2>1
  <1> HIDE DEF g
  <1>11. EventsAreLines'
    BY <1>2, <1>8, <1>9, <1>10 DEF EventsAreLines, ComesFrom
  <1> QED BY <1>1, <1>4, <1>11 DEF LineInv

LEMMA LineStep == LineInv /\ [Next]_vars => LineInv'
  <1> SUFFICES ASSUME LineInv, [Next]_vars PROVE LineInv'
    OBVIOUS
  <1>1. TypeInv'
    BY TypeStep DEF LineInv
  <1>2. CASE WriteLine \/ ReadLine \/ PersistPoll
    BY <1>2, WriteLineLines, ReadLineLines, PersistPollLines
  <1>3. CASE Start \/ \E how \in {"ok", "failure", "killed"} : Stop(how)
    <2>1. /\ log' = log /\ events' = events /\ offset' = offset
          /\ deaths' = << >> /\ pos' <= offset'
      <3>1. offset \in Nat
        BY DeathTypes DEF LineInv
      <3>2. CASE Start
        <4>1. deaths = << >>
          BY <3>2 DEF Start, LineInv, TypeInv, DownIsBlank
        <4>2. deaths' = deaths
          BY <3>2 DEF Start, RestoreRun, trackerVars
        <4> QED BY <3>1, <3>2, <4>1, <4>2 DEF Start, storeVars
      <3>3. ASSUME NEW how, Stop(how)
            PROVE  /\ log' = log /\ events' = events /\ offset' = offset
                   /\ deaths' = << >> /\ pos' <= offset'
        BY <3>1, <3>3 DEF Stop, storeVars
      <3> QED BY <1>3, <3>2, <3>3
    <2>2. DeathsAreLines'
      <3>1. pos' \in Nat /\ offset' \in Nat
        BY <1>1 DEF TypeInv, TypeOK, StoreTypeOK
      <3> QED BY <2>1, <3>1 DEF DeathsAreLines, DeathLines
    <2> QED BY <1>1, <2>1, <2>2, SameEventsAreLines DEF LineInv
  <1>4. CASE UNCHANGED <<log, deaths, persistedDeaths, pos, lineNumber, events, offset, runCtx>>
    <2>1. DeathLines(pos)' = DeathLines(pos)
      BY <1>4 DEF DeathLines
    <2>2. \A d, i : /\ LogLine(d)' = d.line + (pos - lineNumber)
                    /\ LogLine(d) = d.line + (pos - lineNumber)
                    /\ ComesFrom(d, i)' <=> ComesFrom(d, i)
      BY <1>4 DEF LogLine, ComesFrom
    <2>3. DeathsAreLines'
      BY <1>4, <2>1, <2>2 DEF LineInv, DeathsAreLines, LogLine, ComesFrom
    <2> QED BY <1>1, <1>4, <2>3, SameEventsAreLines DEF LineInv
  <1> QED BY <1>2, <1>3, <1>4, LineSteps

LEMMA InitLineInv == Init => LineInv
  <1> SUFFICES ASSUME Init PROVE LineInv
    OBVIOUS
  <1>1. TypeInv /\ deaths = << >> /\ pos = 0 /\ offset = 0 /\ events = {}
    BY InitTypeOK DEF Init, TrackerInit, StoreInit
  <1>2. DeathsAreLines
    BY <1>1 DEF DeathsAreLines, DeathLines
  <1>3. [e \in events |-> 0] \in [events -> 1 .. offset]
    BY <1>1
  <1> QED BY <1>1, <1>2, <1>3 DEF LineInv, EventsAreLines

LEMMA LineInvariant == Spec => []LineInv
  <1> QED BY InitLineInv, LineStep, PTL DEF Spec

(* Events of one victim and instant are at most as many as such death lines.  *)
LEMMA NeverTwiceFromLines == LineInv => NeverTwice
  <1> SUFFICES ASSUME LineInv, NEW p \in Players, NEW t \in Stamps \union {NoInstant}
               PROVE  Cardinality({e \in events : e.who = p /\ e.at = t})
                        <= Cardinality({i \in DeathLines(offset) :
                                          log[i].who = p /\ Instant(log[i]) = t})
    BY DEF NeverTwice
  <1> DEFINE S == {e \in events : e.who = p /\ e.at = t}
             T == {i \in DeathLines(offset) : log[i].who = p /\ Instant(log[i]) = t}
  <1>1. PICK f \in [events -> 1 .. offset] :
           /\ \A e \in events : ComesFrom(e, f[e])
           /\ \A e1, e2 \in events : f[e1] = f[e2] => e1 = e2
    BY DEF LineInv, EventsAreLines
  <1> DEFINE g == [e \in S |-> f[e]]
  <1>2. g \in [S -> T]
    BY <1>1 DEF ComesFrom, DeathLines
  <1>3. \A e1, e2 \in S : g[e1] = g[e2] => e1 = e2
    BY <1>1
  <1>4. IsFiniteSet(T)
    <2>1. IsFiniteSet(1 .. offset)
      BY DeathTypes, FS_Interval DEF LineInv
    <2>2. T \in SUBSET (1 .. offset)
      BY DEF DeathLines
    <2> QED BY <2>1, <2>2, FS_Subset
  <1> HIDE DEF g, S, T
  <1>5. g \in Injection(S, T)
    BY <1>2, <1>3 DEF Injection, IsInjective
  <1>6. Cardinality(S) <= Cardinality(T)
    BY <1>4, <1>5, FS_Injection
  <1> QED BY <1>6 DEF S, T

(* No death is stored twice, whatever is replayed after a crash: a victim has *)
(* at most as many rows for an instant as death lines below the offset.       *)
THEOREM DeathsStoredOnce == Spec => []NeverTwice
  <1> QED BY LineInvariant, NeverTwiceFromLines, PTL
-------------------------------------------------------------------------------
(* The START that governs a line.                                             *)

LEMMA MaxOfNaturals ==
  ASSUME NEW n \in Nat, NEW S \in SUBSET (0 .. n), S # {}
  PROVE  Max(S) \in S /\ \A y \in S : y <= Max(S)
  <1> DEFINE D == {n - y : y \in S}
  <1>1. D \subseteq Nat /\ D # {}
    <2>1. \A y \in S : n - y \in Nat
      OBVIOUS
    <2>2. PICK y \in S : TRUE
      OBVIOUS
    <2>3. n - y \in D
      OBVIOUS
    <2> QED BY <2>1, <2>3
  <1>2. PICK d \in D : \A e \in D : <<e, d>> \notin OpToRel(<, Nat)
    <2> HIDE DEF D
    <2> QED BY <1>1, NatLessThanWellFounded, WFMin
  <1>3. PICK m \in S : d = n - m
    OBVIOUS
  <1>4. \A y \in S : m >= y
    <2> SUFFICES ASSUME NEW y \in S PROVE m >= y
      OBVIOUS
    <2>1. n - y \in D /\ n - y \in Nat /\ d \in Nat
      BY <1>1
    <2>2. ~(n - y < d)
      BY <1>2, <2>1 DEF OpToRel
    <2> QED BY <1>3, <2>2
  <1>5. Max(S) \in S /\ \A y \in S : Max(S) >= y
    BY <1>4 DEF Max
  <1> QED BY <1>5

LEMMA GoverningLineBound ==
  ASSUME NEW i \in Nat
  PROVE  /\ GoverningLine(i) \in {0} \union StartsBefore(i)
         /\ \A j \in StartsBefore(i) : j <= GoverningLine(i)
         /\ GoverningLine(i) \in Nat
         /\ GoverningLine(i) # 0 => GoverningLine(i) \in 1 .. i - 1
  <1> DEFINE S == {0} \union StartsBefore(i)
  <1>1. S \in SUBSET (0 .. i) /\ S # {}
    BY DEF StartsBefore
  <1> HIDE DEF S
  <1>2. Max(S) \in S /\ \A j \in S : j <= Max(S)
    BY <1>1, MaxOfNaturals
  <1> QED BY <1>2 DEF S, GoverningLine, StartsBefore

(* The one start, or 0, that no start before i exceeds.                       *)
LEMMA GoverningLineUnique ==
  ASSUME NEW i \in Nat, NEW g \in {0} \union StartsBefore(i),
         \A j \in StartsBefore(i) : j <= g
  PROVE  GoverningLine(i) = g
  <1>1. GoverningLine(i) \in Nat /\ g \in Nat
    BY GoverningLineBound DEF StartsBefore
  <1>2. GoverningLine(i) <= g
    BY <1>1, GoverningLineBound
  <1>3. g <= GoverningLine(i)
    BY <1>1, GoverningLineBound
  <1> QED BY <1>1, <1>2, <1>3

LEMMA NextGoverningLine ==
  ASSUME NEW i \in Nat \ {0}
  PROVE  /\ log[i].kind = "start" => GoverningLine(i + 1) = i
         /\ log[i].kind # "start" => GoverningLine(i + 1) = GoverningLine(i)
  <1>1. /\ log[i].kind = "start" => StartsBefore(i + 1) = StartsBefore(i) \union {i}
        /\ log[i].kind # "start" => StartsBefore(i + 1) = StartsBefore(i)
        /\ \A j \in StartsBefore(i) : j <= i
    BY DEF StartsBefore
  <1>2. CASE log[i].kind = "start"
    BY <1>1, <1>2, GoverningLineUnique
  <1>3. CASE log[i].kind # "start"
    BY <1>1, <1>3 DEF GoverningLine
  <1> QED BY <1>2, <1>3

(* A START governs the lines after it; an END ends the run for them.          *)
LEMMA NextGoverningRun ==
  ASSUME NEW i \in Nat \ {0}
  PROVE  /\ log[i].kind = "start" =>
              /\ GoverningRun(i + 1) = Instant(log[i])
              /\ InRun(i + 1) <=> Instant(log[i]) # NoRun
         /\ log[i].kind # "start" =>
              /\ GoverningRun(i + 1) = GoverningRun(i)
              /\ InRun(i + 1) <=> InRun(i) /\ log[i].kind # "end"
  <1>1. CASE log[i].kind = "start"
    <2>1. GoverningLine(i + 1) = i /\ GoverningRun(i + 1) = Instant(log[i])
      BY <1>1, NextGoverningLine DEF GoverningRun
    <2>2. \A j \in i .. i + 1 - 1 : log[j].kind # "end"
      BY <1>1
    <2> QED BY <1>1, <2>1, <2>2 DEF InRun
  <1>2. CASE log[i].kind # "start"
    <2>1. GoverningLine(i + 1) = GoverningLine(i) /\ GoverningRun(i + 1) = GoverningRun(i)
      BY <1>2, NextGoverningLine DEF GoverningRun
    <2>2. GoverningRun(i) # NoRun => GoverningLine(i) \in 1 .. i - 1
      BY GoverningLineBound DEF GoverningRun
    <2>3. GoverningRun(i) # NoRun =>
            GoverningLine(i) .. i + 1 - 1 = (GoverningLine(i) .. i - 1) \union {i}
      BY <2>2
    <2> QED BY <1>2, <2>1, <2>3 DEF InRun
  <1> QED BY <1>1, <1>2

(* Lines to come change nothing for the lines there are, and the next one.    *)
LEMMA GoverningAppend ==
  ASSUME TypeInv, WriteLine, NEW i \in 1 .. Len(log) + 1
  PROVE  /\ GoverningLine(i)' = GoverningLine(i)
         /\ GoverningRun(i)' = GoverningRun(i)
         /\ InRun(i)' <=> InRun(i)
  <1>1. \A j \in 1 .. Len(log) : log'[j] = log[j]
    BY DeathTypes DEF WriteLine
  <1>2. i \in Nat /\ Len(log) \in Nat
    BY DeathTypes
  <1>3. StartsBefore(i)' = StartsBefore(i)
    BY <1>1, <1>2 DEF StartsBefore
  <1>4. GoverningLine(i)' = GoverningLine(i)
    BY <1>3 DEF GoverningLine
  <1>5. GoverningLine(i) = 0 \/ GoverningLine(i) \in 1 .. i - 1
    BY <1>2, GoverningLineBound
  <1>6. GoverningRun(i)' = GoverningRun(i)
    BY <1>1, <1>2, <1>4, <1>5 DEF GoverningRun
  <1>7. GoverningRun(i) # NoRun =>
          \A j \in GoverningLine(i) .. i - 1 : log'[j] = log[j]
    BY <1>1, <1>2, <1>5 DEF GoverningRun
  <1> QED BY <1>4, <1>6, <1>7 DEF InRun

LEMMA GoverningSameLog ==
  ASSUME log' = log, NEW i
  PROVE  /\ GoverningRun(i)' = GoverningRun(i)
         /\ InRun(i)' <=> InRun(i)
  <1>1. StartsBefore(i)' = StartsBefore(i)
    BY DEF StartsBefore
  <1>2. GoverningLine(i)' = GoverningLine(i)
    BY <1>1 DEF GoverningLine
  <1> QED BY <1>2 DEF GoverningRun, InRun

-------------------------------------------------------------------------------
(* The first process begins with an empty store.                              *)
NothingStored ==
  starts = 0 => pc = "down" /\ \A r \in RunIds : runs[r].status = "absent"

(* A stopped process is only started; meanwhile the game goes on.             *)
LEMMA DownSteps ==
  ASSUME [Next]_vars, pc = "down"
  PROVE  WriteLine \/ Start \/ UNCHANGED vars
  BY DEF Next, Environment, Process, Elapse, Interrupt, Kill, BeginPoll, ReadLine, EndOfPoll,
         AbortPoll, SkipPersist, PersistPoll, PersistFails, CloseSuperseded,
         SupersededDone, CloseCompleted, CloseInactive, ClosureFails, ExitOnce, Shutdown

LEMMA StartsSteps ==
  ASSUME [Next]_vars
  PROVE  starts' = starts \/ Start
  <1>1. CASE Kill \/ AbortPoll \/ PersistFails \/ ClosureFails \/ ExitOnce \/ Shutdown
    BY <1>1, StoppingSteps DEF Stop
  <1>2. CASE \/ WriteLine \/ Elapse \/ Interrupt \/ BeginPoll \/ ReadLine \/ EndOfPoll
             \/ SkipPersist \/ PersistPoll \/ CloseSuperseded \/ SupersededDone
             \/ CloseCompleted \/ CloseInactive \/ UNCHANGED vars
    BY <1>2 DEF WriteLine, Elapse, Interrupt, BeginPoll, ReadLine, EndOfPoll, SkipPersist,
                PersistPoll, CloseSuperseded, SupersededDone, CloseCompleted,
                CloseInactive, vars, stopVars
  <1> QED BY <1>1, <1>2 DEF Next, Environment, Process

LEMMA NothingStoredStep == TypeInv /\ NothingStored /\ [Next]_vars => NothingStored'
  <1> SUFFICES ASSUME TypeInv, NothingStored, [Next]_vars, starts' = 0
               PROVE  pc' = "down" /\ \A r \in RunIds : runs'[r].status = "absent"
    BY DEF NothingStored
  <1>1. starts \in Nat
    BY DEF TypeInv, TypeOK
  <1>2. ~Start
    <2>1. starts + 1 # 0
      BY <1>1
    <2> QED BY <2>1 DEF Start
  <1>3. starts = 0
    BY <1>2, StartsSteps
  <1> QED BY <1>2, <1>3, DownSteps DEF NothingStored, WriteLine, vars, storeVars

-------------------------------------------------------------------------------
(* Completed runs.  A run in progress is the one whose START governs the next *)
(* line, so the END that completes it is governed by its START.               *)
EndRead(r, n) == \E j \in 1 .. n : log[j].kind = "end" /\ GoverningRun(j) = r

SessionGoverned ==
  starts <= 1 =>
    /\ Open(current) => current.run = GoverningRun(pos + 1)
    /\ current.state = "completed" => EndRead(current.run, pos)

SessionInv == TypeInv /\ NothingStored /\ SessionGoverned /\ CompletedHasEnd

LEMMA EndReadUpTo ==
  ASSUME NEW r, NEW n \in Nat, NEW m \in Nat, n <= m, EndRead(r, n)
  PROVE  EndRead(r, m)
  BY DEF EndRead

LEMMA WriteLineSession == SessionInv /\ WriteLine => SessionInv'
  <1> SUFFICES ASSUME SessionInv, WriteLine PROVE SessionInv'
    OBVIOUS
  <1>1. TypeInv' /\ NothingStored'
    BY WriteLineType, NothingStoredStep DEF SessionInv, Next, Environment
  <1>2. /\ current' = current /\ runs' = runs /\ pos' = pos /\ offset' = offset
        /\ starts' = starts
    BY DEF WriteLine, sessionVars, storeVars, pollVars, stopVars
  <1>3. pos + 1 \in 1 .. Len(log) + 1 /\ pos <= Len(log) /\ offset <= Len(log)
        /\ pos \in Nat /\ offset \in Nat /\ Len(log) \in Nat
    BY DeathTypes DEF SessionInv
  <1>4. \A j \in 1 .. Len(log) : log'[j] = log[j] /\ GoverningRun(j)' = GoverningRun(j)
    <2>1. \A j \in 1 .. Len(log) : log'[j] = log[j]
      BY DeathTypes DEF WriteLine, SessionInv
    <2>2. \A j \in 1 .. Len(log) : j \in 1 .. Len(log) + 1
      BY <1>3
    <2> QED BY <2>1, <2>2, GoverningAppend DEF SessionInv
  <1>5. GoverningRun(pos + 1)' = GoverningRun(pos + 1)
    BY <1>2, <1>3, GoverningAppend DEF SessionInv
  <1>6. \A n \in 0 .. Len(log) : \A r : EndRead(r, n) => EndRead(r, n)'
    BY <1>3, <1>4 DEF EndRead
  <1>7. SessionGoverned'
    <2>1. (Open(current))' <=> Open(current)
      BY <1>2 DEF Open
    <2>2. EndRead(current.run, pos) => EndRead(current.run, pos)'
      BY <1>2, <1>3, <1>4 DEF EndRead
    <2> QED BY <1>2, <1>5, <2>1, <2>2 DEF SessionInv, SessionGoverned
  <1>8. CompletedHasEnd'
    <2> SUFFICES ASSUME NEW r \in RunIds, starts <= 1, (runs[r].status = "completed")'
                 PROVE  EndRead(r, offset)'
      BY <1>2 DEF CompletedHasEnd, EndRead
    <2>1. EndRead(r, offset)
      BY <1>2 DEF SessionInv, CompletedHasEnd, EndRead
    <2>2. offset \in 0 .. Len(log)
      BY <1>3
    <2>3. \E i \in 1 .. offset : (log[i].kind = "end" /\ GoverningRun(i) = r)'
      BY <1>4, <2>1, <2>2 DEF EndRead
    <2> QED BY <1>2, <2>3 DEF EndRead
  <1> QED BY <1>1, <1>7, <1>8 DEF SessionInv

LEMMA StartSession == SessionInv /\ Start => SessionInv'
  <1> SUFFICES ASSUME SessionInv, Start PROVE SessionInv'
    OBVIOUS
  <1>1. TypeInv' /\ NothingStored'
    BY StartType, NothingStoredStep DEF SessionInv, Next
  <1>2. runs' = runs /\ starts' = starts + 1 /\ starts \in Nat
    BY DEF Start, storeVars, SessionInv, TypeInv, TypeOK
  <1>3. ASSUME starts' <= 1
        PROVE  current' = Idle /\ \A r \in RunIds : runs'[r].status # "completed"
    <2>1. \A r \in RunIds : runs[r].status = "absent"
      BY <1>2, <1>3 DEF SessionInv, NothingStored
    <2>2. MostRecentActive = {}
      BY <2>1 DEF MostRecentActive, ActiveRuns
    <2> QED BY <1>2, <2>1, <2>2 DEF Start, sessionVars, SessionInv, TypeInv, DownIsBlank
  <1>4. SessionGoverned' /\ CompletedHasEnd'
    BY <1>3 DEF SessionGoverned, CompletedHasEnd, Open, Idle
  <1> QED BY <1>1, <1>4 DEF SessionInv

LEMMA ReadLineGoverned == SessionInv /\ ReadLine => SessionInv'
  <1> SUFFICES ASSUME SessionInv, ReadLine PROVE SessionInv'
    OBVIOUS
  <1> DEFINE l == log[pos + 1]
  <1>1. TypeInv' /\ NothingStored'
    BY ReadLineType, NothingStoredStep DEF SessionInv, Next, Process
  <1>2. /\ log' = log /\ runs' = runs /\ offset' = offset /\ starts' = starts
        /\ pos' = pos + 1 /\ pos \in Nat /\ pos + 1 \in Nat \ {0}
        /\ current \in Snapshot
    BY DEF ReadLine, storeVars, stopVars, SessionInv, TypeInv, TypeOK, SessionTypeOK
  <1>3. \A i : GoverningRun(i)' = GoverningRun(i)
    BY <1>2, GoverningSameLog
  <1>4. CompletedHasEnd'
    BY <1>2, <1>3 DEF SessionInv, CompletedHasEnd
  <1>5. SessionGoverned'
    <2> SUFFICES ASSUME starts <= 1
                 PROVE  /\ Open(current') => current'.run = GoverningRun(pos + 1 + 1)
                        /\ current'.state = "completed" =>
                             \E j \in 1 .. pos + 1 :
                               log[j].kind = "end" /\ GoverningRun(j) = current'.run
      BY <1>2, <1>3 DEF SessionGoverned, EndRead, Open
    <2>1. /\ Open(current) => current.run = GoverningRun(pos + 1)
          /\ current.state = "completed" => EndRead(current.run, pos + 1)
      BY <1>2, EndReadUpTo DEF SessionInv, SessionGoverned
    <2>2. CASE l.kind = "start" /\ ObserveStart(Instant(l), TickAfter(Now))
      <3>1. GoverningRun(pos + 1 + 1) = Instant(l)
        BY <1>2, <2>2, NextGoverningRun
      <3> QED BY <2>2, <3>1 DEF ObserveStart, Open
    <2>3. CASE l.kind = "end" /\ ObserveEnd
      <3>1. CASE Open(current)
        <4>1. current'.state = "completed" /\ current'.run = current.run
          BY <1>2, <2>3, <3>1 DEF ObserveEnd, Snapshot
        <4>2. pos + 1 \in 1 .. pos + 1
          BY <1>2
        <4> QED BY <2>1, <2>3, <3>1, <4>1, <4>2 DEF Open
      <3>2. CASE ~Open(current)
        BY <2>1, <2>3, <3>2 DEF ObserveEnd, EndRead
      <3> QED BY <3>1, <3>2
    <2>4. CASE /\ l.kind \in {"failedEnd", "died", "activity", "quiet"}
               /\ ObserveActivity \/ UNCHANGED sessionVars
      <3>1. GoverningRun(pos + 1 + 1) = GoverningRun(pos + 1)
        BY <1>2, <2>4, NextGoverningRun
      <3>2. current'.state = current.state /\ current'.run = current.run
        BY <1>2, <2>4 DEF ObserveActivity, sessionVars, Snapshot
      <3> QED BY <2>1, <3>1, <3>2 DEF Open, EndRead
    <2> QED BY <2>2, <2>3, <2>4 DEF ReadLine, SessionObserve
  <1> QED BY <1>1, <1>4, <1>5 DEF SessionInv

LEMMA PersistPollSession == SessionInv /\ PersistPoll => SessionInv'
  <1> SUFFICES ASSUME SessionInv, PersistPoll PROVE SessionInv'
    OBVIOUS
  <1>1. TypeInv' /\ NothingStored'
    BY PersistPollType, NothingStoredStep DEF SessionInv, Next, Process
  <1>2. /\ log' = log /\ starts' = starts /\ pos' = pos /\ current' = current
        /\ offset' = pos /\ offset <= pos /\ offset \in Nat /\ pos \in Nat
    BY DEF PersistPoll, Commit, sessionVars, stopVars, SessionInv, TypeInv, TypeOK,
           StoreTypeOK, OffsetsInOrder
  <1>3. \A i : GoverningRun(i)' = GoverningRun(i)
    BY <1>2, GoverningSameLog
  <1>4. \A r \in RunIds : runs'[r].status = "completed" => runs[r].status = "completed"
    BY CommitStatus DEF PersistPoll, SessionInv, TypeInv, TypeOK
  <1>5. CompletedHasEnd'
    BY <1>2, <1>3, <1>4 DEF SessionInv, CompletedHasEnd
  <1>6. SessionGoverned'
    BY <1>2, <1>3 DEF SessionInv, SessionGoverned, EndRead, Open
  <1> QED BY <1>1, <1>5, <1>6 DEF SessionInv

(* The other steps leave the log and the offsets, may give up the session's   *)
(* run, and close no run as completed but one whose END was read.             *)
LEMMA LaterPhaseSession ==
  ASSUME SessionInv, TypeInv', NothingStored',
         UNCHANGED <<log, starts, offset>>,
         current' = Idle \/ pos' = pos,
         \/ current' = Idle
         \/ current'.state = "abandoned"
         \/ current'.state = current.state /\ current'.run = current.run,
         \A r \in RunIds :
           runs'[r].status = "completed" =>
             \/ runs[r].status = "completed"
             \/ starts <= 1 => EndRead(r, offset)
  PROVE  SessionInv'
  <1>1. \A i : GoverningRun(i)' = GoverningRun(i)
    BY GoverningSameLog
  <1>2. CompletedHasEnd'
    BY <1>1 DEF SessionInv, CompletedHasEnd, EndRead
  <1>3. SessionGoverned'
    <2>1. CASE current' = Idle \/ current'.state = "abandoned"
      BY <2>1 DEF SessionGoverned, Open, Idle
    <2>2. CASE pos' = pos /\ current'.state = current.state /\ current'.run = current.run
      BY <1>1, <2>2 DEF SessionInv, SessionGoverned, Open, EndRead
    <2> QED BY <2>1, <2>2
  <1> QED BY <1>2, <1>3 DEF SessionInv

LEMMA SessionStep == SessionInv /\ [Next]_vars => SessionInv'
  <1> SUFFICES ASSUME SessionInv, [Next]_vars PROVE SessionInv'
    OBVIOUS
  <1>1. TypeInv' /\ NothingStored'
    BY TypeStep, NothingStoredStep DEF SessionInv
  <1>2. StoreTypeOK /\ current \in Snapshot
    BY DEF SessionInv, TypeInv, TypeOK, SessionTypeOK
  <1>3. CASE WriteLine \/ Start \/ ReadLine \/ PersistPoll
    BY <1>3, WriteLineSession, StartSession, ReadLineGoverned, PersistPollSession
  <1>4. CASE \/ Elapse \/ Interrupt \/ BeginPoll \/ UNCHANGED vars
             \/ EndOfPoll \/ SkipPersist \/ SupersededDone
    <2>1. /\ UNCHANGED <<log, starts, offset, runs, pos>>
          /\ current'.state = current.state /\ current'.run = current.run
      BY <1>2, <1>4 DEF Elapse, ElapseInSession, Interrupt, BeginPoll, EndOfPoll, SkipPersist,
             SupersededDone, vars, sessionVars, storeVars, pollVars, stopVars, Snapshot
    <2> QED BY <1>1, <2>1, LaterPhaseSession
  <1>5. CASE Kill \/ AbortPoll \/ PersistFails \/ ClosureFails \/ ExitOnce \/ Shutdown
    <2>1. UNCHANGED <<log, starts, offset, runs>> /\ current' = Idle
      BY <1>5, StoppingSteps DEF Stop, storeVars
    <2> QED BY <1>1, <2>1, LaterPhaseSession
  <1>6. CASE CloseSuperseded
    <2>1. UNCHANGED <<log, starts, offset, pos, current>>
      BY <1>6 DEF CloseSuperseded, TakeAbandoned, PersistClosure, CloseRun, storeVars,
                  pollVars, stopVars
    <2>2. \A r \in RunIds : runs'[r].status = "completed" => runs[r].status = "completed"
      BY <1>2, <1>6 DEF CloseSuperseded, PersistClosure, CloseRun, storeVars, StoreTypeOK
    <2> QED BY <1>1, <2>1, <2>2, LaterPhaseSession
  <1>7. CASE CloseCompleted
    <2>1. UNCHANGED <<log, starts, offset, pos>> /\ pos = offset
      BY <1>7 DEF CloseCompleted, PersistClosure, CloseRun, storeVars, pollVars, stopVars,
                  SessionInv, TypeInv, OffsetsInOrder
    <2>2. CASE TakeCompleted /\ PersistClosure(current, "completed")
      <3>1. current' = Idle
        BY <2>2 DEF TakeCompleted
      <3>2. starts <= 1 => EndRead(current.run, offset)
        BY <2>1, <2>2 DEF TakeCompleted, SessionInv, SessionGoverned
      <3>3. \A r \in RunIds : r # current.run => runs'[r].status = runs[r].status
        BY <1>2, <2>2 DEF PersistClosure, CloseRun, storeVars, StoreTypeOK
      <3> QED BY <1>1, <2>1, <3>1, <3>2, <3>3, LaterPhaseSession
    <2>3. CASE UNCHANGED <<sessionVars, storeVars>>
      BY <1>1, <2>1, <2>3, LaterPhaseSession DEF sessionVars, storeVars
    <2> QED BY <1>7, <2>2, <2>3 DEF CloseCompleted
  <1>8. CASE CloseInactive
    <2>1. UNCHANGED <<log, starts, offset, pos>>
      BY <1>8 DEF CloseInactive, PersistClosure, CloseRun, storeVars, pollVars, stopVars
    <2>2. CASE CheckInactivity /\ PersistClosure(current, "abandoned")
      <3>1. current'.state = "abandoned"
        BY <1>2, <2>2 DEF CheckInactivity, Abandoned, Snapshot
      <3>2. \A r \in RunIds : runs'[r].status = "completed" => runs[r].status = "completed"
        BY <1>2, <2>2 DEF PersistClosure, CloseRun, storeVars, StoreTypeOK
      <3> QED BY <1>1, <2>1, <3>1, <3>2, LaterPhaseSession
    <2>3. CASE UNCHANGED <<sessionVars, storeVars>>
      BY <1>1, <2>1, <2>3, LaterPhaseSession DEF sessionVars, storeVars
    <2> QED BY <1>8, <2>2, <2>3 DEF CloseInactive
  <1> QED
    BY <1>3, <1>4, <1>5, <1>6, <1>7, <1>8 DEF Next, Environment, Process

(* A run is stored as completed only if the log has, before the committed     *)
(* offset, an END that its START governs (of a first process; one that is     *)
(* started again may complete a restored run with the END of a later one).    *)
THEOREM CompletedRunsEnded == Spec => []CompletedHasEnd
  <1>1. Init => SessionInv
    <2> SUFFICES ASSUME Init PROVE SessionInv
      OBVIOUS
    <2>1. /\ current = Idle /\ pc = "down"
          /\ \A r \in RunIds : runs[r].status = "absent"
      BY DEF Init, SessionInit, StoreInit
    <2> QED BY <2>1, InitTypeOK
         DEF SessionInv, NothingStored, SessionGoverned, CompletedHasEnd, Open, Idle
  <1>2. SessionInv => CompletedHasEnd
    BY DEF SessionInv
  <1> QED BY <1>1, <1>2, SessionStep, PTL DEF Spec

-------------------------------------------------------------------------------
(* Attribution.  The tracker's context, while active, is the run that governs *)
(* the next line and whose END was not read; a death that can be hashed was   *)
(* read under such a context.                                                 *)
InRunOf(i, r) == GoverningRun(i) = r /\ InRun(i)

ContextGoverned ==
  starts <= 1 =>
    /\ runCtx.active => GoverningRun(pos + 1) = runCtx.run
    /\ runCtx.active /\ runCtx.run # NoRun => InRun(pos + 1)
    /\ \A k \in DOMAIN deaths :
         CanComputeIDs(deaths[k]) => InRunOf(LogLine(deaths[k]), deaths[k].run)

ContextInv == LineInv /\ NothingStored /\ ContextGoverned /\ AttributedToItsRun

LEMMA WriteLineContext == ContextInv /\ WriteLine => ContextInv'
  <1> SUFFICES ASSUME ContextInv, WriteLine PROVE ContextInv'
    OBVIOUS
  <1> USE DEF ContextInv, LineInv
  <1>1. LineInv' /\ NothingStored'
    BY WriteLineLines, NothingStoredStep DEF Next, Environment
  <1>2. UNCHANGED <<runCtx, deaths, events, offset, pos, lineNumber, starts>>
    BY DEF WriteLine, trackerVars, storeVars, pollVars, stopVars
  <1>3. /\ pos + 1 \in 1 .. Len(log) + 1
        /\ \A i \in 1 .. pos : i \in 1 .. Len(log) /\ i \in 1 .. Len(log) + 1
        /\ \A i \in 1 .. offset : i \in 1 .. Len(log) /\ i \in 1 .. Len(log) + 1
    BY DeathTypes
  <1>4. /\ GoverningRun(pos + 1)' = GoverningRun(pos + 1)
        /\ InRun(pos + 1)' <=> InRun(pos + 1)
    BY <1>2, <1>3, GoverningAppend
  <1>5. \A i \in 1 .. Len(log) :
           /\ log'[i] = log[i]
           /\ GoverningRun(i)' = GoverningRun(i)
           /\ InRun(i)' <=> InRun(i)
    <2>1. \A i \in 1 .. Len(log) : log'[i] = log[i] /\ i \in 1 .. Len(log) + 1
      BY DeathTypes DEF WriteLine
    <2> QED BY <2>1, GoverningAppend
  <1>6. ContextGoverned'
    <2> SUFFICES ASSUME starts <= 1, NEW k \in DOMAIN deaths, CanComputeIDs(deaths[k])
                 PROVE  InRunOf(LogLine(deaths[k]), deaths[k].run)'
      BY <1>2, <1>4 DEF ContextGoverned, CanComputeIDs
    <2> DEFINE i == LogLine(deaths[k])
    <2>1. i \in 1 .. Len(log) /\ InRunOf(i, deaths[k].run)
      BY <1>3 DEF DeathsAreLines, ContextGoverned
    <2>2. LogLine(deaths[k])' = i
      BY <1>2 DEF LogLine
    <2> HIDE DEF i
    <2> QED BY <1>2, <1>5, <2>1, <2>2 DEF InRunOf
  <1>7. AttributedToItsRun'
    <2> SUFFICES ASSUME starts <= 1, NEW e \in events, e.hashed
                 PROVE  \E i \in 1 .. offset :
                          /\ log'[i].kind = "died"
                          /\ log'[i].who = e.who /\ Instant(log'[i]) = e.at
                          /\ GoverningRun(i)' = e.run /\ InRun(i)'
      BY <1>2 DEF AttributedToItsRun, DeathLines
    <2>1. PICK i \in 1 .. offset :
             /\ log[i].kind = "died"
             /\ log[i].who = e.who /\ Instant(log[i]) = e.at
             /\ GoverningRun(i) = e.run /\ InRun(i)
      BY DEF AttributedToItsRun, DeathLines
    <2>2. i \in 1 .. Len(log)
      BY <1>3
    <2> QED BY <1>5, <2>1, <2>2
  <1> QED BY <1>1, <1>6, <1>7

(* While the log stays, an event keeps its line.                              *)
LEMMA SameLogAttributed ==
  ASSUME AttributedToItsRun, starts' <= 1 => starts <= 1,
         log' = log, events' = events, offset' = offset
  PROVE  AttributedToItsRun'
  <1>1. \A i : GoverningRun(i)' = GoverningRun(i) /\ (InRun(i)' <=> InRun(i))
    BY GoverningSameLog
  <1>2. DeathLines(offset)' = DeathLines(offset)
    BY DEF DeathLines
  <1> QED BY <1>1, <1>2 DEF AttributedToItsRun

LEMMA ReadLineContext == ContextInv /\ ReadLine => ContextInv'
  <1> SUFFICES ASSUME ContextInv, ReadLine PROVE ContextInv'
    OBVIOUS
  <1> USE DEF ContextInv, LineInv
  <1> DEFINE l == log[pos + 1]
  <1>1. LineInv' /\ NothingStored'
    BY ReadLineLines, NothingStoredStep DEF Next, Process
  <1>2. /\ log' = log /\ events' = events /\ offset' = offset /\ starts' = starts
        /\ pos' = pos + 1 /\ lineNumber' = lineNumber + 1
        /\ pos \in Nat /\ lineNumber \in Nat
        /\ deaths \in Seq(Candidate) /\ Len(deaths) \in Nat
        /\ \A k \in DOMAIN deaths : deaths[k].line \in Nat
    BY DeathTypes DEF ReadLine, storeVars, stopVars
  <1>3. \A i : GoverningRun(i)' = GoverningRun(i) /\ (InRun(i)' <=> InRun(i))
    BY <1>2, GoverningSameLog
  <1>4. PICK b \in Int : b = pos - lineNumber /\ b = pos' - lineNumber'
    BY <1>2
  <1>5. /\ starts' <= 1 => starts <= 1
        /\ pos + 1 \in Nat \ {0}
        /\ runCtx \in [active : BOOLEAN, run : RunIds \union {NoRun}]
    BY <1>2 DEF TypeInv, TypeOK, TrackerTypeOK
  <1>6. ContextGoverned'
    <2> SUFFICES ASSUME starts <= 1
                 PROVE  /\ runCtx'.active => GoverningRun(pos + 1 + 1) = runCtx'.run
                        /\ runCtx'.active /\ runCtx'.run # NoRun => InRun(pos + 1 + 1)
                        /\ \A k \in DOMAIN deaths' :
                             CanComputeIDs(deaths'[k]) =>
                               InRunOf(deaths'[k].line + b, deaths'[k].run)
      BY <1>2, <1>3, <1>4 DEF ContextGoverned, LogLine, InRunOf, CanComputeIDs
    <2>1. /\ runCtx.active => GoverningRun(pos + 1) = runCtx.run
          /\ runCtx.active /\ runCtx.run # NoRun => InRun(pos + 1)
          /\ \A k \in DOMAIN deaths :
               CanComputeIDs(deaths[k]) => InRunOf(deaths[k].line + b, deaths[k].run)
      BY <1>4 DEF ContextGoverned, LogLine
    <2>2. CASE l.kind = "start" /\ ObserveRunStart(Instant(l))
      BY <1>5, <2>1, <2>2, NextGoverningRun DEF ObserveRunStart
    <2>3. CASE l.kind = "end" /\ ObserveRunEnd
      BY <1>5, <2>1, <2>3 DEF ObserveRunEnd
    <2>4. CASE l.kind \in {"failedEnd", "activity", "quiet"} /\ UNCHANGED trackerVars
      <3>1. GoverningRun(pos + 1 + 1) = GoverningRun(pos + 1)
            /\ (InRun(pos + 1 + 1) <=> InRun(pos + 1))
        BY <1>5, <2>4, NextGoverningRun
      <3> QED BY <2>1, <2>4, <3>1 DEF trackerVars
    <2>5. CASE l.kind = "died" /\ ObserveDeath(l, lineNumber + 1)
      <3>1. /\ GoverningRun(pos + 1 + 1) = GoverningRun(pos + 1)
            /\ InRun(pos + 1 + 1) <=> InRun(pos + 1)
            /\ runCtx' = runCtx
        BY <1>5, <2>5, NextGoverningRun DEF ObserveDeath
      <3>2. PICK d : /\ deaths' = Append(deaths, d)
                     /\ d.line = lineNumber + 1 /\ d.run = runCtx.run
                     /\ ~d.hold => runCtx.active /\ runCtx.run # NoRun
        <4> DEFINE hold == ~runCtx.active \/ runCtx.run = NoRun
                   numbered == ~hold /\ Instant(l) # NoInstant
                   d == [line |-> lineNumber + 1, who |-> l.who, at |-> Instant(l),
                         run |-> runCtx.run, hold |-> hold,
                         ord |-> IF numbered THEN ordinals[<<l.who, Instant(l), runCtx.run>>]
                                             ELSE 0]
        <4>1. deaths' = Append(deaths, d)
          BY <2>5 DEF ObserveDeath
        <4>2. /\ d.line = lineNumber + 1 /\ d.run = runCtx.run
              /\ ~d.hold => runCtx.active /\ runCtx.run # NoRun
          OBVIOUS
        <4> HIDE DEF d
        <4> QED BY <4>1, <4>2
      <3>3. \A k \in DOMAIN deaths' :
                  (k \in DOMAIN deaths /\ deaths'[k] = deaths[k]) \/ deaths'[k] = d
        BY <1>2, <3>2
      <3>4. d.line + b = pos + 1
        BY <1>2, <1>4, <3>2
      <3>5. CanComputeIDs(d) => InRunOf(d.line + b, d.run)
        BY <2>1, <3>2, <3>4 DEF CanComputeIDs, InRunOf
      <3> QED BY <2>1, <3>1, <3>3, <3>5
    <2> QED BY <2>2, <2>3, <2>4, <2>5 DEF ReadLine, TrackerObserve
  <1> QED BY <1>1, <1>2, <1>5, <1>6, SameLogAttributed

LEMMA PersistPollContext == ContextInv /\ PersistPoll => ContextInv'
  <1> SUFFICES ASSUME ContextInv, PersistPoll PROVE ContextInv'
    OBVIOUS
  <1> USE DEF ContextInv, LineInv
  <1>1. LineInv' /\ NothingStored'
    BY PersistPollLines, NothingStoredStep DEF Next, Process
  <1>2. /\ UNCHANGED <<log, starts, pos, lineNumber, deaths, runCtx>>
        /\ offset' = pos /\ offset <= pos /\ pos \in Nat /\ offset \in Nat
    BY DeathTypes DEF PersistPoll, Commit, trackerVars, stopVars, TypeInv, OffsetsInOrder
  <1>3. \A i : GoverningRun(i)' = GoverningRun(i) /\ (InRun(i)' <=> InRun(i))
    BY <1>2, GoverningSameLog
  <1>4. ContextGoverned'
    <2>1. \A k \in DOMAIN deaths :
             CanComputeIDs(deaths[k]) =>
               (InRunOf(LogLine(deaths[k]), deaths[k].run)
                  => InRunOf(LogLine(deaths[k]), deaths[k].run)')
      BY <1>2, <1>3 DEF InRunOf, LogLine
    <2> QED BY <1>2, <1>3, <2>1 DEF ContextGoverned, CanComputeIDs
  <1>5. AttributedToItsRun'
    <2> SUFFICES ASSUME starts <= 1, NEW e \in events', e.hashed
                 PROVE  \E i \in 1 .. pos :
                          /\ log[i].kind = "died"
                          /\ log[i].who = e.who /\ Instant(log[i]) = e.at
                          /\ GoverningRun(i) = e.run /\ InRun(i)
      BY <1>2, <1>3 DEF AttributedToItsRun, DeathLines
    <2>1. CASE e \in events
      <3>1. PICK i \in 1 .. offset :
               /\ log[i].kind = "died"
               /\ log[i].who = e.who /\ Instant(log[i]) = e.at
               /\ GoverningRun(i) = e.run /\ InRun(i)
        BY <2>1 DEF AttributedToItsRun, DeathLines
      <3> QED BY <1>2, <3>1
    <2>2. CASE e \notin events
      <3>1. PICK n \in DOMAIN NewEvents : e = NewEvents[n]
        BY <2>2 DEF PersistPoll, Commit
      <3> DEFINE k == persistedDeaths + n
      <3>2. k \in DOMAIN deaths /\ e = EventInput(deaths[k])
        BY <3>1, NewEventIsDeath
      <3>3. /\ CanComputeIDs(deaths[k]) /\ e.run = deaths[k].run
            /\ e.who = deaths[k].who /\ e.at = deaths[k].at
        BY <3>2 DEF EventInput
      <3>4. /\ LogLine(deaths[k]) \in 1 .. pos
            /\ ComesFrom(deaths[k], LogLine(deaths[k]))
            /\ InRunOf(LogLine(deaths[k]), deaths[k].run)
        BY <3>2, <3>3 DEF DeathsAreLines, ContextGoverned
      <3> QED BY <3>3, <3>4 DEF ComesFrom, InRunOf
    <2> QED BY <2>1, <2>2
  <1> QED BY <1>1, <1>4, <1>5

LEMMA ContextStep == ContextInv /\ [Next]_vars => ContextInv'
  <1> SUFFICES ASSUME ContextInv, [Next]_vars PROVE ContextInv'
    OBVIOUS
  <1> USE DEF ContextInv, LineInv
  <1>1. LineInv' /\ NothingStored'
    BY LineStep, NothingStoredStep
  <1>2. starts \in Nat /\ (starts' <= 1 => starts <= 1)
    <2>1. starts \in Nat
      BY DEF TypeInv, TypeOK
    <2>2. starts' = starts \/ starts' = starts + 1
      BY StartsSteps DEF Start
    <2> QED BY <2>1, <2>2
  <1>3. CASE WriteLine \/ ReadLine \/ PersistPoll
    BY <1>3, WriteLineContext, ReadLineContext, PersistPollContext
  <1>4. CASE Start
    <2>1. /\ UNCHANGED <<log, events, offset>> /\ deaths = << >> /\ runCtx = NoContext
      BY <1>4 DEF Start, storeVars, TypeInv, DownIsBlank
    <2>2. starts' <= 1 => starts = 0
      BY <1>2, <1>4 DEF Start
    <2>3. starts' <= 1 => MostRecentActive = {}
      BY <2>2 DEF NothingStored, MostRecentActive, ActiveRuns
    <2>4. starts' <= 1 => runCtx' = NoContext /\ deaths' = << >>
      BY <1>4, <2>1, <2>3 DEF Start, trackerVars
    <2>5. ContextGoverned'
      BY <2>4 DEF ContextGoverned, NoContext
    <2> QED BY <1>1, <1>2, <2>1, <2>5, SameLogAttributed
  <1>5. CASE \E how \in {"ok", "failure", "killed"} : Stop(how)
    <2>1. /\ UNCHANGED <<log, events, offset>> /\ deaths' = << >> /\ runCtx' = NoContext
      BY <1>5 DEF Stop, storeVars
    <2>2. ContextGoverned'
      BY <2>1 DEF ContextGoverned, NoContext
    <2> QED BY <1>1, <1>2, <2>1, <2>2, SameLogAttributed
  <1>6. CASE UNCHANGED <<log, deaths, persistedDeaths, pos, lineNumber, events, offset, runCtx>>
    <2>1. \A i : GoverningRun(i)' = GoverningRun(i) /\ (InRun(i)' <=> InRun(i))
      BY <1>6, GoverningSameLog
    <2>2. \A k \in DOMAIN deaths :
             CanComputeIDs(deaths[k]) =>
               (InRunOf(LogLine(deaths[k]), deaths[k].run)
                  => InRunOf(LogLine(deaths[k]), deaths[k].run)')
      BY <1>6, <2>1 DEF InRunOf, LogLine
    <2>3. ContextGoverned'
      BY <1>2, <1>6, <2>1, <2>2 DEF ContextGoverned, CanComputeIDs
    <2> QED BY <1>1, <1>2, <1>6, <2>3, SameLogAttributed
  <1> QED BY <1>3, <1>4, <1>5, <1>6, LineSteps

(* A death stored with a hashed id was written between the START its id names *)
(* and that run's END (of a first process; one that is started again may      *)
(* restore a run whose END was read and not stored).                          *)
THEOREM DeathsAttributed == Spec => []AttributedToItsRun
  <1>1. Init => ContextInv
    <2> SUFFICES ASSUME Init PROVE ContextInv
      OBVIOUS
    <2>1. LineInv
      BY InitLineInv
    <2>2. /\ deaths = << >> /\ runCtx = NoContext /\ events = {} /\ pc = "down"
          /\ \A r \in RunIds : runs[r].status = "absent"
      BY DEF Init, TrackerInit, StoreInit
    <2> QED BY <2>1, <2>2
         DEF ContextInv, NothingStored, ContextGoverned, AttributedToItsRun, NoContext
  <1>2. ContextInv => AttributedToItsRun
    BY DEF ContextInv
  <1> QED BY <1>1, <1>2, ContextStep, PTL DEF Spec

-------------------------------------------------------------------------------
(* Orphans.  Where no run ends by an END, the run of every row, every death   *)
(* and the context is closed, in progress, or queued to be closed.            *)
NoEnds == "end" \notin Kinds /\ MaxStarts <= 1

Accounted(r) ==
  \/ runs[r].status \in Terminal
  \/ Open(current) /\ current.run = r
  \/ \E k \in DOMAIN superseded : superseded[k].run = r

KnownRuns ==
  ActiveRuns \union (({runCtx.run} \union {deaths[k].run : k \in DOMAIN deaths}) \ {NoRun})

RunsAccounted ==
  pc # "down" =>
    /\ \A r \in KnownRuns : Accounted(r)
    /\ pc \notin {"scan", "commit", "supersede"} => superseded = << >>

NothingEnds ==
  /\ \A i \in DOMAIN log : log[i].kind # "end"
  /\ current.state # "completed"

OrphanInv == IInv /\ NothingStored /\ NothingEnds /\ RunsAccounted

LEMMA KnownAreRuns == TypeInv => KnownRuns \subseteq RunIds
  <1> SUFFICES ASSUME TypeInv PROVE KnownRuns \subseteq RunIds
    OBVIOUS
  <1>1. \A k \in DOMAIN deaths : deaths[k] \in Candidate
    BY DEF TypeInv, TypeOK, TrackerTypeOK
  <1>2. runCtx.run \in RunIds \union {NoRun}
    BY DEF TypeInv, TypeOK, TrackerTypeOK
  <1> QED BY <1>1, <1>2 DEF KnownRuns, ActiveRuns, Candidate

(* A step that loses track of no run and learns of no run it does not know    *)
(* how to close.                                                              *)
LEMMA AccountedKept ==
  ASSUME TypeInv, RunsAccounted, pc # "down",
         \A r \in RunIds : Accounted(r) => Accounted(r)',
         \A r \in KnownRuns' : r \in KnownRuns \/ Accounted(r)',
         pc' \notin {"scan", "commit", "supersede"} => superseded' = << >>
  PROVE  RunsAccounted'
  BY KnownAreRuns DEF RunsAccounted

(* A closed run stays closed, so a run is lost only from memory.              *)
LEMMA AccountedInMemory ==
  ASSUME IInv, [Next]_vars,
         \A r \in RunIds :
           (Open(current) /\ current.run = r) \/ (\E k \in DOMAIN superseded : superseded[k].run = r)
             => Accounted(r)'
  PROVE  \A r \in RunIds : Accounted(r) => Accounted(r)'
  BY StatusStep DEF Accounted

LEMMA ReadLineAccounted ==
  ASSUME OrphanInv, ReadLine
  PROVE  NothingEnds' /\ RunsAccounted'
  <1> USE DEF OrphanInv, IInv
  <1> DEFINE l == log[pos + 1]
  <1>1. /\ UNCHANGED <<log, runs>> /\ pc = "scan" /\ pc' = "scan"
        /\ current \in Snapshot /\ superseded \in Seq(Snapshot)
        /\ deaths \in Seq(Candidate)
        /\ runCtx \in [active : BOOLEAN, run : RunIds \union {NoRun}]
    BY DEF ReadLine, storeVars, TypeInv, TypeOK, SessionTypeOK, TrackerTypeOK
  <1>2. pos + 1 \in DOMAIN log /\ l.kind # "end"
    <2>1. pos < limit /\ limit <= Len(log) /\ limit \in Nat
      BY DEF ReadLine, TypeInv, TypeOK, OffsetsInOrder
    <2> QED BY <2>1, DeathTypes DEF NothingEnds
  <1>3. \A r \in RunIds : Accounted(r) => Accounted(r)'
    <2>1. CASE l.kind = "start" /\ ObserveStart(Instant(l), TickAfter(Now))
      <3>1. \A k \in DOMAIN superseded :
               k \in DOMAIN superseded' /\ superseded'[k] = superseded[k]
        BY <1>1, <2>1, AbandonedType DEF ObserveStart
      <3>2. Open(current) => \E k \in DOMAIN superseded' : superseded'[k].run = current.run
        <4> SUFFICES ASSUME Open(current)
                     PROVE  \E k \in DOMAIN superseded' : superseded'[k].run = current.run
          OBVIOUS
        <4>1. superseded' = Append(superseded, Abandoned(current))
          BY <2>1 DEF ObserveStart
        <4>2. Abandoned(current).run = current.run
          BY <1>1 DEF Abandoned, Snapshot
        <4>3. /\ Len(superseded) + 1 \in DOMAIN superseded'
              /\ superseded'[Len(superseded) + 1] = Abandoned(current)
          BY <1>1, <4>1, AbandonedType
        <4> QED BY <4>2, <4>3
      <3> QED BY <1>1, <3>1, <3>2 DEF Accounted
    <2>2. CASE ObserveActivity \/ UNCHANGED sessionVars
      <3>1. /\ current'.state = current.state /\ current'.run = current.run
            /\ superseded' = superseded
        BY <1>1, <2>2 DEF ObserveActivity, sessionVars, Snapshot
      <3> QED BY <1>1, <3>1 DEF Accounted, Open
    <2> QED BY <1>2, <2>1, <2>2 DEF ReadLine, SessionObserve
  <1>4. NothingEnds'
    BY <1>1, <1>2 DEF NothingEnds, ReadLine, SessionObserve, ObserveStart, ObserveActivity,
                      sessionVars, Snapshot
  <1>5. \A r \in KnownRuns' : r \in KnownRuns \/ Accounted(r)'
    <2>1. CASE /\ l.kind = "start" /\ ObserveStart(Instant(l), TickAfter(Now))
               /\ ObserveRunStart(Instant(l))
      <3>1. /\ runCtx'.run = Instant(l) /\ deaths' = deaths
            /\ Open(current') /\ current'.run = Instant(l)
        BY <2>1 DEF ObserveRunStart, ObserveStart, Open
      <3> QED BY <1>1, <3>1 DEF KnownRuns, ActiveRuns, Accounted, Open
    <2>2. CASE ObserveDeath(l, lineNumber + 1)
      <3>1. PICK d : deaths' = Append(deaths, d) /\ d.run = runCtx.run /\ runCtx' = runCtx
        BY <2>2 DEF ObserveDeath
      <3>2. \A k \in DOMAIN deaths' :
               (k \in DOMAIN deaths /\ deaths'[k] = deaths[k]) \/ deaths'[k] = d
        BY <1>1, <3>1
      <3> QED BY <1>1, <3>1, <3>2 DEF KnownRuns, ActiveRuns
    <2>3. CASE UNCHANGED trackerVars
      BY <1>1, <2>3 DEF trackerVars, KnownRuns, ActiveRuns
    <2> QED BY <1>2, <2>1, <2>2, <2>3 DEF ReadLine, SessionObserve, TrackerObserve
  <1> QED BY <1>1, <1>3, <1>4, <1>5, AccountedKept

LEMMA PersistPollAccounted ==
  ASSUME OrphanInv, PersistPoll
  PROVE  RunsAccounted'
  <1> USE DEF OrphanInv, IInv
  <1>1. /\ pc = "commit" /\ pc' = "supersede"
        /\ UNCHANGED <<current, superseded, runCtx, deaths>>
    BY DEF PersistPoll, sessionVars, trackerVars
  <1>2. \A r \in RunIds : Accounted(r) => Accounted(r)'
    BY <1>1, AccountedInMemory DEF Accounted, Next, Process
  <1>3. \A r \in DOMAIN NewRuns : Accounted(r)
    <2>1. \A r \in SessionRuns : Accounted(r)
      BY DEF SessionRuns, Accounted
    <2>2. \A i \in DOMAIN NewDeaths :
             persistedDeaths + i \in DOMAIN deaths
             /\ NewDeaths[i] = deaths[persistedDeaths + i]
             /\ NewDeaths[i].run # NoRun
      BY NewDeathsType, DeathTypes DEF TypeInv, PersistPoll, UnboundDeath
    <2>3. \A r \in DeathRuns : Accounted(r)
      BY <1>1, <2>2 DEF DeathRuns, RunsAccounted, KnownRuns
    <2> QED BY <2>1, <2>3 DEF NewRuns
  <1>4. \A r \in RunIds : runs'[r] = runs[r] \/ r \in DOMAIN NewRuns
    BY CommitStatus DEF PersistPoll, TypeInv, TypeOK
  <1>5. \A r \in KnownRuns' : r \in KnownRuns \/ (r \in RunIds /\ Accounted(r))
    BY <1>1, <1>3, <1>4 DEF KnownRuns, ActiveRuns
  <1> QED BY <1>1, <1>2, <1>5, AccountedKept

(* A closure takes its run out of memory and into a closed row.               *)
LEMMA ClosureAccounted ==
  ASSUME OrphanInv, [Next]_vars, NEW s \in Snapshot, NEW how \in Terminal,
         PersistClosure(s, how), pc # "down",
         UNCHANGED <<runCtx, deaths>>,
         pc' \notin {"scan", "commit", "supersede"} => superseded' = << >>,
         \A r \in RunIds :
           (Open(current) /\ current.run = r) \/ (\E k \in DOMAIN superseded : superseded[k].run = r)
             => \/ r = s.run
                \/ Open(current') /\ current'.run = r
                \/ \E k \in DOMAIN superseded' : superseded'[k].run = r
  PROVE  RunsAccounted'
  <1> USE DEF OrphanInv, IInv
  <1>1. \A r \in RunIds : runs'[r] = runs[r] \/ r = s.run
    BY DEF PersistClosure, CloseRun, storeVars, TypeInv, TypeOK, StoreTypeOK
  <1>2. s.run \in RunIds => runs'[s.run].status = how
    <2>1. s.run \in RunIds => s.run # NoRun
      BY DEF RunIds, Stamps, NoRun
    <2>2. runs \in [RunIds -> RunRow]
      BY DEF TypeInv, TypeOK, StoreTypeOK
    <2> QED BY <2>1, <2>2 DEF PersistClosure, CloseRun
  <1>3. \A r \in RunIds : Accounted(r) => Accounted(r)'
    BY <1>2, AccountedInMemory DEF Accounted, Open
  <1>4. how # "active"
    BY DEF Terminal
  <1>5. \A r \in KnownRuns' : r \in KnownRuns
    BY <1>1, <1>2, <1>4 DEF KnownRuns, ActiveRuns
  <1> QED BY <1>3, <1>5, AccountedKept

LEMMA OrphanStep == NoEnds /\ OrphanInv /\ [Next]_vars => OrphanInv'
  <1> SUFFICES ASSUME NoEnds, OrphanInv, [Next]_vars PROVE OrphanInv'
    OBVIOUS
  <1> USE DEF OrphanInv, IInv
  <1>1. IInv' /\ NothingStored' /\ TypeInv'
    BY IInvStep, NothingStoredStep
  <1>2. current \in Snapshot /\ superseded \in Seq(Snapshot)
    BY DEF TypeInv, TypeOK, SessionTypeOK
  <1>3. CASE WriteLine
    <2>1. PICK l \in Line : l.kind # "end" /\ log' = Append(log, l)
      BY <1>3 DEF WriteLine, NoEnds
    <2>2. UNCHANGED <<current, superseded, runs, runCtx, deaths, pc>>
      BY <1>3 DEF WriteLine, sessionVars, storeVars, trackerVars
    <2>3. NothingEnds'
      BY <2>1, <2>2, DeathTypes DEF NothingEnds
    <2>4. RunsAccounted'
      BY <2>2 DEF RunsAccounted, Accounted, KnownRuns, ActiveRuns, Open
    <2> QED BY <1>1, <2>3, <2>4
  <1>4. CASE Start
    <2>1. starts = 0 /\ log' = log /\ runs' = runs
      BY <1>4, EnvironmentAssumption DEF Start, storeVars, NoEnds, TypeInv, TypeOK
    <2>2. \A r \in RunIds : runs[r].status = "absent"
      BY <2>1 DEF NothingStored
    <2>3. MostRecentActive = {}
      BY <2>2 DEF MostRecentActive, ActiveRuns
    <2>4. UNCHANGED <<current, superseded, runCtx, deaths>>
      BY <1>4, <2>3 DEF Start, sessionVars, trackerVars
    <2>5. superseded = << >> /\ runCtx = NoContext /\ deaths = << >>
      BY <1>4 DEF Start, TypeInv, DownIsBlank
    <2>6. NothingEnds'
      BY <2>1, <2>4 DEF NothingEnds
    <2>7. RunsAccounted'
      BY <2>1, <2>2, <2>4, <2>5 DEF RunsAccounted, KnownRuns, ActiveRuns, NoContext
    <2> QED BY <1>1, <2>6, <2>7
  <1>5. CASE ReadLine
    BY <1>1, <1>5, ReadLineAccounted
  <1>6. CASE PersistPoll
    <2>1. NothingEnds'
      BY <1>6 DEF PersistPoll, sessionVars, NothingEnds
    <2> QED BY <1>1, <1>6, <2>1, PersistPollAccounted
  <1>7. CASE Kill \/ AbortPoll \/ PersistFails \/ ClosureFails \/ ExitOnce \/ Shutdown
    <2>1. pc' = "down" /\ current' = Idle /\ log' = log
      BY <1>7, StoppingSteps DEF Stop
    <2> QED BY <1>1, <2>1 DEF NothingEnds, RunsAccounted, Idle
  <1>8. CASE \/ Elapse \/ Interrupt \/ BeginPoll \/ UNCHANGED vars
             \/ EndOfPoll \/ SkipPersist \/ SupersededDone
    <2>1. /\ UNCHANGED <<log, runs, superseded, runCtx, deaths>>
          /\ current'.run = current.run /\ current'.state = current.state
      BY <1>2, <1>8 DEF Elapse, ElapseInSession, Interrupt, BeginPoll, EndOfPoll,
             SkipPersist, SupersededDone, vars, sessionVars, trackerVars, storeVars,
             pollVars, Snapshot
    <2>2. (pc = "down" => pc' = "down") /\ (pc' \notin {"scan", "commit", "supersede"} =>
             pc \notin {"scan", "commit", "supersede"} \/ superseded = << >>)
      BY <1>8 DEF Elapse, Interrupt, BeginPoll, EndOfPoll, SkipPersist, SupersededDone, vars
    <2>3. NothingEnds'
      BY <2>1 DEF NothingEnds
    <2>4. RunsAccounted'
      BY <2>1, <2>2 DEF RunsAccounted, Accounted, KnownRuns, ActiveRuns, Open
    <2> QED BY <1>1, <2>3, <2>4
  <1>9. CASE CloseSuperseded
    <2> DEFINE h == Head(superseded)
    <2>1. /\ superseded # << >> /\ superseded' = Tail(superseded) /\ current' = current
          /\ UNCHANGED <<log, runCtx, deaths>> /\ pc = "supersede" /\ pc' = pc
          /\ PersistClosure(h, "abandoned") /\ "abandoned" \in Terminal
      BY <1>9 DEF CloseSuperseded, TakeAbandoned, trackerVars, Terminal
    <2>2. h \in Snapshot
      BY <1>2, <2>1
    <2>3. \A k \in DOMAIN superseded :
             superseded[k] = h \/ (k - 1 \in DOMAIN superseded'
                                   /\ superseded'[k - 1] = superseded[k])
      BY <1>2, <2>1
    <2> HIDE DEF h
    <2>4. RunsAccounted'
      BY <2>1, <2>2, <2>3, ClosureAccounted
    <2> QED BY <1>1, <2>1, <2>4 DEF NothingEnds
  <1>10. CASE CloseCompleted
    <2>1. UNCHANGED <<log, current, superseded, runs, runCtx, deaths>>
          /\ pc \in {"complete", "recheck"} /\ pc' \in {"inactivity", "idle"}
      BY <1>10 DEF CloseCompleted, TakeCompleted, NothingEnds, sessionVars, storeVars,
                   trackerVars
    <2>2. NothingEnds' /\ RunsAccounted'
      BY <2>1 DEF NothingEnds, RunsAccounted, Accounted, KnownRuns, ActiveRuns, Open
    <2> QED BY <1>1, <2>2
  <1>11. CASE CloseInactive
    <2>1. /\ pc = "inactivity" /\ pc' = "recheck" /\ UNCHANGED <<log, runCtx, deaths>>
          /\ superseded = << >> /\ superseded' = superseded
      BY <1>11 DEF CloseInactive, CheckInactivity, sessionVars, trackerVars, RunsAccounted
    <2>2. CASE CheckInactivity /\ PersistClosure(current, "abandoned")
      <3>1. current'.state = "abandoned" /\ "abandoned" \in Terminal
        BY <1>2, <2>2 DEF CheckInactivity, Abandoned, Snapshot, Terminal
      <3>2. RunsAccounted'
        BY <1>2, <2>1, <2>2, <3>1, ClosureAccounted
      <3> QED BY <1>1, <2>1, <3>1, <3>2 DEF NothingEnds
    <2>3. CASE UNCHANGED <<sessionVars, storeVars>>
      <3>1. NothingEnds' /\ RunsAccounted'
        BY <2>1, <2>3 DEF sessionVars, storeVars, NothingEnds, RunsAccounted, Accounted,
                          KnownRuns, ActiveRuns, Open
      <3> QED BY <1>1, <3>1
    <2> QED BY <1>11, <2>2, <2>3 DEF CloseInactive
  <1> QED
    BY <1>3, <1>4, <1>5, <1>6, <1>7, <1>8, <1>9, <1>10, <1>11 DEF Next, Environment, Process

(* Where the game writes no END and the process is not started twice, no row  *)
(* is left active between polls but that of the run in progress: a run is     *)
(* closed when a START supersedes it or play stops for the timeout, however   *)
(* deaths, STARTs and polls interleave.  (An END read in the poll of the next *)
(* START leaves an orphan, and so does a process that is killed.)             *)
THEOREM NoOrphanRows == NoEnds => (Spec => []OrphanFree)
  <1> SUFFICES ASSUME NoEnds PROVE Spec => []OrphanFree
    OBVIOUS
  <1>1. Init => OrphanInv
    <2> SUFFICES ASSUME Init PROVE OrphanInv
      OBVIOUS
    <2>1. /\ log = << >> /\ current = Idle /\ pc = "down"
          /\ \A r \in RunIds : runs[r].status = "absent"
      BY DEF Init, SessionInit, StoreInit
    <2> QED BY <2>1, InitIInv
         DEF OrphanInv, NothingStored, NothingEnds, RunsAccounted, Idle
  <1>2. OrphanInv /\ [Next]_vars => OrphanInv'
    BY OrphanStep
  <1>3. OrphanInv => OrphanFree
    BY DEF OrphanInv, RunsAccounted, OrphanFree, Accounted, SessionRuns, KnownRuns, ActiveRuns,
           Terminal, RunIds, Stamps, NoRun
  <1> QED BY <1>1, <1>2, <1>3, PTL DEF Spec
=============================================================================
