---------------------------- MODULE CaptureProofs ----------------------------
(* Theorems about Capture, for every value of its constants.                  *)
EXTENDS Capture, TLAPS

(* Type correctness needs the order of the offsets: a line is only read where *)
(* the log has one, and the line number never outgrows the log.               *)
TypeInv == TypeOK /\ OffsetsInOrder /\ DownIsBlank

USE MaxLinesAssumption, TimeoutAssumption, EnvironmentAssumption

-------------------------------------------------------------------------------
(* The operations of the components keep the types of their variables.        *)

LEMMA IdleType == Idle \in Snapshot
  BY DEF Idle, Snapshot, NoRun, Ticks

LEMMA AbandonedType == \A s \in Snapshot : Abandoned(s) \in Snapshot
  BY DEF Abandoned, Snapshot

LEMMA LineFields ==
  ASSUME NEW l \in Line
  PROVE  /\ l.at \in Stamps
         /\ Instant(l) \in RunIds \union {NoRun}
         /\ Instant(l) \in Stamps \union {NoInstant}
         /\ l.kind = "died" => l.who \in Players
  BY DEF Line, Instant, RunIds, NoRun, NoInstant, Stamps

LEMMA SessionObserveType ==
  ASSUME SessionTypeOK, NEW l \in Line, NEW t \in Ticks, SessionObserve(l, t)
  PROVE  SessionTypeOK'
  <1>1. CASE l.kind = "start" /\ ObserveStart(Instant(l), t)
    <2>1. current' \in Snapshot
      BY <1>1, LineFields DEF ObserveStart, Snapshot
    <2>2. superseded' \in Seq(Snapshot)
      BY <1>1, AbandonedType DEF ObserveStart, SessionTypeOK
    <2> QED BY <2>1, <2>2 DEF SessionTypeOK
  <1>2. CASE l.kind = "end" /\ ObserveEnd
    <2>1. [current EXCEPT !.state = "completed", !.idleFor = 0] \in Snapshot
      <3> DEFINE done == [current EXCEPT !.state = "completed"]
      <3>1. done \in Snapshot
        BY DEF SessionTypeOK, Snapshot
      <3>2. [done EXCEPT !.idleFor = 0] \in Snapshot
        <4> HIDE DEF done
        <4> QED BY <3>1 DEF Snapshot
      <3> QED BY <3>2
    <2> QED BY <1>2, <2>1 DEF ObserveEnd, SessionTypeOK
  <1>3. CASE ObserveActivity
    <2>1. current \in Snapshot /\ superseded \in Seq(Snapshot)
      BY DEF SessionTypeOK
    <2>2. [current EXCEPT !.idleFor = 0] \in Snapshot
      BY <2>1 DEF Snapshot
    <2>3. current' \in {current, [current EXCEPT !.idleFor = 0]} /\ superseded' = superseded
      BY <1>3 DEF ObserveActivity
    <2> QED BY <2>1, <2>2, <2>3 DEF SessionTypeOK
  <1>4. CASE UNCHANGED sessionVars
    BY <1>4 DEF sessionVars, SessionTypeOK
  <1> QED BY <1>1, <1>2, <1>3, <1>4 DEF SessionObserve

LEMMA TrackerObserveType ==
  ASSUME TrackerTypeOK, NEW l \in Line, NEW n \in Nat \ {0}, TrackerObserve(l, n)
  PROVE  TrackerTypeOK' /\ Len(deaths') \in {Len(deaths), Len(deaths) + 1}
  <1>1. CASE l.kind = "start" /\ ObserveRunStart(Instant(l))
    BY <1>1, LineFields DEF ObserveRunStart, TrackerTypeOK
  <1>2. CASE l.kind = "end" /\ ObserveRunEnd
    BY <1>2 DEF ObserveRunEnd, TrackerTypeOK
  <1>3. CASE l.kind = "died" /\ ObserveDeath(l, n)
    <2> DEFINE hold     == ~runCtx.active \/ runCtx.run = NoRun
               key      == <<l.who, Instant(l), runCtx.run>>
               numbered == ~hold /\ Instant(l) # NoInstant
    <2>1. numbered => key \in OrdinalKeys
      BY <1>3, LineFields DEF OrdinalKeys, TrackerTypeOK
    <2>2. ordinals' \in [OrdinalKeys -> Nat]
      BY <1>3, <2>1 DEF ObserveDeath, TrackerTypeOK
    <2> DEFINE d == [line |-> n, who |-> l.who, at |-> Instant(l), run |-> runCtx.run,
                     hold |-> hold, ord |-> IF numbered THEN ordinals[key] ELSE 0]
    <2>3. d \in Candidate
      <3>1. (IF numbered THEN ordinals[key] ELSE 0) \in Nat
        BY <2>1 DEF TrackerTypeOK
      <3> QED BY <1>3, <3>1, LineFields DEF Candidate, TrackerTypeOK
    <2>4. deaths' = Append(deaths, d)
      BY <1>3 DEF ObserveDeath
    <2>5. deaths' \in Seq(Candidate) /\ Len(deaths') = Len(deaths) + 1
      BY <2>3, <2>4 DEF TrackerTypeOK
    <2> QED BY <1>3, <2>2, <2>5 DEF ObserveDeath, TrackerTypeOK
  <1>4. CASE UNCHANGED trackerVars
    BY <1>4 DEF trackerVars, TrackerTypeOK
  <1> QED BY <1>1, <1>2, <1>3, <1>4 DEF TrackerObserve

LEMMA CloseRunType ==
  ASSUME StoreTypeOK, NEW r \in RunIds, NEW t \in Ticks, NEW s \in Terminal,
         CloseRun(r, t, s)
  PROVE  StoreTypeOK'
  BY DEF StoreTypeOK, CloseRun, RunRow

LEMMA InitTypeOK == Init => TypeInv
  <1> SUFFICES ASSUME Init PROVE TypeInv
    OBVIOUS
  <1> USE DEF Init
  <1>1. SessionTypeOK
    BY IdleType DEF SessionInit, SessionTypeOK
  <1>2. TrackerTypeOK
    BY DEF TrackerInit, TrackerTypeOK, NoContext, NoRun
  <1>3. StoreTypeOK
    BY DEF StoreInit, StoreTypeOK, RunRow, Ticks
  <1>4. TypeOK
    <2>1. log \in Seq(Line) /\ Len(log) = 0 /\ Len(deaths) = 0
      BY DEF TrackerInit
    <2>2. pc \in Phases /\ exit \in {"none", "ok", "failure", "killed"}
      BY DEF Phases
    <2>3. limit \in 0 .. MaxLines /\ pos \in 0 .. MaxLines /\ lineNumber \in 0 .. MaxLines
          /\ starts \in 0 .. MaxStarts /\ persistedDeaths \in 0 .. Len(deaths)
      BY <2>1
    <2>4. cancelled \in BOOLEAN /\ once \in BOOLEAN
      OBVIOUS
    <2>5. Len(log) <= MaxLines
      BY <2>1
    <2> QED BY <1>1, <1>2, <1>3, <2>1, <2>2, <2>3, <2>4, <2>5 DEF TypeOK
  <1>5. OffsetsInOrder
    BY DEF OffsetsInOrder, StoreInit
  <1>6. DownIsBlank
    BY DEF DownIsBlank, SessionInit, TrackerInit
  <1> QED
    BY <1>4, <1>5, <1>6 DEF TypeInv

(* A stopped process has blank, hence well-typed, memory.                     *)
LEMMA StopType ==
  ASSUME TypeInv, NEW how \in {"ok", "failure", "killed"}, Stop(how)
  PROVE  TypeInv'
  <1> USE DEF Stop
  <1>1. SessionTypeOK'
    BY IdleType DEF SessionTypeOK
  <1>2. TrackerTypeOK'
    BY DEF TrackerTypeOK, NoContext, NoRun
  <1>3. StoreTypeOK'
    BY DEF TypeInv, TypeOK, StoreTypeOK, storeVars
  <1>4. deaths' = << >> /\ Len(deaths') = 0
    OBVIOUS
  <1>5. TypeOK'
    <2>1. log' \in Seq(Line) /\ Len(log') <= MaxLines /\ starts' \in 0 .. MaxStarts
      BY DEF TypeInv, TypeOK
    <2>2. pc' \in Phases /\ exit' \in {"none", "ok", "failure", "killed"}
      BY DEF Phases
    <2>3. persistedDeaths' \in 0 .. Len(deaths')
      BY <1>4
    <2>4. limit' \in 0 .. MaxLines /\ pos' \in 0 .. MaxLines /\ lineNumber' \in 0 .. MaxLines
      OBVIOUS
    <2>5. cancelled' \in BOOLEAN /\ once' \in BOOLEAN
      OBVIOUS
    <2> HIDE DEF Stop
    <2> QED BY <1>1, <1>2, <1>3, <2>1, <2>2, <2>3, <2>4, <2>5 DEF TypeOK
  <1>6. OffsetsInOrder'
    BY DEF TypeInv, TypeOK, OffsetsInOrder, storeVars
  <1>7. DownIsBlank'
    BY DEF DownIsBlank
  <1> QED BY <1>5, <1>6, <1>7 DEF TypeInv

LEMMA NowType ==
  ASSUME TypeOK
  PROVE  /\ Now \in 0 .. MaxLines
         /\ TickAfter(Now) \in Ticks
  <1>1. Now \in 0 .. MaxLines
    <2>1. CASE log = << >>
      BY <2>1 DEF Now
    <2>2. CASE log # << >>
      <3>1. Len(log) \in DOMAIN log /\ log[Len(log)] \in Line
        BY <2>2 DEF TypeOK
      <3> QED BY <2>2, <3>1, LineFields DEF Now, Stamps
    <2> QED BY <2>1, <2>2
  <1> QED BY <1>1 DEF TickAfter, Ticks

(* The snapshot handed to persistRunClosure is well-typed, so the store stays *)
(* well-typed.                                                                *)
LEMMA PersistClosureType ==
  ASSUME StoreTypeOK, NEW s \in Snapshot, NEW status \in Terminal,
         PersistClosure(s, status)
  PROVE  StoreTypeOK' /\ offset' = offset
  <1>1. CASE s.run = NoRun
    BY <1>1 DEF PersistClosure, storeVars, StoreTypeOK
  <1>2. CASE s.run # NoRun
    <2>1. s.run \in RunIds /\ s.startedAt \in Ticks
      BY <1>2 DEF Snapshot
    <2>2. CloseRun(s.run, s.startedAt, status)
      BY <1>2 DEF PersistClosure
    <2> QED BY <2>1, <2>2, CloseRunType DEF CloseRun
  <1> QED BY <1>1, <1>2

LEMMA NewDeathsType ==
  ASSUME TypeOK
  PROVE  /\ NewDeaths \in Seq(Candidate)
         /\ DOMAIN NewDeaths = 1 .. Len(deaths) - persistedDeaths
         /\ \A i \in DOMAIN NewDeaths :
              NewDeaths[i] = deaths[persistedDeaths + i] /\ NewDeaths[i] \in Candidate
  <1>1. deaths \in Seq(Candidate) /\ persistedDeaths \in 0 .. Len(deaths)
    BY DEF TypeOK, TrackerTypeOK
  <1>2. NewDeaths \in Seq(Candidate)
    BY <1>1 DEF NewDeaths
  <1>3. Len(NewDeaths) = Len(deaths) - persistedDeaths
    BY <1>1 DEF NewDeaths
  <1>4. \A i \in 1 .. Len(deaths) - persistedDeaths :
           NewDeaths[i] = deaths[persistedDeaths + i]
    BY <1>1 DEF NewDeaths
  <1> QED BY <1>2, <1>3, <1>4

LEMMA EventInputType ==
  ASSUME NEW d \in Candidate, d.run \in RunIds
  PROVE  EventInput(d) \in EventRow
  <1>1. CASE CanComputeIDs(d)
    BY <1>1 DEF EventInput, EventRow, Candidate
  <1>2. CASE ~CanComputeIDs(d)
    BY <1>2 DEF EventInput, EventRow, Candidate, CanComputeIDs
  <1> QED BY <1>1, <1>2

LEMMA CommitType ==
  ASSUME TypeInv, ~UnboundDeath, Commit(NewRuns, NewEvents, pos)
  PROVE  StoreTypeOK' /\ offset' = pos
  <1> USE NewDeathsType DEF TypeInv
  <1>1. \A i \in DOMAIN NewDeaths : NewDeaths[i].run \in RunIds
    BY DEF UnboundDeath, Candidate
  <1>2. \A i \in DOMAIN NewEvents : NewEvents[i] \in EventRow
    BY <1>1, EventInputType DEF NewEvents
  <1>3. events' \subseteq EventRow
    BY <1>2 DEF Commit, TypeOK, StoreTypeOK
  <1>4. \A r \in DOMAIN NewRuns \intersect RunIds : NewRuns[r] \in Ticks
    BY DEF NewRuns, TypeOK, SessionTypeOK, Snapshot, Ticks, TickOf, RunIds, Stamps
  <1>5. runs' \in [RunIds -> RunRow]
    BY <1>4 DEF Commit, TypeOK, StoreTypeOK, RunRow
  <1> QED BY <1>3, <1>5 DEF Commit, TypeOK, StoreTypeOK

-------------------------------------------------------------------------------
(* One step per action.                                                       *)

LEMMA WriteLineType == TypeInv /\ WriteLine => TypeInv'
  <1> SUFFICES ASSUME TypeInv, WriteLine PROVE TypeInv'
    OBVIOUS
  <1> USE DEF TypeInv
  <1>1. SessionTypeOK' /\ TrackerTypeOK' /\ StoreTypeOK'
    BY DEF WriteLine, TypeOK, sessionVars, SessionTypeOK, trackerVars, TrackerTypeOK,
           storeVars, StoreTypeOK
  <1>2. log' \in Seq(Line) /\ Len(log') = Len(log) + 1 /\ Len(log') <= MaxLines
    <2>1. PICK l \in Line : log' = Append(log, l)
      BY DEF WriteLine
    <2> QED BY <2>1 DEF WriteLine, TypeOK
  <1>3. TypeOK'
    BY <1>1, <1>2 DEF WriteLine, TypeOK, trackerVars, pollVars, stopVars
  <1>4. OffsetsInOrder'
    BY <1>2 DEF WriteLine, TypeOK, StoreTypeOK, OffsetsInOrder, storeVars, pollVars
  <1>5. DownIsBlank'
    BY DEF WriteLine, DownIsBlank, sessionVars, trackerVars, pollVars
  <1> QED BY <1>3, <1>4, <1>5

LEMMA ElapseType == TypeInv /\ Elapse => TypeInv'
  <1> SUFFICES ASSUME TypeInv, Elapse PROVE TypeInv'
    OBVIOUS
  <1> USE DEF TypeInv, Elapse
  <1>1. SessionTypeOK'
    <2>1. current.idleFor + 1 \in 0 .. InactivityTimeout
      BY DEF TypeOK, SessionTypeOK, Snapshot, ElapseInSession
    <2> QED BY <2>1 DEF TypeOK, SessionTypeOK, Snapshot, ElapseInSession
  <1>2. TrackerTypeOK' /\ StoreTypeOK'
    BY DEF TypeOK, trackerVars, TrackerTypeOK, storeVars, StoreTypeOK
  <1>3. TypeOK'
    BY <1>1, <1>2 DEF TypeOK, trackerVars, pollVars, stopVars
  <1>4. OffsetsInOrder'
    BY DEF OffsetsInOrder, storeVars, pollVars
  <1>5. DownIsBlank'
    BY DEF DownIsBlank
  <1> QED BY <1>3, <1>4, <1>5

LEMMA InterruptType == TypeInv /\ Interrupt => TypeInv'
  <1> SUFFICES ASSUME TypeInv, Interrupt PROVE TypeInv'
    OBVIOUS
  <1> USE DEF TypeInv, Interrupt
  <1>1. SessionTypeOK' /\ TrackerTypeOK' /\ StoreTypeOK'
    BY DEF TypeOK, sessionVars, SessionTypeOK, trackerVars, TrackerTypeOK,
           storeVars, StoreTypeOK
  <1>2. TypeOK'
    BY <1>1 DEF TypeOK, trackerVars, pollVars
  <1>3. OffsetsInOrder' /\ DownIsBlank'
    BY DEF OffsetsInOrder, DownIsBlank, storeVars, pollVars
  <1> QED BY <1>2, <1>3

LEMMA StartType == TypeInv /\ Start => TypeInv'
  <1> SUFFICES ASSUME TypeInv, Start PROVE TypeInv'
    OBVIOUS
  <1> USE DEF TypeInv, Start
  <1>1. SessionTypeOK' /\ TrackerTypeOK' /\ deaths' = deaths
    <2>1. CASE UNCHANGED <<sessionVars, trackerVars>>
      BY <2>1 DEF TypeOK, sessionVars, SessionTypeOK, trackerVars, TrackerTypeOK
    <2>2. ASSUME NEW r \in MostRecentActive,
                 RestoreActiveRun(r, runs[r].startedAt), RestoreRun(r)
          PROVE  SessionTypeOK' /\ TrackerTypeOK' /\ deaths' = deaths
      <3>1. r \in RunIds /\ runs[r] \in RunRow
        BY DEF MostRecentActive, ActiveRuns, TypeOK, StoreTypeOK
      <3>2. current' \in Snapshot
        BY <2>2, <3>1 DEF RestoreActiveRun, Snapshot, RunRow
      <3>3. SessionTypeOK'
        BY <2>2, <3>2 DEF RestoreActiveRun, SessionTypeOK, TypeOK
      <3>4. TrackerTypeOK' /\ deaths' = deaths
        BY <2>2, <3>1 DEF RestoreRun, TrackerTypeOK, TypeOK
      <3> QED BY <3>3, <3>4
    <2> QED BY <2>1, <2>2
  <1>2. StoreTypeOK'
    BY DEF TypeOK, StoreTypeOK, storeVars
  <1>3. offset \in 0 .. MaxLines /\ offset' = offset
    BY DEF TypeOK, StoreTypeOK, storeVars
  <1>4. once' \in BOOLEAN
    OBVIOUS
  <1>5. TypeOK'
    BY <1>1, <1>2, <1>3, <1>4 DEF TypeOK, Phases
  <1>6. OffsetsInOrder'
    BY <1>3 DEF OffsetsInOrder, DownIsBlank
  <1>7. DownIsBlank'
    BY DEF DownIsBlank
  <1> QED BY <1>5, <1>6, <1>7

LEMMA BeginPollType == TypeInv /\ BeginPoll => TypeInv'
  <1> SUFFICES ASSUME TypeInv, BeginPoll PROVE TypeInv'
    OBVIOUS
  <1> USE DEF TypeInv, BeginPoll
  <1>1. SessionTypeOK' /\ TrackerTypeOK' /\ StoreTypeOK'
    BY DEF TypeOK, sessionVars, SessionTypeOK, trackerVars, TrackerTypeOK,
           storeVars, StoreTypeOK
  <1>2. TypeOK'
    BY <1>1 DEF TypeOK, Phases, trackerVars, stopVars
  <1>3. OffsetsInOrder'
    BY DEF TypeOK, StoreTypeOK, OffsetsInOrder, storeVars
  <1>4. DownIsBlank'
    BY DEF DownIsBlank
  <1> QED BY <1>2, <1>3, <1>4

LEMMA ReadLineType == TypeInv /\ ReadLine => TypeInv'
  <1> SUFFICES ASSUME TypeInv, ReadLine PROVE TypeInv'
    OBVIOUS
  <1> USE DEF TypeInv
  <1>1. pos + 1 \in DOMAIN log /\ log[pos + 1] \in Line /\ pos + 1 \in 1 .. MaxLines
    BY DEF ReadLine, TypeOK, OffsetsInOrder
  <1>2. SessionTypeOK'
    BY <1>1, SessionObserveType, NowType DEF ReadLine, TypeOK
  <1>3. lineNumber + 1 \in Nat \ {0}
    BY DEF TypeOK
  <1>4. TrackerTypeOK' /\ Len(deaths') \in {Len(deaths), Len(deaths) + 1}
    BY <1>1, <1>3, TrackerObserveType DEF ReadLine, TypeOK
  <1>5. StoreTypeOK'
    BY DEF ReadLine, TypeOK, storeVars, StoreTypeOK
  <1>6. Len(deaths) \in Nat
    BY DEF TypeOK, TrackerTypeOK
  <1>7. lineNumber + 1 \in 0 .. MaxLines
    BY <1>1 DEF TypeOK, OffsetsInOrder
  <1>8. TypeOK'
    BY <1>1, <1>2, <1>4, <1>5, <1>6, <1>7 DEF ReadLine, TypeOK, stopVars
  <1>9. OffsetsInOrder'
    BY <1>1 DEF ReadLine, TypeOK, StoreTypeOK, OffsetsInOrder, storeVars
  <1>10. DownIsBlank'
    BY DEF ReadLine, DownIsBlank
  <1> QED BY <1>8, <1>9, <1>10

(* EndOfPoll, SkipPersist and SupersededDone only move on to the next phase.   *)
LEMMA MoveOnType ==
  ASSUME TypeInv, EndOfPoll \/ SkipPersist \/ SupersededDone
  PROVE  TypeInv'
  <1> USE DEF TypeInv, EndOfPoll, SkipPersist, SupersededDone
  <1>1. SessionTypeOK' /\ TrackerTypeOK' /\ StoreTypeOK'
    BY DEF TypeOK, sessionVars, SessionTypeOK, trackerVars, TrackerTypeOK,
           storeVars, StoreTypeOK
  <1>2. TypeOK'
    BY <1>1 DEF TypeOK, Phases, trackerVars, pollVars, stopVars
  <1>3. OffsetsInOrder'
    BY DEF TypeOK, StoreTypeOK, OffsetsInOrder, storeVars, pollVars, NothingToPersist
  <1>4. DownIsBlank'
    BY DEF DownIsBlank
  <1> QED BY <1>2, <1>3, <1>4

LEMMA PersistPollType == TypeInv /\ PersistPoll => TypeInv'
  <1> SUFFICES ASSUME TypeInv, PersistPoll PROVE TypeInv'
    OBVIOUS
  <1> USE DEF TypeInv, PersistPoll
  <1>1. StoreTypeOK' /\ offset' = pos
    BY CommitType
  <1>2. SessionTypeOK' /\ TrackerTypeOK'
    BY DEF TypeOK, sessionVars, SessionTypeOK, trackerVars, TrackerTypeOK
  <1>3. Len(deaths) \in Nat /\ deaths' = deaths
    BY DEF TypeOK, TrackerTypeOK, trackerVars
  <1>4. TypeOK'
    BY <1>1, <1>2, <1>3 DEF TypeOK, Phases, stopVars
  <1>5. OffsetsInOrder'
    BY <1>1 DEF TypeOK, OffsetsInOrder
  <1>6. DownIsBlank'
    BY DEF DownIsBlank
  <1> QED BY <1>4, <1>5, <1>6

LEMMA CloseSupersededType == TypeInv /\ CloseSuperseded => TypeInv'
  <1> SUFFICES ASSUME TypeInv, CloseSuperseded PROVE TypeInv'
    OBVIOUS
  <1> USE DEF TypeInv
  <1>1. superseded # << >> /\ Head(superseded) \in Snapshot
        /\ Tail(superseded) \in Seq(Snapshot)
    BY DEF CloseSuperseded, TakeAbandoned, TypeOK, SessionTypeOK
  <1>2. StoreTypeOK' /\ offset' = offset
    BY <1>1, PersistClosureType DEF CloseSuperseded, TypeOK, Terminal
  <1>3. SessionTypeOK'
    BY <1>1 DEF CloseSuperseded, TakeAbandoned, TypeOK, SessionTypeOK
  <1>4. TrackerTypeOK'
    BY DEF CloseSuperseded, TypeOK, trackerVars, TrackerTypeOK
  <1>5. TypeOK'
    BY <1>2, <1>3, <1>4 DEF CloseSuperseded, TypeOK, trackerVars, pollVars, stopVars
  <1>6. OffsetsInOrder' /\ DownIsBlank'
    BY <1>2 DEF CloseSuperseded, OffsetsInOrder, DownIsBlank, pollVars
  <1> QED BY <1>5, <1>6

LEMMA CloseCompletedType == TypeInv /\ CloseCompleted => TypeInv'
  <1> SUFFICES ASSUME TypeInv, CloseCompleted PROVE TypeInv'
    OBVIOUS
  <1> USE DEF TypeInv
  <1>1. SessionTypeOK' /\ StoreTypeOK' /\ offset' = offset
    <2>1. CASE TakeCompleted /\ PersistClosure(current, "completed")
      <3>1. current \in Snapshot /\ "completed" \in Terminal
        BY DEF TypeOK, SessionTypeOK, Terminal
      <3>2. StoreTypeOK' /\ offset' = offset
        BY <2>1, <3>1, PersistClosureType DEF TypeOK
      <3>3. SessionTypeOK'
        BY <2>1, IdleType DEF TakeCompleted, TypeOK, SessionTypeOK
      <3> QED BY <3>2, <3>3
    <2>2. CASE UNCHANGED <<sessionVars, storeVars>>
      BY <2>2 DEF TypeOK, sessionVars, SessionTypeOK, storeVars, StoreTypeOK
    <2> QED BY <2>1, <2>2 DEF CloseCompleted
  <1>2. TrackerTypeOK'
    BY DEF CloseCompleted, TypeOK, trackerVars, TrackerTypeOK
  <1>3. pc' \in {"inactivity", "idle"}
    BY DEF CloseCompleted
  <1>4. TypeOK'
    BY <1>1, <1>2, <1>3 DEF CloseCompleted, TypeOK, Phases, trackerVars, pollVars, stopVars
  <1>5. OffsetsInOrder' /\ DownIsBlank'
    BY <1>1, <1>3 DEF CloseCompleted, OffsetsInOrder, DownIsBlank, pollVars
  <1> QED BY <1>4, <1>5

LEMMA CloseInactiveType == TypeInv /\ CloseInactive => TypeInv'
  <1> SUFFICES ASSUME TypeInv, CloseInactive PROVE TypeInv'
    OBVIOUS
  <1> USE DEF TypeInv
  <1>1. SessionTypeOK' /\ StoreTypeOK' /\ offset' = offset
    <2>1. CASE CheckInactivity /\ PersistClosure(current, "abandoned")
      <3>1. current \in Snapshot /\ "abandoned" \in Terminal
        BY DEF TypeOK, SessionTypeOK, Terminal
      <3>2. StoreTypeOK' /\ offset' = offset
        BY <2>1, <3>1, PersistClosureType DEF TypeOK
      <3>3. SessionTypeOK'
        BY <2>1, <3>1, AbandonedType DEF CheckInactivity, TypeOK, SessionTypeOK
      <3> QED BY <3>2, <3>3
    <2>2. CASE UNCHANGED <<sessionVars, storeVars>>
      BY <2>2 DEF TypeOK, sessionVars, SessionTypeOK, storeVars, StoreTypeOK
    <2> QED BY <2>1, <2>2 DEF CloseInactive
  <1>2. TrackerTypeOK'
    BY DEF CloseInactive, TypeOK, trackerVars, TrackerTypeOK
  <1>3. TypeOK'
    BY <1>1, <1>2 DEF CloseInactive, TypeOK, Phases, trackerVars, pollVars, stopVars
  <1>4. OffsetsInOrder' /\ DownIsBlank'
    BY <1>1 DEF CloseInactive, OffsetsInOrder, DownIsBlank, pollVars
  <1> QED BY <1>3, <1>4

(* Every other action stops the process.                                      *)
LEMMA StoppingSteps ==
  ASSUME Kill \/ AbortPoll \/ PersistFails \/ ClosureFails \/ ExitOnce \/ Shutdown
  PROVE  \E how \in {"ok", "failure", "killed"} : Stop(how)
  <1>1. Stop("ok") \/ Stop("failure") \/ Stop("killed")
    BY DEF Kill, AbortPoll, PersistFails, ClosureFails, ExitOnce, Shutdown
  <1> QED BY <1>1

LEMMA TypeStep == TypeInv /\ [Next]_vars => TypeInv'
  <1> SUFFICES ASSUME TypeInv, [Next]_vars PROVE TypeInv'
    OBVIOUS
  <1>1. CASE UNCHANGED vars
    BY <1>1 DEF vars, TypeInv, TypeOK, OffsetsInOrder, DownIsBlank,
                sessionVars, SessionTypeOK, trackerVars, TrackerTypeOK,
                storeVars, StoreTypeOK, pollVars, stopVars
  <1>2. CASE WriteLine \/ Elapse \/ Interrupt \/ Start
    BY <1>2, WriteLineType, ElapseType, InterruptType, StartType
  <1>3. CASE BeginPoll \/ ReadLine \/ EndOfPoll \/ SkipPersist \/ PersistPoll
    BY <1>3, BeginPollType, ReadLineType, MoveOnType, PersistPollType
  <1>4. CASE CloseSuperseded \/ SupersededDone \/ CloseCompleted \/ CloseInactive
    BY <1>4, CloseSupersededType, MoveOnType, CloseCompletedType, CloseInactiveType
  <1>5. CASE Kill \/ AbortPoll \/ PersistFails \/ ClosureFails \/ ExitOnce \/ Shutdown
    BY <1>5, StoppingSteps, StopType
  <1> QED
    BY <1>1, <1>2, <1>3, <1>4, <1>5 DEF Next, Environment, Process

LEMMA TypeInvariant == Spec => []TypeInv
  <1> QED BY InitTypeOK, TypeStep, PTL DEF Spec

(* Every variable of the capture process, its session manager, its tracker    *)
(* and its store keeps its type, under every schedule, crash and signal.      *)
THEOREM TypeCorrect == Spec => []TypeOK
  <1>1. TypeInv => TypeOK
    BY DEF TypeInv
  <1> QED BY <1>1, TypeInvariant, PTL

-------------------------------------------------------------------------------
(* Run bookkeeping.  The argument: START stamps strictly increase, so a START *)
(* read past the committed offset names a run that neither the store nor the  *)
(* process has seen; hence the runs waiting to be closed are all different    *)
(* and none is closed in the store.  They are closed only between polls, when *)
(* the read position is the committed offset, so the store never learns of a  *)
(* run whose START it does not cover.                                         *)
IInv == TypeInv /\ LogInOrder /\ RunsFromLog /\ RunsToCloseDiffer /\ RunsToCloseAreOpen

LEMMA StartReadUpTo ==
  ASSUME NEW r, NEW n \in Nat, NEW m \in Nat, n <= m, StartRead(r, n)
  PROVE  StartRead(r, m)
  BY DEF StartRead

(* The next line to read, if it opens a run, opens one nobody knows of.       *)
LEMMA FreshRun ==
  ASSUME TypeInv, LogInOrder, pos < Len(log), log[pos + 1].kind = "start",
         NEW r, StartRead(r, pos), r # NoRun
  PROVE  Instant(log[pos + 1]) # r
  <1>1. PICK i \in 1 .. pos : log[i].kind = "start" /\ Instant(log[i]) = r
    BY DEF StartRead
  <1>2. i \in DOMAIN log /\ pos + 1 \in DOMAIN log /\ i < pos + 1
    BY DEF TypeInv, TypeOK
  <1>3. log[i].at < log[pos + 1].at /\ log[i].at \in Int /\ log[pos + 1].at \in Int
    BY <1>2, LineFields DEF LogInOrder, TypeInv, TypeOK, Stamps
  <1> QED BY <1>1, <1>3 DEF Instant, NoInstant, NoRun

LEMMA InitIInv == Init => IInv
  <1> SUFFICES ASSUME Init PROVE IInv
    OBVIOUS
  <1>1. LogInOrder
    BY DEF Init, LogInOrder
  <1>2. RunsFromLog
    BY DEF Init, RunsFromLog, StoreInit, SessionInit, TrackerInit, Idle, NoContext, RunIds
  <1>3. RunsToCloseDiffer /\ RunsToCloseAreOpen
    BY DEF Init, RunsToCloseDiffer, RunsToCloseAreOpen, SessionInit, Idle, MayClose
  <1> QED BY <1>1, <1>2, <1>3, InitTypeOK DEF IInv

(* No line carries a stamp later than the last one.                            *)
LEMMA StampsUpToNow ==
  ASSUME TypeInv, LogInOrder
  PROVE  \A i \in DOMAIN log : log[i].at \in Nat /\ log[i].at <= Now
  <1>1. log \in Seq(Line) /\ Len(log) \in Nat /\ Now \in Int
    BY NowType DEF TypeInv, TypeOK
  <1> SUFFICES ASSUME NEW i \in DOMAIN log
               PROVE  log[i].at \in Nat /\ log[i].at <= Now
    OBVIOUS
  <1>2. log # << >> /\ Len(log) \in DOMAIN log /\ i <= Len(log) /\ i \in Int
    BY <1>1
  <1>3. log[i].at \in Nat
    BY <1>1, LineFields DEF Stamps
  <1>4. i < Len(log) => log[i].at <= log[Len(log)].at
    BY <1>2 DEF LogInOrder
  <1> QED BY <1>1, <1>2, <1>3, <1>4 DEF Now

LEMMA WriteLineIInv == IInv /\ WriteLine => IInv'
  <1> SUFFICES ASSUME IInv, WriteLine PROVE IInv'
    OBVIOUS
  <1>1. PICK l \in Line :
           /\ l.at \in (IF SharedStamps /\ l.kind # "start" THEN {Now, Now + 1} ELSE {Now + 1})
           /\ log' = Append(log, l)
    BY DEF WriteLine
  <1>2. log \in Seq(Line) /\ Len(log) \in Nat /\ Now \in Int
    BY NowType DEF IInv, TypeInv, TypeOK
  <1>3. \A i \in DOMAIN log : log'[i] = log[i] /\ log[i].at \in Int
    BY <1>1, <1>2, LineFields DEF Stamps
  <1>4. \A i \in DOMAIN log : log[i].at <= Now
    BY StampsUpToNow DEF IInv
  <1>5. LogInOrder'
    <2> SUFFICES ASSUME NEW i \in DOMAIN log', NEW j \in DOMAIN log', i < j
                 PROVE  /\ log'[i].at <= log'[j].at
                        /\ log'[j].kind = "start" => log'[i].at < log'[j].at
      BY DEF LogInOrder
    <2>1. CASE j \in DOMAIN log
      <3>1. i \in DOMAIN log
        BY <2>1, <1>1, <1>2
      <3>2. log'[i] = log[i] /\ log'[j] = log[j]
        BY <2>1, <3>1, <1>3
      <3> QED BY <2>1, <3>1, <3>2 DEF IInv, LogInOrder
    <2>2. CASE j \notin DOMAIN log
      <3>1. i \in DOMAIN log /\ log'[j] = l
        BY <2>2, <1>1, <1>2
      <3> QED BY <3>1, <1>1, <1>2, <1>3, <1>4
    <2> QED BY <2>1, <2>2
  <1>6. \A r, n : n \in 0 .. Len(log) /\ StartRead(r, n) => (StartRead(r, n))'
    <2> SUFFICES ASSUME NEW r, NEW n, n \in 0 .. Len(log), StartRead(r, n)
                 PROVE  \E i \in 1 .. n : log'[i].kind = "start" /\ Instant(log'[i]) = r
      BY DEF StartRead
    <2>1. PICK i \in 1 .. n : log[i].kind = "start" /\ Instant(log[i]) = r
      BY DEF StartRead
    <2>2. log'[i] = log[i]
      BY <1>2, <1>3
    <2> QED BY <2>1, <2>2
  <1>7. pos \in 0 .. Len(log) /\ offset \in 0 .. Len(log)
    BY DEF IInv, TypeInv, TypeOK, StoreTypeOK, OffsetsInOrder
  <1>8. RunsFromLog'
    BY <1>6, <1>7 DEF WriteLine, IInv, RunsFromLog, sessionVars, trackerVars, storeVars, pollVars
  <1>9. RunsToCloseDiffer' /\ RunsToCloseAreOpen'
    BY DEF WriteLine, IInv, RunsToCloseDiffer, RunsToCloseAreOpen, sessionVars, storeVars
  <1> QED BY <1>5, <1>8, <1>9, WriteLineType DEF IInv

LEMMA StartIInv == IInv /\ Start => IInv'
  <1> SUFFICES ASSUME IInv, Start PROVE IInv'
    OBVIOUS
  <1>1. pos' = offset /\ offset' = offset /\ runs' = runs /\ log' = log
        /\ superseded = << >> /\ deaths = << >> /\ current = Idle /\ runCtx = NoContext
    BY DEF Start, IInv, TypeInv, DownIsBlank, storeVars
  <1>2. LogInOrder'
    BY <1>1 DEF IInv, LogInOrder
  <1>3. CASE UNCHANGED <<sessionVars, trackerVars>>
    <2>1. current' = Idle /\ superseded' = << >> /\ runCtx' = NoContext /\ deaths' = << >>
      BY <1>1, <1>3 DEF sessionVars, trackerVars
    <2>2. RunsFromLog'
      BY <1>1, <2>1 DEF IInv, RunsFromLog, StartRead, Idle, NoContext
    <2>3. RunsToCloseDiffer' /\ RunsToCloseAreOpen'
      BY <2>1 DEF RunsToCloseDiffer, RunsToCloseAreOpen, Idle, MayClose
    <2> QED BY <1>2, <2>2, <2>3, StartType DEF IInv
  <1>4. ASSUME NEW r \in MostRecentActive,
               RestoreActiveRun(r, runs[r].startedAt), RestoreRun(r)
        PROVE  IInv'
    <2>1. r \in RunIds /\ runs[r].status = "active" /\ StartRead(r, offset)
      BY DEF MostRecentActive, ActiveRuns, IInv, RunsFromLog
    <2>2. current'.run = r /\ runCtx'.run = r /\ superseded' = << >> /\ deaths' = << >>
      BY <1>1, <1>4 DEF RestoreActiveRun, RestoreRun
    <2>3. RunsFromLog'
      BY <1>1, <2>1, <2>2 DEF IInv, RunsFromLog, StartRead
    <2>4. RunsToCloseDiffer' /\ RunsToCloseAreOpen'
      BY <1>1, <2>1, <2>2 DEF RunsToCloseDiffer, RunsToCloseAreOpen, MayClose, Terminal
    <2> QED BY <1>2, <2>3, <2>4, StartType DEF IInv
  <1> QED BY <1>3, <1>4 DEF Start

LEMMA StopIInv ==
  ASSUME IInv, NEW how \in {"ok", "failure", "killed"}, Stop(how)
  PROVE  IInv'
  <1>1. log' = log /\ runs' = runs /\ offset' = offset
        /\ current' = Idle /\ superseded' = << >> /\ runCtx' = NoContext /\ deaths' = << >>
    BY DEF Stop, storeVars
  <1>2. LogInOrder'
    BY <1>1 DEF IInv, LogInOrder
  <1>3. RunsFromLog'
    BY <1>1 DEF IInv, RunsFromLog, StartRead, Idle, NoContext
  <1>4. RunsToCloseDiffer' /\ RunsToCloseAreOpen'
    BY <1>1 DEF RunsToCloseDiffer, RunsToCloseAreOpen, Idle, MayClose
  <1> QED BY <1>2, <1>3, <1>4, StopType DEF IInv, TypeInv

(* What a step must do to the session for the bookkeeping to survive when it  *)
(* leaves the log, the store and the read position alone.                     *)
LEMMA QuietIInv ==
  ASSUME IInv, TypeInv',
         UNCHANGED <<log, runs, offset, pos, superseded, runCtx, deaths>>,
         current'.run = current.run,
         MayClose(current') => MayClose(current)
  PROVE  IInv'
  <1>1. LogInOrder'
    BY DEF IInv, LogInOrder
  <1>2. RunsFromLog'
    BY DEF IInv, RunsFromLog, StartRead
  <1>3. RunsToCloseDiffer' /\ RunsToCloseAreOpen'
    BY DEF IInv, RunsToCloseDiffer, RunsToCloseAreOpen
  <1> QED BY <1>1, <1>2, <1>3 DEF IInv

LEMMA ReadLineSession ==
  ASSUME IInv, ReadLine
  PROVE  /\ current'.run # NoRun => StartRead(current'.run, pos')
         /\ \A k \in DOMAIN superseded' :
              superseded'[k].run # NoRun => StartRead(superseded'[k].run, pos')
         /\ RunsToCloseDiffer'
         /\ RunsToCloseAreOpen'
  <1> DEFINE l == log[pos + 1]
  <1>1. /\ log' = log /\ runs' = runs /\ pos' = pos + 1
        /\ pos \in Nat /\ pos + 1 \in Nat /\ offset \in Nat /\ offset <= pos
        /\ pos < Len(log)
    BY DEF ReadLine, storeVars, IInv, TypeInv, TypeOK, StoreTypeOK, OffsetsInOrder
  <1>2. \A r : StartRead(r, pos) => StartRead(r, pos + 1)
    BY <1>1, StartReadUpTo
  <1>3. superseded \in Seq(Snapshot) /\ current \in Snapshot
    BY DEF IInv, TypeInv, TypeOK, SessionTypeOK
  <1>4. CASE l.kind = "start" /\ ObserveStart(Instant(l), TickAfter(Now))
    <2> DEFINE r == Instant(l)
    <2>1. current'.run = r /\ (MayClose(current') => r # NoRun)
      BY <1>4 DEF ObserveStart, MayClose
    <2>2. r # NoRun => StartRead(r, pos + 1)
      BY <1>1, <1>4 DEF StartRead
    <2>3. Abandoned(current).run = current.run
      BY <1>3 DEF Abandoned, Snapshot
    <2>4. Open(current) /\ current.run # NoRun => MayClose(current)
      BY DEF Open, MayClose
    <2>5. \A k \in DOMAIN superseded' :
             \/ k \in DOMAIN superseded /\ superseded'[k] = superseded[k]
             \/ /\ Open(current) /\ k = Len(superseded) + 1
                /\ superseded'[k].run = current.run
      BY <1>3, <1>4, <2>3 DEF ObserveStart
    <2>6. \A k \in DOMAIN superseded' :
             superseded'[k].run # NoRun => StartRead(superseded'[k].run, pos)
      BY <2>5 DEF IInv, RunsFromLog
    <2>7. \A k \in DOMAIN superseded' :
             superseded'[k].run # NoRun => superseded'[k].run # r
      BY <1>1, <1>4, <2>6, FreshRun DEF IInv
    <2>8. r # NoRun => ~StartRead(r, offset)
      BY <1>1, <1>4, StartReadUpTo, FreshRun DEF IInv
    <2>9. r # NoRun => runs[r].status \notin Terminal
      <3>1. l \in Line
        BY <1>1 DEF IInv, TypeInv, TypeOK
      <3>2. r \in RunIds \union {NoRun}
        BY <3>1, LineFields
      <3> QED BY <2>8, <3>2 DEF IInv, RunsFromLog, Terminal
    <2>10. RunsToCloseDiffer'
      <3>1. \A k, m \in DOMAIN superseded' :
              k # m /\ superseded'[k].run # NoRun => superseded'[k].run # superseded'[m].run
        BY <2>4, <2>5 DEF IInv, RunsToCloseDiffer
      <3>2. MayClose(current') => \A k \in DOMAIN superseded' : superseded'[k].run # current'.run
        BY <2>1, <2>7
      <3> QED BY <3>1, <3>2 DEF RunsToCloseDiffer
    <2>11. RunsToCloseAreOpen'
      <3>1. MayClose(current') => runs'[current'.run].status \notin Terminal
        BY <1>1, <2>1, <2>9
      <3>2. \A k \in DOMAIN superseded' :
              superseded'[k].run # NoRun => runs'[superseded'[k].run].status \notin Terminal
        BY <1>1, <2>4, <2>5 DEF IInv, RunsToCloseAreOpen
      <3> QED BY <3>1, <3>2 DEF RunsToCloseAreOpen
    <2>12. \A k \in DOMAIN superseded' :
              superseded'[k].run # NoRun => StartRead(superseded'[k].run, pos')
      BY <1>1, <1>2, <2>6
    <2> QED BY <1>1, <2>1, <2>2, <2>10, <2>11, <2>12
  <1>5. CASE ObserveEnd \/ ObserveActivity \/ UNCHANGED sessionVars
    <2>1. superseded' = superseded
      BY <1>5 DEF ObserveEnd, ObserveActivity, sessionVars
    <2>2. current'.run = current.run /\ (MayClose(current') => MayClose(current))
      BY <1>3, <1>5 DEF ObserveEnd, ObserveActivity, sessionVars, Snapshot, MayClose, Open
    <2> QED BY <1>1, <1>2, <2>1, <2>2
         DEF IInv, RunsFromLog, RunsToCloseDiffer, RunsToCloseAreOpen
  <1> QED BY <1>4, <1>5 DEF ReadLine, SessionObserve

LEMMA ReadLineIInv == IInv /\ ReadLine => IInv'
  <1> SUFFICES ASSUME IInv, ReadLine PROVE IInv'
    OBVIOUS
  <1> DEFINE l == log[pos + 1]
  <1>1. log' = log /\ runs' = runs /\ offset' = offset /\ pos' = pos + 1 /\ pos \in Nat
    BY DEF ReadLine, storeVars, IInv, TypeInv, TypeOK
  <1>2. LogInOrder'
    BY <1>1 DEF IInv, LogInOrder
  <1>3. \A r : StartRead(r, pos) => StartRead(r, pos')
    BY <1>1, StartReadUpTo
  <1>4. deaths \in Seq(Candidate)
    BY DEF IInv, TypeInv, TypeOK, TrackerTypeOK
  <1>5. runCtx'.run # NoRun => StartRead(runCtx'.run, pos')
    <2>1. CASE l.kind = "start" /\ ObserveRunStart(Instant(l))
      BY <1>1, <2>1 DEF ObserveRunStart, StartRead
    <2>2. CASE ObserveRunEnd \/ UNCHANGED runCtx
      <3>1. runCtx'.run = runCtx.run
        BY <2>2 DEF ObserveRunEnd, IInv, TypeInv, TypeOK, TrackerTypeOK
      <3> QED BY <1>3, <3>1 DEF IInv, RunsFromLog
    <2> QED BY <2>1, <2>2 DEF ReadLine, TrackerObserve, trackerVars, ObserveDeath
  <1>6. \A k \in DOMAIN deaths' : deaths'[k].run # NoRun => StartRead(deaths'[k].run, pos')
    <2>1. CASE deaths' = deaths
      BY <1>3, <2>1 DEF IInv, RunsFromLog
    <2>2. CASE ObserveDeath(l, lineNumber + 1)
      <3>1. PICK d : deaths' = Append(deaths, d) /\ d.run = runCtx.run
        BY <2>2 DEF ObserveDeath
      <3> QED BY <1>3, <1>4, <3>1 DEF IInv, RunsFromLog
    <2> QED BY <2>1, <2>2
         DEF ReadLine, TrackerObserve, trackerVars, ObserveRunStart, ObserveRunEnd
  <1>7. RunsFromLog'
    <2>1. \A r \in RunIds : runs'[r].status # "absent" => StartRead(r, offset')
      BY <1>1 DEF IInv, RunsFromLog
    <2> QED BY <1>1, <1>5, <1>6, <2>1, ReadLineSession DEF RunsFromLog, StartRead
  <1> QED BY <1>2, <1>7, ReadLineSession, ReadLineType DEF IInv

(* The runs a poll upserts have their START among the lines it read.          *)
LEMMA NewRunsRead ==
  ASSUME IInv, ~UnboundDeath
  PROVE  \A r \in DOMAIN NewRuns : StartRead(r, pos)
  <1>1. \A r \in DeathRuns : StartRead(r, pos)
    <2> SUFFICES ASSUME NEW i \in DOMAIN NewDeaths PROVE StartRead(NewDeaths[i].run, pos)
      BY DEF DeathRuns
    <2>1. NewDeaths[i] = deaths[persistedDeaths + i] /\ persistedDeaths + i \in DOMAIN deaths
      BY NewDeathsType DEF IInv, TypeInv, TypeOK, TrackerTypeOK
    <2> QED BY <2>1 DEF UnboundDeath, IInv, RunsFromLog
  <1>2. \A r \in SessionRuns : StartRead(r, pos)
    BY DEF SessionRuns, IInv, RunsFromLog
  <1> QED BY <1>1, <1>2 DEF NewRuns

LEMMA CommitStatus ==
  ASSUME StoreTypeOK, NEW started, NEW es, NEW n, Commit(started, es, n)
  PROVE  \A r \in RunIds :
           \/ runs'[r] = runs[r]
           \/ r \in DOMAIN started /\ runs[r].status = "absent" /\ runs'[r].status = "active"
  BY DEF Commit, StoreTypeOK

LEMMA PersistPollIInv == IInv /\ PersistPoll => IInv'
  <1> SUFFICES ASSUME IInv, PersistPoll PROVE IInv'
    OBVIOUS
  <1>1. /\ log' = log /\ pos' = pos /\ offset' = pos
        /\ current' = current /\ superseded' = superseded
        /\ runCtx' = runCtx /\ deaths' = deaths
        /\ pos \in Nat /\ offset \in Nat /\ offset <= pos
    BY DEF PersistPoll, Commit, sessionVars, trackerVars,
           IInv, TypeInv, TypeOK, StoreTypeOK, OffsetsInOrder
  <1>2. \A r \in RunIds :
           \/ runs'[r] = runs[r]
           \/ StartRead(r, pos) /\ runs[r].status = "absent" /\ runs'[r].status = "active"
    BY CommitStatus, NewRunsRead DEF PersistPoll, IInv, TypeInv, TypeOK
  <1>3. LogInOrder'
    BY <1>1 DEF IInv, LogInOrder
  <1>4. RunsFromLog'
    <2>1. \A r \in RunIds : runs'[r].status # "absent" => StartRead(r, pos)
      BY <1>1, <1>2, StartReadUpTo DEF IInv, RunsFromLog
    <2> QED BY <1>1, <2>1 DEF IInv, RunsFromLog, StartRead
  <1>5. RunsToCloseDiffer'
    BY <1>1 DEF IInv, RunsToCloseDiffer
  <1>6. RunsToCloseAreOpen'
    <2>1. MayClose(current) => current.run \in RunIds
      BY DEF MayClose, IInv, TypeInv, TypeOK, SessionTypeOK, Snapshot
    <2>2. \A k \in DOMAIN superseded : superseded[k].run # NoRun => superseded[k].run \in RunIds
      <3>1. \A k \in DOMAIN superseded : superseded[k] \in Snapshot
        BY DEF IInv, TypeInv, TypeOK, SessionTypeOK
      <3> QED BY <3>1 DEF Snapshot
    <2> QED BY <1>1, <1>2, <2>1, <2>2 DEF IInv, RunsToCloseAreOpen, Terminal
  <1> QED BY <1>3, <1>4, <1>5, <1>6, PersistPollType DEF IInv

(* Closing the run of a snapshot between polls: no run still to be closed is  *)
(* the one that was closed.                                                   *)
LEMMA ClosureIInv ==
  ASSUME IInv, TypeInv', pos = offset,
         NEW s \in Snapshot, NEW status \in Terminal, PersistClosure(s, status),
         s.run # NoRun => StartRead(s.run, pos),
         UNCHANGED <<log, pos, runCtx, deaths>>,
         superseded' \in {superseded, Tail(superseded)},
         current'.run \in {current.run, NoRun},
         MayClose(current') => MayClose(current),
         s.run # NoRun =>
           /\ MayClose(current') => current'.run # s.run
           /\ \A k \in DOMAIN superseded' : superseded'[k].run # s.run
  PROVE  IInv'
  <1>1. /\ offset' = offset
        /\ \A r \in RunIds : r # s.run => runs'[r] = runs[r]
    BY DEF PersistClosure, CloseRun, storeVars, IInv, TypeInv, TypeOK, StoreTypeOK
  <1>2. superseded \in Seq(Snapshot) /\ superseded' \in Seq(Snapshot)
    BY DEF IInv, TypeInv, TypeOK, SessionTypeOK
  <1>3. PICK n \in {0, 1} : \A k \in DOMAIN superseded' :
           k + n \in DOMAIN superseded /\ superseded'[k] = superseded[k + n]
    <2>1. CASE superseded' = superseded
      <3>1. \A k \in DOMAIN superseded' :
              k + 0 \in DOMAIN superseded /\ superseded'[k] = superseded[k + 0]
        BY <1>2, <2>1
      <3> QED BY <3>1
    <2>2. CASE superseded' = Tail(superseded) /\ superseded # << >>
      <3>1. \A k \in DOMAIN superseded' :
              k + 1 \in DOMAIN superseded /\ superseded'[k] = superseded[k + 1]
        BY <1>2, <2>2
      <3> QED BY <3>1
    <2>3. CASE superseded' = Tail(superseded) /\ superseded = << >>
      <3>1. superseded' = << >>
        BY <2>3
      <3> QED BY <3>1
    <2> QED BY <2>1, <2>2, <2>3
  <1>4. LogInOrder'
    BY DEF IInv, LogInOrder
  <1>5. RunsFromLog'
    <2>1. \A r \in RunIds : runs'[r].status # "absent" => StartRead(r, offset)
      BY <1>1 DEF IInv, RunsFromLog, PersistClosure, storeVars
    <2>2. \A k \in DOMAIN superseded' :
             superseded'[k].run # NoRun => StartRead(superseded'[k].run, pos)
      BY <1>3 DEF IInv, RunsFromLog
    <2> QED BY <1>1, <2>1, <2>2 DEF IInv, RunsFromLog, StartRead
  <1>6. RunsToCloseDiffer'
    <2>1. \A k, m \in DOMAIN superseded' :
            k # m /\ superseded'[k].run # NoRun => superseded'[k].run # superseded'[m].run
      <3> SUFFICES ASSUME NEW k \in DOMAIN superseded', NEW m \in DOMAIN superseded',
                          k # m, superseded'[k].run # NoRun
                   PROVE  superseded'[k].run # superseded'[m].run
        OBVIOUS
      <3>1. k \in Int /\ m \in Int /\ k + n # m + n
        BY <1>2
      <3> QED BY <1>3, <3>1 DEF IInv, RunsToCloseDiffer
    <2>2. MayClose(current') =>
            \A k \in DOMAIN superseded' : superseded'[k].run # current'.run
      BY <1>3 DEF IInv, RunsToCloseDiffer, MayClose
    <2> QED BY <2>1, <2>2 DEF RunsToCloseDiffer
  <1>7. RunsToCloseAreOpen'
    <2>1. MayClose(current') =>
            /\ current'.run = current.run /\ current'.run \in RunIds
            /\ current'.run # s.run
      <3>1. current \in Snapshot
        BY DEF IInv, TypeInv, TypeOK, SessionTypeOK
      <3> QED BY <3>1 DEF MayClose, Snapshot
    <2>2. \A k \in DOMAIN superseded' : superseded'[k].run # NoRun =>
            superseded'[k].run \in RunIds /\ superseded'[k].run # s.run
      <3>1. \A k \in DOMAIN superseded' : superseded'[k] \in Snapshot
        BY <1>2
      <3>2. \A k \in DOMAIN superseded' : superseded'[k].run # NoRun =>
              superseded'[k].run \in RunIds
        BY <3>1 DEF Snapshot
      <3>3. ASSUME NEW k \in DOMAIN superseded', superseded'[k].run # NoRun
            PROVE  superseded'[k].run # s.run
        BY <3>3
      <3> QED BY <3>2, <3>3
    <2>3. MayClose(current') => runs'[current'.run].status \notin Terminal
      BY <1>1, <2>1 DEF IInv, RunsToCloseAreOpen
    <2>4. \A k \in DOMAIN superseded' :
            superseded'[k].run # NoRun => runs'[superseded'[k].run].status \notin Terminal
      BY <1>1, <1>3, <2>2 DEF IInv, RunsToCloseAreOpen
    <2> QED BY <2>3, <2>4 DEF RunsToCloseAreOpen
  <1> QED BY <1>4, <1>5, <1>6, <1>7 DEF IInv

LEMMA CloseSupersededIInv == IInv /\ CloseSuperseded => IInv'
  <1> SUFFICES ASSUME IInv, CloseSuperseded PROVE IInv'
    OBVIOUS
  <1> DEFINE h == Head(superseded)
  <1>1. /\ superseded \in Seq(Snapshot) /\ superseded # << >>
        /\ 1 \in DOMAIN superseded /\ h = superseded[1] /\ h \in Snapshot
    BY DEF CloseSuperseded, TakeAbandoned, IInv, TypeInv, TypeOK, SessionTypeOK
  <1>2. /\ PersistClosure(h, "abandoned") /\ pos = offset /\ current' = current
        /\ superseded' = Tail(superseded)
        /\ UNCHANGED <<log, pos, runCtx, deaths>>
    BY DEF CloseSuperseded, TakeAbandoned, pollVars, trackerVars, IInv, TypeInv, OffsetsInOrder
  <1>3. h.run # NoRun => StartRead(h.run, pos)
    BY <1>1 DEF IInv, RunsFromLog
  <1>4. \A k \in DOMAIN superseded' :
           k + 1 \in DOMAIN superseded /\ superseded'[k] = superseded[k + 1] /\ k + 1 # 1
    BY <1>1, <1>2
  <1>5. h.run # NoRun => \A k \in DOMAIN superseded' : superseded'[k].run # h.run
    BY <1>1, <1>4 DEF IInv, RunsToCloseDiffer
  <1>6. MayClose(current') => current'.run # h.run
    BY <1>1, <1>2 DEF IInv, RunsToCloseDiffer
  <1>7. TypeInv'
    BY CloseSupersededType DEF IInv
  <1>8. "abandoned" \in Terminal
    BY DEF Terminal
  <1> HIDE DEF h
  <1> QED BY <1>1, <1>2, <1>3, <1>5, <1>6, <1>7, <1>8, ClosureIInv

LEMMA CloseCompletedIInv == IInv /\ CloseCompleted => IInv'
  <1> SUFFICES ASSUME IInv, CloseCompleted PROVE IInv'
    OBVIOUS
  <1>1. TypeInv' /\ pos = offset /\ current \in Snapshot /\ "completed" \in Terminal
        /\ UNCHANGED <<log, pos, runCtx, deaths>>
    BY CloseCompletedType DEF CloseCompleted, pollVars, trackerVars, IInv, TypeInv,
       OffsetsInOrder, TypeOK, SessionTypeOK, Terminal
  <1>2. CASE TakeCompleted /\ PersistClosure(current, "completed")
    <2>1. current.state = "completed" /\ superseded' = superseded /\ current' = Idle
      BY <1>2 DEF TakeCompleted
    <2>2. current'.run = NoRun /\ ~MayClose(current')
      BY <2>1 DEF Idle, MayClose
    <2>3. current.run # NoRun => StartRead(current.run, pos)
      BY DEF IInv, RunsFromLog
    <2>4. current.run # NoRun => \A k \in DOMAIN superseded' : superseded'[k].run # current.run
      BY <2>1 DEF IInv, RunsToCloseDiffer, MayClose
    <2> QED BY <1>1, <1>2, <2>1, <2>2, <2>3, <2>4, ClosureIInv
  <1>3. CASE UNCHANGED <<sessionVars, storeVars>>
    BY <1>1, <1>3, QuietIInv DEF sessionVars, storeVars
  <1> QED BY <1>2, <1>3 DEF CloseCompleted

LEMMA CloseInactiveIInv == IInv /\ CloseInactive => IInv'
  <1> SUFFICES ASSUME IInv, CloseInactive PROVE IInv'
    OBVIOUS
  <1>1. TypeInv' /\ pos = offset /\ current \in Snapshot /\ "abandoned" \in Terminal
        /\ UNCHANGED <<log, pos, runCtx, deaths>>
    BY CloseInactiveType DEF CloseInactive, pollVars, trackerVars, IInv, TypeInv,
       OffsetsInOrder, TypeOK, SessionTypeOK, Terminal
  <1>2. CASE CheckInactivity /\ PersistClosure(current, "abandoned")
    <2>1. /\ Open(current) /\ superseded' = superseded
          /\ current'.run = current.run /\ current'.state = "abandoned"
      BY <1>1, <1>2 DEF CheckInactivity, Expired, Abandoned, Snapshot
    <2>2. ~MayClose(current')
      BY <2>1 DEF MayClose
    <2>3. current.run # NoRun => StartRead(current.run, pos)
      BY DEF IInv, RunsFromLog
    <2>4. current.run # NoRun => \A k \in DOMAIN superseded' : superseded'[k].run # current.run
      BY <2>1 DEF IInv, RunsToCloseDiffer, MayClose, Open
    <2> QED BY <1>1, <1>2, <2>1, <2>2, <2>3, <2>4, ClosureIInv
  <1>3. CASE UNCHANGED <<sessionVars, storeVars>>
    BY <1>1, <1>3, QuietIInv DEF sessionVars, storeVars
  <1> QED BY <1>2, <1>3 DEF CloseInactive

(* The steps that touch neither the log nor the store nor the runs in memory. *)
LEMMA QuietSteps ==
  ASSUME IInv,
         \/ Elapse \/ Interrupt \/ BeginPoll \/ UNCHANGED vars
         \/ EndOfPoll \/ SkipPersist \/ SupersededDone
  PROVE  IInv'
  <1>1. TypeInv'
    BY TypeStep DEF IInv, Next, Environment, Process
  <1>2. /\ UNCHANGED <<log, runs, offset, pos, superseded, runCtx, deaths>>
        /\ current'.run = current.run /\ current'.state = current.state
    BY DEF Elapse, ElapseInSession, Interrupt, BeginPoll, EndOfPoll, SkipPersist,
           SupersededDone, vars, sessionVars, trackerVars, storeVars, pollVars,
           IInv, TypeInv, TypeOK, SessionTypeOK, Snapshot
  <1> QED BY <1>1, <1>2, QuietIInv DEF MayClose

LEMMA IInvStep == IInv /\ [Next]_vars => IInv'
  <1> SUFFICES ASSUME IInv, [Next]_vars PROVE IInv'
    OBVIOUS
  <1>1. CASE WriteLine \/ Start
    BY <1>1, WriteLineIInv, StartIInv
  <1>2. CASE ReadLine \/ PersistPoll
    BY <1>2, ReadLineIInv, PersistPollIInv
  <1>3. CASE CloseSuperseded \/ CloseCompleted \/ CloseInactive
    BY <1>3, CloseSupersededIInv, CloseCompletedIInv, CloseInactiveIInv
  <1>4. CASE Kill \/ AbortPoll \/ PersistFails \/ ClosureFails \/ ExitOnce \/ Shutdown
    BY <1>4, StoppingSteps, StopIInv
  <1>5. CASE \/ Elapse \/ Interrupt \/ BeginPoll \/ UNCHANGED vars
             \/ EndOfPoll \/ SkipPersist \/ SupersededDone
    BY <1>5, QuietSteps
  <1> QED
    BY <1>1, <1>2, <1>3, <1>4, <1>5 DEF Next, Environment, Process

LEMMA InductiveInvariant == Spec => []IInv
  <1> QED BY InitIInv, IInvStep, PTL DEF Spec

(* The store, the session and the tracker agree on which runs exist: a stored *)
(* run has its START before the committed offset, and the runs the process    *)
(* may still close are different and not closed yet.                          *)
THEOREM BookkeepingCorrect == Spec => []RunBookkeeping
  <1>1. IInv => RunBookkeeping
    BY DEF IInv, TypeInv, RunBookkeeping
  <1> QED BY <1>1, InductiveInvariant, PTL

-------------------------------------------------------------------------------
(* A run is only closed while it is open.                                     *)

LEMMA ClosureStatus ==
  ASSUME StoreTypeOK, NEW s \in Snapshot, NEW status, PersistClosure(s, status),
         s.run # NoRun => runs[s.run].status \notin Terminal,
         NEW r \in RunIds, runs[r].status \in Terminal
  PROVE  runs'[r].status = runs[r].status
  BY DEF PersistClosure, CloseRun, storeVars, StoreTypeOK

LEMMA StatusStep ==
  ASSUME IInv, [Next]_vars, NEW r \in RunIds, runs[r].status \in Terminal
  PROVE  runs'[r].status = runs[r].status
  <1> USE DEF IInv, TypeInv, TypeOK
  <1>1. CASE PersistPoll
    BY <1>1, CommitStatus DEF PersistPoll, Terminal
  <1>2. CASE CloseSuperseded
    <2>1. /\ Head(superseded) \in Snapshot
          /\ Head(superseded).run # NoRun
               => runs[Head(superseded).run].status \notin Terminal
      <3>1. 1 \in DOMAIN superseded /\ Head(superseded) = superseded[1]
            /\ Head(superseded) \in Snapshot
        BY <1>2 DEF CloseSuperseded, TakeAbandoned, SessionTypeOK
      <3> QED BY <3>1 DEF RunsToCloseAreOpen
    <2> QED BY <1>2, <2>1, ClosureStatus DEF CloseSuperseded
  <1>3. CASE CloseCompleted
    <2>1. CASE TakeCompleted /\ PersistClosure(current, "completed")
      <3>1. current \in Snapshot
            /\ (current.run # NoRun => runs[current.run].status \notin Terminal)
        BY <2>1 DEF TakeCompleted, SessionTypeOK, RunsToCloseAreOpen, MayClose
      <3> QED BY <2>1, <3>1, ClosureStatus
    <2>2. CASE UNCHANGED storeVars
      BY <2>2 DEF storeVars
    <2> QED BY <1>3, <2>1, <2>2 DEF CloseCompleted
  <1>4. CASE CloseInactive
    <2>1. CASE CheckInactivity /\ PersistClosure(current, "abandoned")
      <3>1. current \in Snapshot
            /\ (current.run # NoRun => runs[current.run].status \notin Terminal)
        BY <2>1 DEF CheckInactivity, Expired, Open, SessionTypeOK, RunsToCloseAreOpen, MayClose
      <3> QED BY <2>1, <3>1, ClosureStatus
    <2>2. CASE UNCHANGED storeVars
      BY <2>2 DEF storeVars
    <2> QED BY <1>4, <2>1, <2>2 DEF CloseInactive
  <1>5. CASE \/ WriteLine \/ Elapse \/ Interrupt \/ Start \/ BeginPoll \/ ReadLine
             \/ EndOfPoll \/ SkipPersist \/ SupersededDone \/ UNCHANGED vars
    BY <1>5 DEF WriteLine, Elapse, Interrupt, Start, BeginPoll, ReadLine, EndOfPoll,
                SkipPersist, SupersededDone, vars, storeVars
  <1>6. CASE Kill \/ AbortPoll \/ PersistFails \/ ClosureFails \/ ExitOnce \/ Shutdown
    <2>1. PICK how \in {"ok", "failure", "killed"} : Stop(how)
      BY <1>6, StoppingSteps
    <2> QED BY <2>1 DEF Stop, storeVars
  <1> QED
    BY <1>1, <1>2, <1>3, <1>4, <1>5, <1>6 DEF Next, Environment, Process

(* A run that was stored as completed or abandoned keeps that status: no      *)
(* replayed poll, restart, late closure or restored run rewrites it.          *)
THEOREM EndedRunsStayEnded == Spec => StatusFinal
  <1>1. IInv /\ [Next]_vars
          => [\A r \in RunIds : runs[r].status \in Terminal
                                 => runs'[r].status = runs[r].status]_vars
    BY StatusStep
  <1> QED BY <1>1, InductiveInvariant, PTL DEF Spec, StatusFinal
=============================================================================
