-------------------------- MODULE CaptureLedgerProofs --------------------------
(* Theorems about Capture in a benign environment: every stamp resolves, no   *)
(* two lines share one, and players die only during a run.  There the store   *)
(* has each tracked death exactly once, and Capture implements DeathLedger.   *)
EXTENDS CaptureDeathProofs

Benign == ~Unresolved /\ ~SharedStamps /\ DeathsOnlyInRun

(* What the game then writes.                                                 *)
LogBenign ==
  /\ \A i, j \in DOMAIN log : i < j => log[i].at < log[j].at
  /\ \A i \in DOMAIN log : log[i].kind \in {"start", "died"} => log[i].resolved
  /\ \A i \in DOMAIN log : log[i].kind = "died" => InRun(i)

(* An inactive context that still names a run has read an END since the last  *)
(* START.                                                                     *)
ContextBenign ==
  /\ runCtx.active => runCtx.run # NoRun
  /\ ~runCtx.active /\ runCtx.run # NoRun =>
       \E j \in 1 .. pos :
         /\ log[j].kind = "end"
         /\ \A i \in j .. pos : log[i].kind # "start"

(* A death that is not hashed has no run, so it cannot be stored.             *)
HashedOrUnbound ==
  \A k \in DOMAIN deaths : deaths[k].run = NoRun \/ CanComputeIDs(deaths[k])

CoveredAreRecorded ==
  \A i \in DeathLines(offset) :
    \E e \in events : e.who = log[i].who /\ e.at = Instant(log[i])

LedgerInv ==
  /\ IInv /\ LineInv
  /\ LogBenign /\ ContextBenign /\ HashedOrUnbound /\ CoveredAreRecorded

-------------------------------------------------------------------------------
(* Lines that share an instant are one line.                                  *)
LEMMA OneDeathPerInstant ==
  ASSUME TypeInv, LogBenign, NEW i \in DOMAIN log, NEW j \in DOMAIN log,
         log[i].kind = "died", log[j].kind = "died", Instant(log[i]) = Instant(log[j])
  PROVE  i = j
  <1>1. log[i].at = log[j].at
    BY DEF LogBenign, Instant
  <1>2. log[i].at \in Int /\ i \in Int /\ j \in Int
    BY LineFields DEF TypeInv, TypeOK, Stamps
  <1>3. ~(i < j) /\ ~(j < i)
    BY <1>1, <1>2 DEF LogBenign
  <1> QED BY <1>2, <1>3

(* So the death lines on record are those below the offset.                   *)
RecordIsPrefix == RecordedLines = DeathLines(offset)

LEMMA RecordedAreCovered == LedgerInv => RecordIsPrefix
  <1> SUFFICES ASSUME LedgerInv PROVE RecordedLines = DeathLines(offset)
    BY DEF RecordIsPrefix
  <1> USE DEF LedgerInv, LineInv
  <1>1. offset \in Nat /\ Len(log) \in Nat /\ offset <= Len(log) /\ DOMAIN log = 1 .. Len(log)
    BY DeathTypes
  <1>2. DeathLines(offset) \subseteq RecordedLines
    BY <1>1 DEF CoveredAreRecorded, RecordedLines, DeathLines
  <1>3. ASSUME NEW i \in RecordedLines PROVE i \in DeathLines(offset)
    <2>1. PICK e \in events : e.who = log[i].who /\ e.at = Instant(log[i])
      BY DEF RecordedLines
    <2>2. PICK j \in 1 .. offset : ComesFrom(e, j)
      BY DEF EventsAreLines
    <2>3. i \in DOMAIN log /\ j \in DOMAIN log /\ log[i].kind = "died"
      BY <1>1 DEF RecordedLines, DeathLines
    <2>4. i = j
      BY <2>1, <2>2, <2>3, OneDeathPerInstant DEF ComesFrom
    <2> QED BY <2>2, <2>3, <2>4 DEF DeathLines
  <1> QED BY <1>2, <1>3

LEMMA WriteLineLedger ==
  ASSUME Benign, LedgerInv, WriteLine
  PROVE  LedgerInv'
  <1> USE DEF LedgerInv, LineInv
  <1>1. IInv' /\ LineInv'
    BY WriteLineIInv, WriteLineLines
  <1>2. PICK l \in Line :
           /\ l.at = Now + 1
           /\ l.kind \in {"start", "died"} => l.resolved
           /\ l.kind = "died" => InRun(Len(log) + 1)
           /\ log' = Append(log, l)
    BY DEF WriteLine, Benign
  <1>3. /\ log \in Seq(Line) /\ Len(log) \in Nat /\ DOMAIN log = 1 .. Len(log)
        /\ pos \in Nat /\ offset \in Nat /\ pos <= Len(log) /\ offset <= Len(log)
    BY DeathTypes
  <1>4. /\ DOMAIN log' = 1 .. Len(log) + 1 /\ log'[Len(log) + 1] = l
        /\ \A i \in 1 .. Len(log) : log'[i] = log[i]
        /\ \A i \in 1 .. Len(log) + 1 : i = Len(log) + 1 \/ i \in 1 .. Len(log)
    BY <1>2, <1>3
  <1>5. UNCHANGED <<pos, offset, events, deaths, runCtx>>
    BY DEF WriteLine, storeVars, trackerVars, pollVars
  <1>6. LogBenign'
    <2>1. \A i \in 1 .. Len(log) : log[i].at \in Nat /\ log[i].at <= Now /\ log[i].at < Now + 1
      <3>1. Now \in Int
        BY NowType DEF TypeInv
      <3> QED BY <1>3, <3>1, StampsUpToNow DEF IInv
    <2>2. ASSUME NEW i \in 1 .. Len(log) + 1, NEW j \in 1 .. Len(log) + 1, i < j
          PROVE  log'[i].at < log'[j].at
      <3>1. i \in 1 .. Len(log)
        BY <1>3, <2>2
      <3>2. CASE j = Len(log) + 1
        BY <3>1, <3>2, <1>2, <1>4, <2>1
      <3>3. CASE j \in 1 .. Len(log)
        BY <3>1, <3>3, <1>3, <1>4, <2>2 DEF LogBenign
      <3> QED BY <1>4, <3>2, <3>3
    <2>3. \A i \in 1 .. Len(log) + 1 :
             log'[i].kind \in {"start", "died"} => log'[i].resolved
      BY <1>2, <1>3, <1>4 DEF LogBenign
    <2>4. \A i \in 1 .. Len(log) + 1 : log'[i].kind = "died" => InRun(i)'
      <3>1. \A i \in 1 .. Len(log) + 1 : InRun(i)' <=> InRun(i)
        BY GoverningAppend
      <3> QED BY <1>2, <1>3, <1>4, <3>1 DEF LogBenign
    <2> QED BY <1>4, <2>2, <2>3, <2>4 DEF LogBenign
  <1>7. ContextBenign'
    <2>1. \A j \in 1 .. pos : \A i \in j .. pos : i \in 1 .. Len(log)
      BY <1>3
    <2> QED BY <1>3, <1>4, <1>5, <2>1 DEF ContextBenign
  <1>8. HashedOrUnbound'
    BY <1>5 DEF HashedOrUnbound, CanComputeIDs
  <1>9. CoveredAreRecorded'
    <2>1. DeathLines(offset)' = DeathLines(offset)
      BY <1>3, <1>4, <1>5 DEF DeathLines
    <2>2. \A i \in DeathLines(offset) : log'[i] = log[i]
      BY <1>3, <1>4 DEF DeathLines
    <2> QED BY <1>5, <2>1, <2>2 DEF CoveredAreRecorded
  <1> QED BY <1>1, <1>6, <1>7, <1>8, <1>9

(* A death line read outside a run in progress belongs to no run, for the END *)
(* that ended the run would lie between its START and the death.              *)
LEMMA DeathIsInActiveRun ==
  ASSUME LedgerInv, pos < Len(log), log[pos + 1].kind = "died", runCtx.run # NoRun
  PROVE  runCtx.active
  <1> USE DEF LedgerInv, LineInv
  <1>1. /\ pos \in Nat /\ pos + 1 \in DOMAIN log /\ pos + 1 \in Nat
    BY DeathTypes
  <1>2. InRun(pos + 1)
    BY <1>1 DEF LogBenign
  <1>3. SUFFICES ASSUME ~runCtx.active PROVE FALSE
    BY DEF TypeInv, TypeOK, TrackerTypeOK
  <1>4. PICK j \in 1 .. pos :
           /\ log[j].kind = "end"
           /\ \A i \in j .. pos : log[i].kind # "start"
    BY <1>3 DEF ContextBenign
  <1> DEFINE g == GoverningLine(pos + 1)
  <1>5. g \in StartsBefore(pos + 1)
    BY <1>1, <1>2, GoverningLineBound DEF InRun, GoverningRun
  <1>6. g \in 1 .. pos /\ log[g].kind = "start"
    BY <1>1, <1>5 DEF StartsBefore
  <1> HIDE DEF g
  <1>7. g < j
    BY <1>1, <1>4, <1>6
  <1>8. j \in g .. (pos + 1) - 1
    BY <1>1, <1>6, <1>7
  <1> QED BY <1>2, <1>4, <1>8 DEF InRun, g

LEMMA ReadLineLedger ==
  ASSUME LedgerInv, ReadLine
  PROVE  LedgerInv'
  <1> USE DEF LedgerInv, LineInv
  <1> DEFINE l == log[pos + 1]
  <1>1. IInv' /\ LineInv'
    BY ReadLineIInv, ReadLineLines
  <1>2. /\ UNCHANGED <<log, events, offset>> /\ pos' = pos + 1
        /\ pos \in Nat /\ pos + 1 \in DOMAIN log /\ pos < Len(log)
        /\ deaths \in Seq(Candidate)
    <2>1. UNCHANGED <<log, events, offset>> /\ pos' = pos + 1
      BY DEF ReadLine, storeVars
    <2>2. pos < limit /\ limit <= Len(log) /\ limit \in Nat
      BY DEF ReadLine, TypeInv, TypeOK, OffsetsInOrder
    <2> QED BY <2>1, <2>2, DeathTypes
  <1>3. LogBenign'
    BY <1>2, GoverningSameLog DEF LogBenign
  <1>4. CoveredAreRecorded'
    BY <1>2 DEF CoveredAreRecorded, DeathLines
  <1>5. l.kind \in {"start", "died"} => l.resolved /\ Instant(l) # NoInstant
    <2>1. l \in Line
      BY <1>2 DEF TypeInv, TypeOK
    <2> QED BY <1>2, <2>1, LineFields DEF LogBenign, Instant, Stamps, NoInstant
  <1>6. ContextBenign'
    <2> SUFFICES /\ runCtx'.active => runCtx'.run # NoRun
                 /\ ~runCtx'.active /\ runCtx'.run # NoRun =>
                      \E j \in 1 .. pos + 1 :
                        /\ log[j].kind = "end"
                        /\ \A i \in j .. pos + 1 : log[i].kind # "start"
      BY <1>2 DEF ContextBenign
    <2>1. CASE l.kind = "start" /\ ObserveRunStart(Instant(l))
      BY <1>5, <2>1 DEF ObserveRunStart, NoInstant, NoRun
    <2>2. CASE l.kind = "end" /\ ObserveRunEnd
      <3>1. ~runCtx'.active
        BY <2>2 DEF ObserveRunEnd, TypeInv, TypeOK, TrackerTypeOK
      <3>2. pos + 1 \in 1 .. pos + 1 /\ \A i \in pos + 1 .. pos + 1 : i = pos + 1
        BY <1>2
      <3> QED BY <2>2, <3>1, <3>2
    <2>3. CASE l.kind # "start" /\ runCtx' = runCtx
      <3> SUFFICES ASSUME ~runCtx.active, runCtx.run # NoRun
                   PROVE  \E j \in 1 .. pos + 1 :
                            /\ log[j].kind = "end"
                            /\ \A i \in j .. pos + 1 : log[i].kind # "start"
        BY <2>3 DEF ContextBenign
      <3>1. PICK j \in 1 .. pos :
               /\ log[j].kind = "end"
               /\ \A i \in j .. pos : log[i].kind # "start"
        BY DEF ContextBenign
      <3>2. j \in 1 .. pos + 1 /\ \A i \in j .. pos + 1 : i \in j .. pos \/ i = pos + 1
        BY <1>2
      <3> QED BY <2>3, <3>1, <3>2
    <2> QED BY <2>1, <2>2, <2>3 DEF ReadLine, TrackerObserve, ObserveDeath, trackerVars
  <1>7. HashedOrUnbound'
    <2> SUFFICES \A k \in DOMAIN deaths' : deaths'[k].run = NoRun \/ CanComputeIDs(deaths'[k])
      BY DEF HashedOrUnbound, CanComputeIDs
    <2>1. CASE deaths' = deaths
      BY <2>1 DEF HashedOrUnbound
    <2>2. CASE l.kind = "died" /\ ObserveDeath(l, lineNumber + 1)
      <3> DEFINE hold == ~runCtx.active \/ runCtx.run = NoRun
                 numbered == ~hold /\ Instant(l) # NoInstant
                 d == [line |-> lineNumber + 1, who |-> l.who, at |-> Instant(l),
                       run |-> runCtx.run, hold |-> hold,
                       ord |-> IF numbered THEN ordinals[<<l.who, Instant(l), runCtx.run>>]
                                           ELSE 0]
      <3>1. deaths' = Append(deaths, d)
        BY <2>2 DEF ObserveDeath
      <3>2. d.run = NoRun \/ CanComputeIDs(d)
        BY <1>2, <1>5, <2>2, DeathIsInActiveRun DEF CanComputeIDs
      <3> HIDE DEF d
      <3>3. \A k \in DOMAIN deaths' :
               (k \in DOMAIN deaths /\ deaths'[k] = deaths[k]) \/ deaths'[k] = d
        BY <1>2, <3>1
      <3> QED BY <3>2, <3>3 DEF HashedOrUnbound
    <2> QED BY <2>1, <2>2
         DEF ReadLine, TrackerObserve, ObserveRunStart, ObserveRunEnd, trackerVars
  <1> QED BY <1>1, <1>3, <1>4, <1>6, <1>7

(* The transaction of a poll stores the death of every line it covers: either *)
(* the row is inserted, or the row that stopped it is that death's.           *)
LEMMA NewDeathRecorded ==
  ASSUME LedgerInv, PersistPoll, NEW i \in DeathLines(pos), i > offset
  PROVE  \E e \in events' : e.who = log[i].who /\ e.at = Instant(log[i])
  <1> USE DEF LedgerInv, LineInv
  <1>1. PICK k \in DOMAIN deaths : LogLine(deaths[k]) = i
    BY DEF DeathsAreLines
  <1>2. k > persistedDeaths /\ ComesFrom(deaths[k], i)
    BY <1>1 DEF DeathsAreLines
  <1> DEFINE n == k - persistedDeaths
             e == NewEvents[n]
  <1>3. n \in 1 .. Len(deaths) - persistedDeaths /\ n \in Nat /\ persistedDeaths + n = k
    BY <1>2, DeathTypes
  <1>4. n \in DOMAIN NewDeaths /\ n \in DOMAIN NewEvents
    BY <1>3, NewDeathsType DEF NewEvents, TypeInv
  <1>5. NewDeaths[n] = deaths[k] /\ e = EventInput(deaths[k])
    BY <1>3, <1>4, NewDeathsType DEF NewEvents, TypeInv
  <1>6. deaths[k].run # NoRun /\ CanComputeIDs(deaths[k])
    BY <1>4, <1>5 DEF PersistPoll, UnboundDeath, HashedOrUnbound
  <1>7. e.hashed /\ e.who = log[i].who /\ e.at = Instant(log[i])
    BY <1>2, <1>5, <1>6 DEF EventInput, ComesFrom
  <1> HIDE DEF e
  <1>8. CASE ~Skipped(NewEvents, n)
    <2>1. e \in events'
      BY <1>4, <1>8 DEF PersistPoll, Commit, e
    <2> QED BY <1>7, <2>1
  <1>9. CASE \E f \in events : SameID(f, e)
    <2>1. events \subseteq events'
      BY DEF PersistPoll, Commit
    <2> QED BY <1>7, <1>9, <2>1 DEF SameID
  <1>10. CASE \E j \in 1 .. n - 1 : SameID(NewEvents[j], e)
    <2>1. PICK j \in 1 .. n - 1 : SameID(NewEvents[j], e)
      BY <1>10
    <2> DEFINE m == persistedDeaths + j
    <2>2. j \in DOMAIN NewEvents /\ m < k
      BY <1>3, <2>1, NewDeathsType, DeathTypes DEF NewEvents, TypeInv
    <2>3. m \in DOMAIN deaths /\ NewEvents[j].at = deaths[m].at
      BY <2>2, NewEventIsDeath
    <2>4. deaths[m].at = Instant(log[i])
      BY <1>7, <2>1, <2>3 DEF SameID
    <2>5. /\ LogLine(deaths[m]) \in DOMAIN log /\ i \in DOMAIN log
          /\ ComesFrom(deaths[m], LogLine(deaths[m]))
      BY <2>3, DeathTypes DEF DeathsAreLines, DeathLines
    <2>6. LogLine(deaths[m]) = i
      BY <1>2, <2>4, <2>5, OneDeathPerInstant DEF ComesFrom
    <2>7. deaths[m].line < deaths[k].line
      BY <2>2, <2>3 DEF DeathsAreLines
    <2>8. deaths[m].line \in Int /\ deaths[k].line \in Int /\ pos - lineNumber \in Int
      BY <2>3, DeathTypes
    <2> HIDE DEF m
    <2>9. FALSE
      BY <1>1, <2>6, <2>7, <2>8 DEF LogLine
    <2> QED BY <2>9
  <1> QED BY <1>8, <1>9, <1>10 DEF Skipped, e

LEMMA PersistPollLedger ==
  ASSUME LedgerInv, PersistPoll
  PROVE  LedgerInv'
  <1> USE DEF LedgerInv, LineInv
  <1>1. IInv' /\ LineInv'
    BY PersistPollIInv, PersistPollLines
  <1>2. /\ UNCHANGED <<log, pos, deaths, runCtx>> /\ offset' = pos
        /\ events \subseteq events' /\ offset \in Nat /\ pos \in Nat
    BY DeathTypes DEF PersistPoll, Commit, trackerVars
  <1>3. LogBenign' /\ ContextBenign' /\ HashedOrUnbound'
    BY <1>2, GoverningSameLog DEF LogBenign, ContextBenign, HashedOrUnbound, CanComputeIDs
  <1>4. CoveredAreRecorded'
    <2> SUFFICES ASSUME NEW i \in DeathLines(pos)
                 PROVE  \E e \in events' : e.who = log[i].who /\ e.at = Instant(log[i])
      BY <1>2 DEF CoveredAreRecorded, DeathLines
    <2>1. CASE i > offset
      BY <2>1, NewDeathRecorded
    <2>2. CASE ~(i > offset)
      <3>1. i \in DeathLines(offset)
        BY <1>2, <2>2 DEF DeathLines
      <3> QED BY <1>2, <3>1 DEF CoveredAreRecorded
    <2> QED BY <2>1, <2>2
  <1> QED BY <1>1, <1>3, <1>4

LEMMA LedgerInvStep == Benign /\ LedgerInv /\ [Next]_vars => LedgerInv'
  <1> SUFFICES ASSUME Benign, LedgerInv, [Next]_vars PROVE LedgerInv'
    OBVIOUS
  <1> USE DEF LedgerInv, LineInv
  <1>1. IInv' /\ LineInv'
    BY IInvStep, LineStep
  <1>2. CASE WriteLine \/ ReadLine \/ PersistPoll
    BY <1>2, WriteLineLedger, ReadLineLedger, PersistPollLedger
  <1>3. ASSUME UNCHANGED <<log, events, offset>>
        PROVE  LogBenign' /\ CoveredAreRecorded'
    BY <1>3, GoverningSameLog DEF LogBenign, CoveredAreRecorded, DeathLines
  <1>4. CASE Start
    <2>1. UNCHANGED <<log, events, offset>> /\ deaths = << >> /\ runCtx = NoContext
      BY <1>4 DEF Start, storeVars, TypeInv, DownIsBlank
    <2>2. runCtx' = NoContext \/ (runCtx'.active /\ runCtx'.run # NoRun)
      BY <1>4, <2>1
         DEF Start, RestoreRun, trackerVars, MostRecentActive, ActiveRuns, RunIds, Stamps, NoRun
    <2>3. deaths' = << >>
      BY <1>4, <2>1 DEF Start, RestoreRun, trackerVars
    <2>4. ContextBenign' /\ HashedOrUnbound'
      BY <2>2, <2>3 DEF ContextBenign, HashedOrUnbound, NoContext
    <2> QED BY <1>1, <1>3, <2>1, <2>4
  <1>5. CASE \E how \in {"ok", "failure", "killed"} : Stop(how)
    <2>1. UNCHANGED <<log, events, offset>> /\ deaths' = << >> /\ runCtx' = NoContext
      BY <1>5 DEF Stop, storeVars
    <2>2. ContextBenign' /\ HashedOrUnbound'
      BY <2>1 DEF ContextBenign, HashedOrUnbound, NoContext
    <2> QED BY <1>1, <1>3, <2>1, <2>2
  <1>6. CASE UNCHANGED <<log, deaths, persistedDeaths, pos, lineNumber, events, offset, runCtx>>
    <2>1. ContextBenign' /\ HashedOrUnbound'
      BY <1>6 DEF ContextBenign, HashedOrUnbound, CanComputeIDs
    <2> QED BY <1>1, <1>3, <1>6, <2>1
  <1> QED BY <1>2, <1>4, <1>5, <1>6, LineSteps

LEMMA InitLedgerInv == Init => LedgerInv
  <1> SUFFICES ASSUME Init PROVE LedgerInv
    OBVIOUS
  <1>1. /\ log = << >> /\ deaths = << >> /\ runCtx = NoContext /\ events = {} /\ offset = 0
    BY DEF Init, TrackerInit, StoreInit
  <1>2. LogBenign /\ ContextBenign /\ HashedOrUnbound /\ CoveredAreRecorded
    BY <1>1 DEF LogBenign, ContextBenign, HashedOrUnbound, CoveredAreRecorded,
                DeathLines, NoContext
  <1> QED BY <1>2, InitIInv, InitLineInv DEF LedgerInv

LEMMA LedgerInvariant == Benign => (Spec => []LedgerInv)
  <1> SUFFICES ASSUME Benign PROVE Spec => []LedgerInv
    OBVIOUS
  <1>1. LedgerInv /\ [Next]_vars => LedgerInv'
    BY LedgerInvStep
  <1> QED BY <1>1, InitLedgerInv, PTL DEF Spec

(* An instant has one death line at most, and its row exactly if it is below  *)
(* the offset.                                                                *)
LEMMA ExactlyOnceFromLedger == LedgerInv => ExactlyOnce
  <1> SUFFICES ASSUME LedgerInv, NEW p \in Players, NEW t \in Stamps \union {NoInstant}
               PROVE  Cardinality({e \in events : e.who = p /\ e.at = t})
                        = Cardinality({i \in DeathLines(offset) :
                                         log[i].who = p /\ Instant(log[i]) = t})
    BY DEF ExactlyOnce
  <1> USE DEF LedgerInv, LineInv
  <1> DEFINE S == {e \in events : e.who = p /\ e.at = t}
             T == {i \in DeathLines(offset) : log[i].who = p /\ Instant(log[i]) = t}
  <1>1. PICK f \in [events -> 1 .. offset] :
           /\ \A e \in events : ComesFrom(e, f[e])
           /\ \A e1, e2 \in events : f[e1] = f[e2] => e1 = e2
    BY DEF EventsAreLines
  <1>2. \A e \in S : f[e] \in T
    BY <1>1 DEF ComesFrom, DeathLines
  <1>3. \A i, j \in T : i = j
    <2>1. \A i \in T : i \in DOMAIN log /\ log[i].kind = "died"
      BY DeathTypes DEF DeathLines
    <2> QED BY <2>1, OneDeathPerInstant
  <1>4. CASE T = {}
    <2>1. S = {}
      BY <1>2, <1>4
    <2> HIDE DEF S, T
    <2>2. S = T
      BY <1>4, <2>1
    <2> QED BY <2>2 DEF S, T
  <1>5. ASSUME NEW i \in T PROVE Cardinality(S) = Cardinality(T)
    <2>1. T = {i}
      BY <1>3
    <2>2. PICK e \in events : e.who = log[i].who /\ e.at = Instant(log[i])
      BY DEF CoveredAreRecorded
    <2>3. S = {e}
      <3>1. e \in S
        BY <2>2
      <3>2. \A d \in S : f[d] = i /\ d \in events
        BY <1>2, <1>3
      <3>3. \A d \in S : d = e
        BY <1>1, <3>1, <3>2
      <3> QED BY <3>1, <3>3
    <2> HIDE DEF S, T
    <2> QED BY <2>1, <2>3, FS_Singleton
  <1> QED BY <1>4, <1>5

(* Where every stamp resolves, no two lines share one and players die only    *)
(* during a run: a death line is in the store exactly once if and only if the *)
(* committed offset has passed it, through every crash, signal and restart.   *)
THEOREM DeathsStoredExactlyOnce == Benign => (Spec => []ExactlyOnce)
  <1> SUFFICES ASSUME Benign PROVE Spec => []ExactlyOnce
    OBVIOUS
  <1>1. Spec => []LedgerInv
    BY LedgerInvariant
  <1> QED BY <1>1, ExactlyOnceFromLedger, PTL

-------------------------------------------------------------------------------
(* Refinement.  PersistPoll covers lines, a closure ends a run, WriteLine     *)
(* writes, and every other step leaves the ledger as it is.                   *)

LEMMA LedgerNames ==
  /\ Ledger!Line = Line
  /\ Ledger!RunIds = RunIds
  /\ Ledger!Ended = Terminal
  BY DEF Ledger!Line, Line, Ledger!LineKinds, LineKinds, Ledger!Stamps, Stamps,
         Ledger!RunIds, RunIds, Ledger!Ended, Terminal

LEMMA RecordedAfter == LedgerInv' => RecordIsPrefix'
  BY RecordedAreCovered, PTL

(* What is on record follows from the offset before and after a step.         *)
LEMMA RecordedStep ==
  ASSUME LedgerInv, LedgerInv'
  PROVE  /\ RecordedLines = DeathLines(offset)
         /\ RecordedLines' = DeathLines(offset)'
  BY RecordedAreCovered, RecordedAfter DEF RecordIsPrefix

LEMMA WriteLineWrites ==
  ASSUME LedgerInv, LedgerInv', WriteLine
  PROVE  Ledger!Write
  <1>1. PICK l \in Line : log' = Append(log, l)
    BY DEF WriteLine
  <1>2. UNCHANGED <<runs, offset>>
    BY DEF WriteLine, storeVars
  <1>3. \A i \in 1 .. offset : log'[i] = log[i]
    BY <1>1, DeathTypes DEF LedgerInv, LineInv
  <1>4. RecordedLines' = RecordedLines
    BY <1>2, <1>3, RecordedStep DEF DeathLines
  <1> QED BY <1>1, <1>2, <1>4, LedgerNames DEF Ledger!Write

LEMMA PersistPollCovers ==
  ASSUME LedgerInv, LedgerInv', PersistPoll
  PROVE  Ledger!Cover
  <1> USE DEF LedgerInv, LineInv
  <1>1. /\ log' = log /\ offset' = pos
        /\ offset \in Nat /\ pos \in Nat /\ offset <= pos
        /\ pos <= Len(log) /\ Len(log) \in Nat
    BY DeathTypes DEF PersistPoll, Commit, TypeInv, OffsetsInOrder
  <1>2. offset # pos
    <2> SUFFICES ASSUME offset = pos PROVE FALSE
      OBVIOUS
    <2>1. \A k \in DOMAIN deaths : ~(LogLine(deaths[k]) > pos)
      BY <1>1 DEF DeathsAreLines
    <2>2. \A k \in DOMAIN deaths : ~(k > persistedDeaths)
      BY <2>1 DEF DeathsAreLines
    <2>3. Len(deaths) <= persistedDeaths
      BY <2>2, DeathTypes
    <2>4. NewDeaths = << >>
      BY <2>3, DeathTypes, NewDeathsType DEF TypeInv
    <2> QED BY <2>4 DEF PersistPoll, NothingToPersist
  <1>3. offset < Len(log) /\ offset' \in offset + 1 .. Len(log)
    BY <1>1, <1>2
  <1>4. RecordedLines' = RecordedLines \union {i \in offset + 1 .. offset' : log[i].kind = "died"}
    BY <1>1, RecordedStep DEF DeathLines
  <1> DEFINE status == [r \in RunIds |-> runs[r].status]
             opened == {r \in DOMAIN NewRuns \intersect RunIds : runs[r].status = "absent"}
  <1>5. status' = [r \in RunIds |-> IF r \in opened THEN "active" ELSE status[r]]
    BY DEF PersistPoll, Commit
  <1>6. opened \in SUBSET {r \in RunIds : status[r] = "absent"}
    OBVIOUS
  <1> HIDE DEF opened
  <1> QED BY <1>1, <1>3, <1>4, <1>5, <1>6, LedgerNames DEF Ledger!Cover

(* Closing the run of a snapshot whose run is not closed yet.                 *)
LEMMA ClosureEnds ==
  ASSUME LedgerInv, LedgerInv', NEW s \in Snapshot, NEW how \in Terminal,
         PersistClosure(s, how), log' = log,
         s.run # NoRun => runs[s.run].status \notin Terminal
  PROVE  Ledger!End \/ UNCHANGED Ledger!ledgerVars
  <1>1. events' = events /\ offset' = offset
    BY DEF PersistClosure, CloseRun, storeVars
  <1>2. RecordedLines' = RecordedLines
    BY <1>1 DEF RecordedLines, DeathLines
  <1>3. CASE s.run = NoRun
    <2>1. runs' = runs
      BY <1>3 DEF PersistClosure, storeVars
    <2> QED BY <1>1, <1>2, <2>1 DEF Ledger!ledgerVars
  <1>4. CASE s.run # NoRun
    <2> DEFINE status == [r \in RunIds |-> runs[r].status]
    <2>1. s.run \in RunIds
      BY <1>4 DEF Snapshot
    <2>2. status' = [status EXCEPT ![s.run] = how]
      <3>1. runs \in [RunIds -> RunRow]
        BY DEF LedgerInv, LineInv, TypeInv, TypeOK, StoreTypeOK
      <3>2. \A r \in RunIds : runs'[r].status = IF r = s.run THEN how ELSE runs[r].status
        BY <1>4, <2>1, <3>1 DEF PersistClosure, CloseRun
      <3> QED BY <2>1, <3>2
    <2>3. status[s.run] \notin Terminal
      BY <1>4, <2>1
    <2> QED BY <1>1, <1>2, <2>1, <2>2, <2>3, LedgerNames DEF Ledger!End
  <1> QED BY <1>3, <1>4

LEMMA LedgerStep ==
  LedgerInv /\ LedgerInv' /\ [Next]_vars => [Ledger!LedgerNext]_(Ledger!ledgerVars)
  <1> SUFFICES ASSUME LedgerInv, LedgerInv', [Next]_vars
               PROVE  Ledger!LedgerNext \/ UNCHANGED Ledger!ledgerVars
    OBVIOUS
  <1> USE DEF Ledger!LedgerNext
  <1>1. CASE WriteLine
    BY <1>1, WriteLineWrites
  <1>2. CASE PersistPoll
    BY <1>2, PersistPollCovers
  <1>3. current \in Snapshot /\ superseded \in Seq(Snapshot) /\ RunsToCloseAreOpen
    BY DEF LedgerInv, LineInv, TypeInv, TypeOK, SessionTypeOK, IInv
  <1>4. "completed" \in Terminal /\ "abandoned" \in Terminal
    BY DEF Terminal
  <1>5. CASE UNCHANGED <<log, storeVars>>
    <2>1. RecordedLines' = RecordedLines
      BY <1>5 DEF storeVars, RecordedLines, DeathLines
    <2> QED BY <1>5, <2>1 DEF storeVars, Ledger!ledgerVars
  <1>6. CASE CloseSuperseded
    <2>1. /\ 1 \in DOMAIN superseded /\ Head(superseded) = superseded[1]
          /\ Head(superseded) \in Snapshot
      BY <1>3, <1>6 DEF CloseSuperseded, TakeAbandoned
    <2>2. Head(superseded).run # NoRun => runs[Head(superseded).run].status \notin Terminal
      BY <1>3, <2>1 DEF RunsToCloseAreOpen
    <2> QED BY <1>4, <1>6, <2>1, <2>2, ClosureEnds DEF CloseSuperseded
  <1>7. CASE CloseCompleted
    <2>1. CASE TakeCompleted /\ PersistClosure(current, "completed")
      <3>1. current.run # NoRun => runs[current.run].status \notin Terminal
        BY <1>3, <2>1 DEF TakeCompleted, RunsToCloseAreOpen, MayClose
      <3> QED BY <1>3, <1>4, <1>7, <2>1, <3>1, ClosureEnds DEF CloseCompleted
    <2> QED BY <1>5, <1>7, <2>1 DEF CloseCompleted
  <1>8. CASE CloseInactive
    <2>1. CASE CheckInactivity /\ PersistClosure(current, "abandoned")
      <3>1. current.run # NoRun => runs[current.run].status \notin Terminal
        BY <1>3, <2>1 DEF CheckInactivity, Expired, Open, RunsToCloseAreOpen, MayClose
      <3> QED BY <1>3, <1>4, <1>8, <2>1, <3>1, ClosureEnds DEF CloseInactive
    <2> QED BY <1>5, <1>8, <2>1 DEF CloseInactive
  <1>9. CASE \/ Elapse \/ Interrupt \/ Start \/ BeginPoll \/ ReadLine
             \/ EndOfPoll \/ SkipPersist \/ SupersededDone \/ UNCHANGED vars
    BY <1>5, <1>9 DEF Elapse, Interrupt, Start, BeginPoll, ReadLine, EndOfPoll,
                      SkipPersist, SupersededDone, vars
  <1>10. CASE Kill \/ AbortPoll \/ PersistFails \/ ClosureFails \/ ExitOnce \/ Shutdown
    <2>1. PICK how \in {"ok", "failure", "killed"} : Stop(how)
      BY <1>10, StoppingSteps DEF LedgerInv
    <2> QED BY <1>5, <2>1 DEF Stop
  <1> QED
    BY <1>1, <1>2, <1>6, <1>7, <1>8, <1>9, <1>10 DEF Next, Environment, Process

LEMMA LedgerStarts == Init => Ledger!LedgerInit
  <1> SUFFICES ASSUME Init PROVE Ledger!LedgerInit
    OBVIOUS
  <1>1. log = << >> /\ offset = 0 /\ events = {}
    BY DEF Init, StoreInit
  <1>2. RecordedLines = {}
    BY <1>1 DEF RecordedLines
  <1>3. [r \in RunIds |-> runs[r].status] = [r \in RunIds |-> "absent"]
    BY DEF Init, StoreInit
  <1> QED BY <1>1, <1>2, <1>3, LedgerNames DEF Ledger!LedgerInit

(* In the same environment the whole process - its polls, crashes, signals,   *)
(* restarts and closures - does nothing to the store but cover a further      *)
(* prefix of the log together with all of its deaths, and end a run once.     *)
THEOREM CaptureImplementsLedger == Benign => (Spec => Ledger!LedgerSafety)
  <1> SUFFICES ASSUME Benign PROVE Spec => Ledger!LedgerSafety
    OBVIOUS
  <1>1. Spec => []LedgerInv
    BY LedgerInvariant
  <1> QED BY <1>1, LedgerStep, LedgerStarts, PTL DEF Spec, Ledger!LedgerSafety
=============================================================================
