------------------------------- MODULE Capture -------------------------------
(* cmd/yeetcraft-companion/capture.go: the headless capture process, composed *)
(* of the session manager, the death tracker and the SQLite store, reading a  *)
(* log the game appends to.                                                   *)
(*                                                                            *)
(* Durable: log (written by the game) and the store.  Everything else is      *)
(* memory of the process and is lost whenever it stops.                       *)
(*                                                                            *)
(* Simplifications: one file generation (the log only grows); whole lines     *)
(* (bytes and partial lines are the log scanner's business); reading the      *)
(* database at start is one step, since it changes nothing.  A call on the    *)
(* database with a cancelled context fails, as database/sql specifies.        *)
EXTENDS SessionManager, DeathTracker, Store, FiniteSets, FiniteSetsExt

CONSTANTS
  Kinds,              \* environment: the kinds of line the game writes
  Unresolved,         \* environment: whether stamps may fail to resolve
  SharedStamps,       \* environment: whether two lines may carry one stamp
  DeathsOnlyInRun,    \* environment: whether players die only between START and END
  Interrupts,         \* environment: whether SIGINT or SIGTERM may arrive
  TimePasses,         \* environment: whether play may pause for the timeout
  MaxStarts           \* bound: how often the process is started

ASSUME EnvironmentAssumption ==
  /\ Kinds \subseteq LineKinds
  /\ Unresolved \in BOOLEAN
  /\ SharedStamps \in BOOLEAN
  /\ DeathsOnlyInRun \in BOOLEAN
  /\ Interrupts \in BOOLEAN
  /\ TimePasses \in BOOLEAN
  /\ MaxStarts \in Nat

(* The variables of the session manager, the tracker and the store, and:      *)
VARIABLES
  log,              \* the lines written so far
  pc,               \* where the process is in runCapture
  limit,            \* file size taken by the stat of this poll
  pos,              \* lines read: the offset proposed, then acknowledged
  lineNumber,       \* ParserState line number, not persisted
  persistedDeaths,  \* captureService.persistedDeaths
  cancelled,        \* the context of runCapture is done
  exit,             \* how the process last stopped
  once,             \* the --once flag of this process
  starts            \* how often the process was started

pollVars == <<limit, pos, lineNumber, persistedDeaths>>
stopVars == <<cancelled, exit, once, starts>>
vars == <<log, sessionVars, trackerVars, storeVars, pc, pollVars, stopVars>>

Phases == {"down", "idle", "scan", "commit", "supersede", "complete",
           "inactivity", "recheck"}

TypeOK ==
  /\ log \in Seq(Line)
  /\ Len(log) <= MaxLines
  /\ SessionTypeOK
  /\ TrackerTypeOK
  /\ StoreTypeOK
  /\ pc \in Phases
  /\ limit \in 0 .. MaxLines
  /\ pos \in 0 .. MaxLines
  /\ lineNumber \in 0 .. MaxLines
  /\ persistedDeaths \in 0 .. Len(deaths)
  /\ cancelled \in BOOLEAN
  /\ exit \in {"none", "ok", "failure", "killed"}
  /\ once \in BOOLEAN
  /\ starts \in 0 .. MaxStarts

Init ==
  /\ log = << >>
  /\ SessionInit
  /\ TrackerInit
  /\ StoreInit
  /\ pc = "down"
  /\ limit = 0 /\ pos = 0 /\ lineNumber = 0 /\ persistedDeaths = 0
  /\ cancelled = FALSE
  /\ exit = "none"
  /\ once = FALSE
  /\ starts = 0

-------------------------------------------------------------------------------
(* The game and the machine.                                                  *)

(* The stamp of the last line: the wall clock, on the scale of the stamps.    *)
Now == IF log = << >> THEN 0 ELSE log[Len(log)].at

(* The CHALLENGE_MODE_START that governs line i, or 0.                        *)
StartsBefore(i)  == {j \in 1 .. i - 1 : log[j].kind = "start"}
GoverningLine(i) == Max({0} \union StartsBefore(i))
GoverningRun(i)  == IF GoverningLine(i) = 0 THEN NoRun ELSE Instant(log[GoverningLine(i)])

(* Line i falls between a CHALLENGE_MODE_START with a clientRunId and its END. *)
InRun(i) ==
  /\ GoverningRun(i) # NoRun
  /\ \A j \in GoverningLine(i) .. i - 1 : log[j].kind # "end"

WriteLine ==
  /\ Len(log) < MaxLines
  /\ \E l \in Line :
       /\ l.kind \in Kinds
       /\ l.at \in (IF SharedStamps /\ l.kind # "start" THEN {Now, Now + 1} ELSE {Now + 1})
       /\ l.resolved \/ (Unresolved /\ l.kind \in {"start", "died"})
       /\ (l.kind = "died" /\ DeathsOnlyInRun) => InRun(Len(log) + 1)
       /\ log' = Append(log, l)
  /\ UNCHANGED <<sessionVars, trackerVars, storeVars, pc, pollVars, stopVars>>

(* No line for a while: the age of LastActivity grows.                        *)
Elapse ==
  /\ TimePasses
  /\ pc # "down"
  /\ ElapseInSession
  /\ UNCHANGED <<log, trackerVars, storeVars, pc, pollVars, stopVars>>

(* SIGINT or SIGTERM cancels the context and nothing else.                    *)
Interrupt ==
  /\ Interrupts
  /\ pc # "down" /\ ~cancelled
  /\ starts < MaxStarts
  /\ cancelled' = TRUE
  /\ UNCHANGED <<log, sessionVars, trackerVars, storeVars, pc, pollVars, exit, once, starts>>

-------------------------------------------------------------------------------
(* The process stops and its memory is gone.                                  *)
Stop(how) ==
  /\ pc' = "down"
  /\ exit' = how
  /\ cancelled' = FALSE
  /\ once' = FALSE
  /\ current' = Idle /\ superseded' = << >>
  /\ runCtx' = NoContext
  /\ ordinals' = [k \in OrdinalKeys |-> 0]
  /\ deaths' = << >>
  /\ limit' = 0 /\ pos' = 0 /\ lineNumber' = 0 /\ persistedDeaths' = 0
  /\ UNCHANGED <<log, starts, storeVars>>

(* Power loss, SIGKILL.                                                       *)
Kill ==
  /\ pc # "down"
  /\ starts < MaxStarts
  /\ Stop("killed")

(* runCapture up to the loop: restoreActiveRun and loadCommittedOffset.  The  *)
(* last start allowed by the bound is not a --once run.                       *)
Start ==
  /\ pc = "down"
  /\ starts < MaxStarts
  /\ starts' = starts + 1
  /\ once' \in (IF starts + 1 < MaxStarts THEN BOOLEAN ELSE {FALSE})
  /\ pc' = "idle"
  /\ pos' = offset
  /\ \/ /\ MostRecentActive = {}
        /\ UNCHANGED <<sessionVars, trackerVars>>
     \/ \E r \in MostRecentActive :
          /\ RestoreActiveRun(r, runs[r].startedAt)
          /\ RestoreRun(r)
  /\ UNCHANGED <<log, storeVars, limit, lineNumber, persistedDeaths, cancelled, exit>>

-------------------------------------------------------------------------------
(* pollOnce.                                                                  *)

\* Mutant: the file size of the previous poll is used again.
BeginPoll_StaleSize ==
  /\ pc = "idle"
  /\ ~cancelled
  /\ pc' = "scan"
  /\ UNCHANGED <<log, sessionVars, trackerVars, storeVars, pollVars, stopVars>>

(* Poll: open, stat, seek to the acknowledged offset.                         *)
BeginPoll ==
  /\ pc = "idle"
  /\ ~cancelled
  /\ limit' = Len(log)
  /\ pc' = "scan"
  /\ UNCHANGED <<log, sessionVars, trackerVars, storeVars, pos, lineNumber,
                 persistedDeaths, stopVars>>

(* One line through the handler: session first, then the tracker.  A line in  *)
(* the chunk already read is handled even when the context is cancelled.      *)
ReadLine ==
  /\ pc = "scan"
  /\ pos < limit
  /\ SessionObserve(log[pos + 1], TickAfter(Now))
  /\ TrackerObserve(log[pos + 1], lineNumber + 1)
  /\ pos' = pos + 1
  /\ lineNumber' = lineNumber + 1
  /\ UNCHANGED <<log, storeVars, pc, limit, persistedDeaths, stopVars>>

EndOfPoll ==
  /\ pc = "scan"
  /\ pos = limit
  /\ pc' = "commit"
  /\ UNCHANGED <<log, sessionVars, trackerVars, storeVars, pollVars, stopVars>>

(* Poll and limitedReader.Read return ctx.Err().                              *)
AbortPoll ==
  /\ pc \in {"idle", "scan"}
  /\ cancelled
  /\ Stop("failure")

NewDeaths == SubSeq(deaths, persistedDeaths + 1, Len(deaths))

NothingToPersist == pos = offset /\ NewDeaths = << >>

(* A new death whose PersistClientRunID fails.                                *)
UnboundDeath == \E i \in DOMAIN NewDeaths : NewDeaths[i].run = NoRun

(* deathToEventInput.                                                         *)
EventInput(d) ==
  LET hashed == CanComputeIDs(d)
  IN  [line |-> IF hashed THEN 0 ELSE d.line, who |-> d.who, at |-> d.at,
       run |-> d.run, ord |-> d.ord, hashed |-> hashed]

NewEvents == [i \in DOMAIN NewDeaths |-> EventInput(NewDeaths[i])]

(* The runs to upsert, with started_at: the log instant for the run of a new  *)
(* death, the wall clock of its observation for the session's run.            *)
DeathRuns   == {NewDeaths[i].run : i \in DOMAIN NewDeaths}
SessionRuns == IF Open(current) /\ current.run # NoRun THEN {current.run} ELSE {}
NewRuns     == [r \in DeathRuns \union SessionRuns |->
                  IF r \in DeathRuns THEN TickOf(r) ELSE current.startedAt]

(* persistPoll, and AckCommitted after it.  A poll that read nothing does not *)
(* touch the database.                                                        *)
SkipPersist ==
  /\ pc = "commit"
  /\ NothingToPersist
  /\ pc' = "supersede"
  /\ UNCHANGED <<log, sessionVars, trackerVars, storeVars, pollVars, stopVars>>

\* Mutant: AckCommitted is forgotten, the next poll reads the same lines.
PersistPoll_NoAck ==
  /\ pc = "commit"
  /\ ~NothingToPersist
  /\ ~UnboundDeath
  /\ ~cancelled
  /\ Commit(NewRuns, NewEvents, pos)
  /\ pos' = offset
  /\ persistedDeaths' = Len(deaths)
  /\ pc' = "supersede"
  /\ UNCHANGED <<log, sessionVars, trackerVars, limit, lineNumber, stopVars>>

\* Mutant: all deaths are added to the count, not the new ones.
PersistPoll_CountsAll ==
  /\ pc = "commit"
  /\ ~NothingToPersist
  /\ ~UnboundDeath
  /\ ~cancelled
  /\ Commit(NewRuns, NewEvents, pos)
  /\ persistedDeaths' = persistedDeaths + Len(deaths)
  /\ pc' = "supersede"
  /\ UNCHANGED <<log, sessionVars, trackerVars, limit, pos, lineNumber, stopVars>>

PersistPoll ==
  /\ pc = "commit"
  /\ ~NothingToPersist
  /\ ~UnboundDeath
  /\ ~cancelled
  /\ Commit(NewRuns, NewEvents, pos)
  /\ persistedDeaths' = Len(deaths)
  /\ pc' = "supersede"
  /\ UNCHANGED <<log, sessionVars, trackerVars, limit, pos, lineNumber, stopVars>>

\* Mutant: the offset is saved although the events were not.
PersistFails_OffsetSaved ==
  /\ pc = "commit"
  /\ ~NothingToPersist
  /\ UnboundDeath \/ cancelled \/ Rejected(NewEvents)
  /\ pc' = "down" /\ exit' = "failure" /\ cancelled' = FALSE /\ once' = FALSE
  /\ current' = Idle /\ superseded' = << >>
  /\ runCtx' = NoContext
  /\ ordinals' = [k \in OrdinalKeys |-> 0]
  /\ deaths' = << >>
  /\ limit' = 0 /\ pos' = 0 /\ lineNumber' = 0 /\ persistedDeaths' = 0
  /\ offset' = pos
  /\ UNCHANGED <<log, starts, runs, events>>

PersistFails ==
  /\ pc = "commit"
  /\ ~NothingToPersist
  /\ UnboundDeath \/ cancelled \/ Rejected(NewEvents)
  /\ Stop("failure")

(* persistRunClosure: a snapshot without a clientRunId is dropped.            *)
PersistClosure(s, status) ==
  IF s.run = NoRun THEN UNCHANGED storeVars
  ELSE ~cancelled /\ CloseRun(s.run, s.startedAt, status)

CannotPersistClosure(s) == s.run # NoRun /\ cancelled

\* Mutant: the superseded run is taken from the queue and not closed.
CloseSuperseded_Dropped ==
  /\ pc = "supersede"
  /\ TakeAbandoned
  /\ UNCHANGED <<log, trackerVars, storeVars, pc, pollVars, stopVars>>

(* persistSupersededRuns, one run per step.                                   *)
CloseSuperseded ==
  /\ pc = "supersede"
  /\ TakeAbandoned
  /\ PersistClosure(Head(superseded), "abandoned")
  /\ UNCHANGED <<log, trackerVars, pc, pollVars, stopVars>>

SupersededDone ==
  /\ pc = "supersede"
  /\ superseded = << >>
  /\ pc' = "complete"
  /\ UNCHANGED <<log, sessionVars, trackerVars, storeVars, pollVars, stopVars>>

(* TakeCompleted in pollOnce, and once more at the end of the tick.           *)
CloseCompleted ==
  /\ pc \in {"complete", "recheck"}
  /\ \/ /\ TakeCompleted
        /\ PersistClosure(current, "completed")
     \/ /\ current.state # "completed"
        /\ UNCHANGED <<sessionVars, storeVars>>
  /\ pc' = IF pc = "complete" THEN "inactivity" ELSE "idle"
  /\ UNCHANGED <<log, trackerVars, pollVars, stopVars>>

\* Mutant: the run is abandoned in memory only.
CloseInactive_MemoryOnly ==
  /\ pc = "inactivity"
  /\ ~once
  /\ CheckInactivity \/ (~Expired(current) /\ UNCHANGED sessionVars)
  /\ pc' = "recheck"
  /\ UNCHANGED <<log, trackerVars, storeVars, pollVars, stopVars>>

\* Mutant: inactivity completes the run.
CloseInactive_Completes ==
  /\ pc = "inactivity"
  /\ ~once
  /\ \/ CheckInactivity /\ PersistClosure(current, "completed")
     \/ ~Expired(current) /\ UNCHANGED <<sessionVars, storeVars>>
  /\ pc' = "recheck"
  /\ UNCHANGED <<log, trackerVars, pollVars, stopVars>>

(* CheckInactivity in the tick.                                               *)
CloseInactive ==
  /\ pc = "inactivity"
  /\ ~once
  /\ \/ /\ CheckInactivity
        /\ PersistClosure(current, "abandoned")
     \/ /\ ~Expired(current)
        /\ UNCHANGED <<sessionVars, storeVars>>
  /\ pc' = "recheck"
  /\ UNCHANGED <<log, trackerVars, pollVars, stopVars>>

ClosureFails ==
  /\ \/ pc = "supersede" /\ superseded # << >> /\ CannotPersistClosure(Head(superseded))
     \/ pc = "complete" /\ current.state = "completed" /\ CannotPersistClosure(current)
     \/ pc = "inactivity" /\ ~once /\ Expired(current) /\ CannotPersistClosure(current)
  /\ Stop("failure")

(* --once: one poll, then exit without Close.                                 *)
ExitOnce ==
  /\ pc = "inactivity"
  /\ once
  /\ Stop("ok")

(* ctx.Done in the loop: Close, then persistRunClosure with the same, already *)
(* cancelled, context.                                                        *)
Shutdown ==
  /\ pc = "idle"
  /\ cancelled
  /\ ~once
  /\ IF Open(current) /\ CannotPersistClosure(current)
     THEN Stop("failure") ELSE Stop("ok")

-------------------------------------------------------------------------------
Environment == WriteLine \/ Elapse \/ Interrupt \/ Kill

Process ==
  \/ BeginPoll \/ ReadLine \/ EndOfPoll \/ AbortPoll
  \/ SkipPersist \/ PersistPoll \/ PersistFails
  \/ CloseSuperseded \/ SupersededDone \/ CloseCompleted \/ CloseInactive
  \/ ClosureFails \/ ExitOnce \/ Shutdown

Next == Environment \/ Start \/ Process

Spec == Init /\ [][Next]_vars

(* The ticker keeps firing while the process is up, and whoever runs the      *)
(* companion starts it again after it stopped.                                *)
FairSpec == Spec /\ WF_vars(Process) /\ WF_vars(Start)

(* ... and time passes, so that the inactivity timeout can expire.            *)
TimedSpec == FairSpec /\ WF_vars(Elapse)

-------------------------------------------------------------------------------
(* Properties.                                                                *)

DeathLines(n) == {i \in 1 .. n : log[i].kind = "died"}

(* Every tracked death the committed offset covers is in the store, once.     *)
ExactlyOnce ==
  \A p \in Players, t \in Stamps \union {NoInstant} :
    Cardinality({e \in events : e.who = p /\ e.at = t})
      = Cardinality({i \in DeathLines(offset) : log[i].who = p /\ Instant(log[i]) = t})

(* No death is stored twice.                                                  *)
NeverTwice ==
  \A p \in Players, t \in Stamps \union {NoInstant} :
    Cardinality({e \in events : e.who = p /\ e.at = t})
      <= Cardinality({i \in DeathLines(offset) : log[i].who = p /\ Instant(log[i]) = t})

(* A death is stored under the run it happened in: only a death between a     *)
(* START and its END carries a hashed id, and the id is that START's.  (Of    *)
(* the first process only: one that is started again may restore a run whose  *)
(* END its predecessor read and could not store.)                             *)
AttributedToItsRun ==
  starts <= 1 =>
    \A e \in events :
      e.hashed =>
        \E i \in DeathLines(offset) :
          /\ log[i].who = e.who /\ Instant(log[i]) = e.at
          /\ GoverningRun(i) = e.run /\ InRun(i)

(* A completed row has its END in the log.  (Of the first process only, see   *)
(* above.)                                                                    *)
CompletedHasEnd ==
  starts <= 1 =>
    \A r \in RunIds :
      runs[r].status = "completed" =>
        \E j \in 1 .. offset : log[j].kind = "end" /\ GoverningRun(j) = r

(* Between polls no row is active but that of the run in progress.            *)
OrphanFree == pc = "idle" => ActiveRuns \subseteq SessionRuns

(* How the offsets of log, poll and store are ordered through a poll.         *)
OffsetsInOrder ==
  /\ offset <= Len(log)
  /\ limit <= Len(log)
  /\ pos <= Len(log)
  /\ lineNumber <= pos
  /\ pc \in {"scan", "commit"} => offset <= pos
  /\ pc = "scan" => pos <= limit
  /\ pc \notin {"down", "scan", "commit"} => pos = offset

(* A stopped process remembers nothing.                                       *)
DownIsBlank ==
  pc = "down" =>
    /\ current = Idle /\ superseded = << >>
    /\ runCtx = NoContext /\ deaths = << >>
    /\ pos = 0 /\ lineNumber = 0 /\ persistedDeaths = 0

(* Stamps never run backwards, and a START never shares the stamp of an       *)
(* earlier line.                                                              *)
LogInOrder ==
  \A i, j \in DOMAIN log :
    i < j => /\ log[i].at <= log[j].at
             /\ log[j].kind = "start" => log[i].at < log[j].at

(* The START of run r is among the first n lines.                             *)
StartRead(r, n) == \E i \in 1 .. n : log[i].kind = "start" /\ Instant(log[i]) = r

(* A stored run started before the committed offset, a run the process knows  *)
(* of before its read position.                                               *)
RunsFromLog ==
  /\ \A r \in RunIds : runs[r].status # "absent" => StartRead(r, offset)
  /\ current.run # NoRun => StartRead(current.run, pos)
  /\ runCtx.run # NoRun => StartRead(runCtx.run, pos)
  /\ \A k \in DOMAIN superseded :
       superseded[k].run # NoRun => StartRead(superseded[k].run, pos)
  /\ \A k \in DOMAIN deaths : deaths[k].run # NoRun => StartRead(deaths[k].run, pos)

(* A snapshot the session may still hand out to be closed.                    *)
MayClose(s) == s.run # NoRun /\ s.state \in {"candidate", "active", "completed"}

(* The runs the process may still close are different runs ...                *)
RunsToCloseDiffer ==
  /\ \A k, m \in DOMAIN superseded :
       k # m /\ superseded[k].run # NoRun => superseded[k].run # superseded[m].run
  /\ MayClose(current) =>
       \A k \in DOMAIN superseded : superseded[k].run # current.run

(* ... and none of them is closed in the store.                               *)
RunsToCloseAreOpen ==
  /\ MayClose(current) => runs[current.run].status \notin Terminal
  /\ \A k \in DOMAIN superseded :
       superseded[k].run # NoRun => runs[superseded[k].run].status \notin Terminal

(* The store, the session and the tracker agree on which runs exist and which *)
(* of them are still to be closed.                                            *)
RunBookkeeping ==
  /\ OffsetsInOrder /\ DownIsBlank /\ LogInOrder
  /\ RunsFromLog /\ RunsToCloseDiffer /\ RunsToCloseAreOpen

(* A death that can only be held does not stop capture: where no signal comes  *)
(* and the database works, the process never exits with a failure.            *)
HeldDeathDoesNotStopCapture == exit # "failure"

(* Deaths with hashed ids have different ids, among all this process has seen: *)
(* the ordinal tells deaths of one instant apart.                             *)
IDsDistinct ==
  \A i, j \in DOMAIN deaths :
    (i # j /\ CanComputeIDs(deaths[i]) /\ CanComputeIDs(deaths[j]))
      => ~SameID(EventInput(deaths[i]), EventInput(deaths[j]))

(* A run that ended stays as it ended.                                        *)
StatusFinal ==
  [][\A r \in RunIds : runs[r].status \in Terminal
                          => runs'[r].status = runs[r].status]_vars

(* A process that leaves the loop on a signal leaves no run of its own active. *)
InterruptAbandonsRun ==
  [][pc = "idle" /\ cancelled /\ ~once /\ pc' = "down" /\ exit' # "killed"
       => \A r \in SessionRuns : runs'[r].status # "active"]_vars

(* A run stored as active ends some day, be it by the inactivity timeout.     *)
RunsEnd ==
  \A r \in RunIds : runs[r].status = "active" ~> runs[r].status \in Terminal

(* The death lines that have a row.                                           *)
RecordedLines ==
  {i \in DeathLines(Len(log)) :
     \E e \in events : e.who = log[i].who /\ e.at = Instant(log[i])}

Ledger == INSTANCE DeathLedger WITH
            covered  <- offset,
            recorded <- RecordedLines,
            status   <- [r \in RunIds |-> runs[r].status]

LedgerSpec == Ledger!LedgerSpec
=============================================================================
