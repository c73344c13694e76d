---------------------------- MODULE SessionManager ----------------------------
(* internal/session: the Mythic+ run state machine.  Manager.current is the   *)
(* record "current" (state "idle" is the nil pointer), Manager.superseded the *)
(* queue of runs a later start replaced.  LastActivity is kept as its age,    *)
(* capped at the timeout; "completing" never survives observeEnd.             *)
EXTENDS CombatLog

CONSTANT InactivityTimeout    \* in units of Elapse

ASSUME TimeoutAssumption == InactivityTimeout \in Nat \ {0}

VARIABLES
  current,      \* the run in progress, or the last one if not yet taken
  superseded    \* runs abandoned by a newer start, to be taken in order

sessionVars == <<current, superseded>>

Snapshot == [state     : {"idle", "candidate", "active", "completed", "abandoned"},
             run       : RunIds \union {NoRun},
             startedAt : Ticks,
             idleFor   : 0 .. InactivityTimeout]

Idle == [state |-> "idle", run |-> NoRun, startedAt |-> 0, idleFor |-> 0]

(* The states Close, CheckInactivity and Current treat as a run in progress.  *)
Open(s) == s.state \in {"candidate", "active"}

Expired(s) == Open(s) /\ s.idleFor >= InactivityTimeout

Abandoned(s) == [s EXCEPT !.state = "abandoned"]

SessionTypeOK ==
  /\ current \in Snapshot
  /\ superseded \in Seq(Snapshot)

SessionInit ==
  /\ current = Idle
  /\ superseded = << >>

-------------------------------------------------------------------------------
(* RestoreActiveRun: after a restart, from the row GetActiveRun returned.     *)
RestoreActiveRun(run, startedAt) ==
  /\ current' = [state |-> "active", run |-> run, startedAt |-> startedAt, idleFor |-> 0]
  /\ UNCHANGED superseded

(* observeStart: a run in progress is abandoned and queued; any other current *)
(* run is overwritten.  A start without a clientRunId is only a candidate.    *)
ObserveStart(run, wallClock) ==
  /\ superseded' = IF Open(current) THEN Append(superseded, Abandoned(current))
                                    ELSE superseded
  /\ current' = [state     |-> IF run = NoRun THEN "candidate" ELSE "active",
                 run       |-> run,
                 startedAt |-> wallClock,
                 idleFor   |-> 0]

(* observeEnd with success, whatever map or level the END line names.         *)
ObserveEnd ==
  /\ current' = IF Open(current)
                THEN [current EXCEPT !.state = "completed", !.idleFor = 0]
                ELSE current
  /\ UNCHANGED superseded

(* Any line that only shows that play goes on, a failed END among them.       *)
ObserveActivity ==
  /\ current' = IF Open(current) THEN [current EXCEPT !.idleFor = 0] ELSE current
  /\ UNCHANGED superseded

(* Manager.Observe: the dispatch of one parsed line.                                  *)
SessionObserve(l, wallClock) ==
  \/ l.kind = "start" /\ ObserveStart(Instant(l), wallClock)
  \/ l.kind = "end" /\ ObserveEnd
  \/ l.kind \in {"failedEnd", "died", "activity"} /\ ObserveActivity
  \/ l.kind = "quiet" /\ UNCHANGED sessionVars

(* CheckInactivity returns the abandoned run but keeps it as current.  (Close  *)
(* does the same on exit, when nothing will look at current again.)           *)
CheckInactivity ==
  /\ Expired(current)
  /\ current' = Abandoned(current)
  /\ UNCHANGED superseded

\* Mutant: the completed run is handed out and kept.
TakeCompleted_NotCleared ==
  /\ current.state = "completed"
  /\ UNCHANGED sessionVars

TakeCompleted ==
  /\ current.state = "completed"
  /\ current' = Idle
  /\ UNCHANGED superseded

TakeAbandoned ==
  /\ superseded # << >>
  /\ superseded' = Tail(superseded)
  /\ UNCHANGED current

(* The wall clock moves on without a line.                                    *)
ElapseInSession ==
  /\ Open(current)
  /\ current.idleFor < InactivityTimeout
  /\ current' = [current EXCEPT !.idleFor = @ + 1]
  /\ UNCHANGED superseded
=============================================================================
