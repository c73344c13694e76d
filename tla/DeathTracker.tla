----------------------------- MODULE DeathTracker -----------------------------
(* internal/detection, the part that decides which deaths can be hashed: the  *)
(* run context, the per-instant ordinals and the accumulated candidates.      *)
(* Cause ranking and the encounter are evidence attached to a candidate; no   *)
(* decision here depends on them.                                             *)
EXTENDS CombatLog

VARIABLES
  runCtx,     \* runTracker: active flag and start instant
  ordinals,   \* how many hashable deaths were seen per victim, instant and run
  deaths      \* Tracker.deaths, never shortened while the process lives

trackerVars == <<runCtx, ordinals, deaths>>

NoContext   == [active |-> FALSE, run |-> NoRun]
OrdinalKeys == Players \X Stamps \X RunIds

Candidate == [line : Nat \ {0},                     \* ParserState line number
              who  : Players,
              at   : Stamps \union {NoInstant},
              run  : RunIds \union {NoRun},
              hold : BOOLEAN,                       \* run_context_incomplete
              ord  : Nat]

TrackerTypeOK ==
  /\ runCtx \in [active : BOOLEAN, run : RunIds \union {NoRun}]
  /\ ordinals \in [OrdinalKeys -> Nat]
  /\ deaths \in Seq(Candidate)

TrackerInit ==
  /\ runCtx = NoContext
  /\ ordinals = [k \in OrdinalKeys |-> 0]
  /\ deaths = << >>

(* CanComputeIDs: both digests of the candidate can be derived.               *)
CanComputeIDs(d) == ~d.hold /\ d.at # NoInstant

-------------------------------------------------------------------------------
(* RestoreRun: after a restart, from the row GetActiveRun returned.           *)
RestoreRun(run) ==
  /\ runCtx' = [active |-> TRUE, run |-> run]
  /\ UNCHANGED <<ordinals, deaths>>

ObserveRunStart(run) ==
  /\ runCtx' = [active |-> TRUE, run |-> run]
  /\ UNCHANGED <<ordinals, deaths>>

\* Mutant: the END does not end the run for later deaths.
ObserveRunEnd_StaysActive == UNCHANGED trackerVars

(* A successful END keeps the start instant: a later death binds to it, held. *)
ObserveRunEnd ==
  /\ runCtx' = [runCtx EXCEPT !.active = FALSE]
  /\ UNCHANGED <<ordinals, deaths>>

\* Mutant: the ordinal is never counted up.
ObserveDeath_SameOrdinal(l, line) ==
  LET hold == ~runCtx.active \/ runCtx.run = NoRun
  IN  /\ deaths' = Append(deaths,
                     [line |-> line, who |-> l.who, at |-> Instant(l),
                      run |-> runCtx.run, hold |-> hold, ord |-> 0])
      /\ UNCHANGED <<runCtx, ordinals>>

(* observeDeath: held without a run in progress, numbered when it can be      *)
(* hashed.                                                                    *)
ObserveDeath(l, line) ==
  LET hold     == ~runCtx.active \/ runCtx.run = NoRun
      key      == <<l.who, Instant(l), runCtx.run>>
      numbered == ~hold /\ Instant(l) # NoInstant
  IN  /\ deaths' = Append(deaths,
                     [line |-> line, who |-> l.who, at |-> Instant(l),
                      run |-> runCtx.run, hold |-> hold,
                      ord |-> IF numbered THEN ordinals[key] ELSE 0])
      /\ ordinals' = IF numbered THEN [ordinals EXCEPT ![key] = @ + 1] ELSE ordinals
      /\ UNCHANGED runCtx

(* Tracker.Observe: the dispatch of one parsed line.                          *)
TrackerObserve(l, line) ==
  \/ l.kind = "start" /\ ObserveRunStart(Instant(l))
  \/ l.kind = "end" /\ ObserveRunEnd
  \/ l.kind = "died" /\ ObserveDeath(l, line)
  \/ l.kind \in {"failedEnd", "activity", "quiet"} /\ UNCHANGED trackerVars
=============================================================================
