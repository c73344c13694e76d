-------------------------------- MODULE Store --------------------------------
(* internal/storage: the SQLite tables that outlive the process.  Each action *)
(* is one transaction; a rejected one is rolled back and leaves no trace.     *)
EXTENDS CombatLog

VARIABLES
  runs,     \* table runs, keyed by client_run_id
  events,   \* table events
  offset    \* table files: lines covered by the committed byte_offset

storeVars == <<runs, events, offset>>

Terminal == {"completed", "abandoned"}

RunRow == [status    : {"absent", "active"} \union Terminal,
           startedAt : Ticks]

(* client_event_id is the digest of run, victim, instant and ordinal when     *)
(* "hashed", and local:held:<line>:<victim> otherwise; a hashed row has no    *)
(* use for the line number and carries 0.                                     *)
EventRow == [line   : Nat,
             who    : Players,
             at     : Stamps \union {NoInstant},
             run    : RunIds,
             ord    : Nat,
             hashed : BOOLEAN]

StoreTypeOK ==
  /\ runs \in [RunIds -> RunRow]
  /\ events \subseteq EventRow
  /\ offset \in 0 .. MaxLines

StoreInit ==
  /\ runs = [r \in RunIds |-> [status |-> "absent", startedAt |-> 0]]
  /\ events = {}
  /\ offset = 0

-------------------------------------------------------------------------------
(* UNIQUE(client_event_id), the only conflict insertEventTx tolerates.        *)
SameID(e, f) ==
  /\ e.hashed = f.hashed
  /\ e.who = f.who
  /\ IF e.hashed THEN e.run = f.run /\ e.at = f.at /\ e.ord = f.ord
                 ELSE e.line = f.line

(* UNIQUE(run_id, character_guid, death_instant, ordinal).                    *)
SameSlot(e, f) ==
  e.run = f.run /\ e.who = f.who /\ e.at = f.at /\ e.ord = f.ord

(* Inserted in order, the i-th of the rows es is dropped by DO NOTHING ...    *)
Skipped(es, i) ==
  \/ \E e \in events : SameID(e, es[i])
  \/ \E j \in 1 .. i - 1 : SameID(es[j], es[i])

(* ... or fails the whole transaction on the other unique constraint.         *)
Rejected(es) ==
  \E i \in DOMAIN es :
    /\ ~Skipped(es, i)
    /\ \/ \E e \in events : SameSlot(e, es[i])
       \/ \E j \in 1 .. i - 1 : ~Skipped(es, j) /\ SameSlot(es[j], es[i])

\* Mutant: ON CONFLICT(client_run_id) DO UPDATE SET status.
Commit_Reopens(started, es, lines) ==
  /\ ~Rejected(es)
  /\ runs' = [r \in RunIds |->
                IF r \in DOMAIN started
                THEN [status |-> "active", startedAt |-> started[r]]
                ELSE runs[r]]
  /\ events' = events \union {es[i] : i \in {j \in DOMAIN es : ~Skipped(es, j)}}
  /\ offset' = lines

(* Commit: started[r] is the started_at of each run to upsert, es the events  *)
(* in order, lines the new file offset; all of it or nothing.                 *)
Commit(started, es, lines) ==
  /\ ~Rejected(es)
  /\ runs' = [r \in RunIds |->
                IF r \in DOMAIN started /\ runs[r].status = "absent"
                THEN [status |-> "active", startedAt |-> started[r]]
                ELSE runs[r]]
  /\ events' = events \union {es[i] : i \in {j \in DOMAIN es : ~Skipped(es, j)}}
  /\ offset' = lines

(* CloseRun: insert if missing, then an unconditional UPDATE of the status.   *)
CloseRun(run, startedAt, status) ==
  /\ runs' = [runs EXCEPT ![run] =
                [status    |-> status,
                 startedAt |-> IF @.status = "absent" THEN startedAt ELSE @.startedAt]]
  /\ UNCHANGED <<events, offset>>

ActiveRuns == {r \in RunIds : runs[r].status = "active"}

(* GetActiveRun: ORDER BY started_at DESC LIMIT 1.  The text of an instant     *)
(* drops the zeros at the end of its fraction, and so does not keep the order  *)
(* within one second; neighbouring ticks may be that close.                    *)
MaySortBefore(q, r) == runs[q].startedAt <= runs[r].startedAt + 1

MostRecentActive == {r \in ActiveRuns : \A q \in ActiveRuns : MaySortBefore(q, r)}
=============================================================================
