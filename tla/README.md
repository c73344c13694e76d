# A TLA+ model of yeetcraft-companion

The companion tails the World of Warcraft combat log, decides which deaths of
tracked players belong to which Mythic+ run, and stores runs and deaths in
SQLite so that each can later be reviewed and uploaded once. Its hard part is
not any one of these steps but their order: the game appends while the program
polls, a signal or a crash may stop the program between any two steps, and what
was read, what is stored and what is remembered must still agree afterwards.

The modules below model the capture process end to end, the byte level of
following the log file, the way from the stamp of a line to an instant, and what
is recorded of a death besides its run. TLC checks them on small instances; TLAPS proves
every safety property of the passing runs for every value of the constants, the two
refinements among them. Paths are relative to
`src/`; `capture.go` is `cmd/yeetcraft-companion/capture.go`.

## 1. The system

| component | state it keeps | operations | correct when |
|---|---|---|---|
| **capture loop** `capture.go` | `persistedDeaths`, the context, the parts below | `runCapture` (restore, poll on a ticker, close on signal), `pollOnce`, `persistPoll`, `persistSupersededRuns`, `persistRunClosure` | what the offset covers is on record, exactly once, whatever stops the process |
| **session manager** `internal/session` | `current` run, queue `superseded` | `Observe`, `CheckInactivity`, `Close`, `TakeCompleted`, `TakeAbandoned`, `RestoreActiveRun` | every run it hands out is handed out once, and every run it began is handed out |
| **death detection** `internal/detection` | run context, ordinals, the list of deaths, encounter, damage buffers | `Observe`, `RestoreRun`, `Deaths` | a death is bound to the run it happened in, or held; ids are distinct; causes and encounter are those the log names |
| **storage** `internal/storage` | tables `runs`, `events`, `files`, ... | `Commit` (one transaction), `CloseRun`, `GetActiveRun`, `GetFileState`, migrations | ended runs stay ended; offset and events move together |
| **log watcher** `internal/logwatcher` | committed offset with partial line, file identity | `Poll`, `AckCommitted`, `ResolveIdentity` | lines of the file reach the handler in order, each once, none spliced |
| **line scanner** `internal/parser/{line_reader,scan}.go` | buffer, pending CR, failure | `Write`, `Finalize`, `ScanReaderFrom` | cutting a text anywhere gives the lines of the whole text |
| **line parser** rest of `internal/parser` | format version, parser state | `ParseLine`, `ResolveCanonicalInstant`, ... | nothing is interpreted before a supported header or behind an unsupported one; an instant is the true one or none |
| configuration, `logprobe`, empty `uploader` and `review` | none that lives | | not modelled |

How they interact: everything runs in one goroutine. A tick calls `pollOnce`;
`Poll` reads the file up to the size it saw and calls a handler per line, which
feeds the session manager, then the tracker; `persistPoll` then commits runs,
new deaths and the file offset in one transaction; `AckCommitted` moves the
in-memory offset; then runs the session gave up or finished are closed, each in
a transaction of its own. The concurrency is with the outside: the game appends,
cuts or replaces the file, signals cancel the context, a crash loses all memory,
and the next start rebuilds it from three places of the database (the active
run, the file row and nothing else).

What is hard about it, and has no test that reaches it:

- **crashes between transactions**: a commit and the closures that belong to it
  are separate, and a restart reads the log behind the offset only;
- **memory that a restart forgets**: ordinals, line numbers, the queue of
  superseded runs, an END that was read;
- **several run boundaries in one poll**: START, END, START read before any of
  them is stored;
- **a cancelled context used for the cleanup** that the cancellation asks for;
- **poison input**: a poll that fails on its content is read again for ever;
- **polls that cut the text anywhere**: in a line, between CR and LF, in a tail
  that was itself a tail;
- **file identity**: truncation, replacement, reuse, at a moment nobody polled;
- **memory that outlives its file**: damage hits, encounter and run context stay
  when a new file starts the line numbers over, the format state does not;
- **a change of offset of the clock**: the game writes wall-clock time, which
  then occurs twice or never.

`PROJECT.json` lists these one by one under `hazards`, at the line where each
bites, with the properties that cover it.

## 2. The modules

| module | models | extends |
|---|---|---|
| `CombatLog` | the parsed lines, reduced to what the observers branch on | |
| `SessionManager` | `session.Manager` | `CombatLog` |
| `DeathTracker` | `detection.Tracker`: run context, ordinals, candidates | `CombatLog` |
| `Store` | the tables and transactions of `internal/storage` | `CombatLog` |
| `Capture` | `runCapture` and its environment, composing the three above | all of them |
| `DeathLedger` | *abstract*: covered prefix, deaths on record, run status | `CombatLog` |
| `CaptureProofs` | theorems about `Capture`: types, the runs, their status | `Capture`, `TLAPS` |
| `CaptureDeathProofs` | ... deaths and their ids, the ends of runs, the run of a death, orphans | `CaptureProofs` |
| `CaptureLedgerProofs` | ... the benign environment and the ledger | `CaptureDeathProofs` |
| `LogScan` | `LineReader`, `ScanReaderFrom`, as operators on sequences | |
| `LogScanProofs` | theorems about texts of every length, and induction | `LogScan`, `TLAPS` |
| `LogWatcher` | `Watcher`, the file at a path, the `files` row | `LogScan` |
| `LogWatcherProofs` | theorems about `LogWatcher` | `LogWatcher`, `LogScanProofs` |
| `LineFeed` | *abstract*: lines written, lines recorded | |
| `LogClock` | `ResolveCanonicalInstant` and the zone the game writes in | |
| `LogClockProofs` | theorems about `LogClock` | `LogClock`, `TLAPS` |
| `LogFormat` | `FormatState`, `applyVersion`, the stored parser state | |
| `DamageBuffer` | `damageBuffer`, `rankCauses`, as operators on sequences | |
| `DeathEvidence` | the format of the files, the hits and the encounter of a death, through polls, restarts and new files | the two above |
| `DeathEvidenceProofs` | theorems about `DeathEvidence`: which deaths get a row, their encounter | `DeathEvidence`, `TLAPS` |
| `DeathCausesProofs` | ... the damage buffers and the causes of a death | `DeathEvidenceProofs` |
| `MCCapture`, `MCLogWatcher`, `MCLogClock`, `MCDeathEvidence` | names for the finite constants | |

`Capture` works on whole lines and one growing file, `LogWatcher` on bytes and
many files but lines without meaning. They meet in one promise: `LogWatcher`
implements `LineFeed` (lines in order, each once), and that is how `Capture`
reads its `log`. `Capture` takes the instant of a resolved line as the one the game
wrote it at; that is what `LogClock` is about. `DeathEvidence` stands beside `Capture`:
it has the same polls and restarts, many files, and the parts of a death candidate
that `Capture` leaves out, but neither runs nor ids.

### Capture

The variable `pc` is where the process stands in `runCapture`:

| `pc` | code | actions |
|---|---|---|
| `down` | no process | `Start`: `restoreActiveRun`, `loadCommittedOffset` |
| `idle` | `select` | `BeginPoll` (tick), `AbortPoll`, `Shutdown` (`ctx.Done`) |
| `scan` | `Watcher.Poll` and the handler | `ReadLine`, `EndOfPoll`, `AbortPoll` |
| `commit` | `persistPoll`, `AckCommitted` | `SkipPersist`, `PersistPoll`, `PersistFails` |
| `supersede` | `persistSupersededRuns` | `CloseSuperseded`, `SupersededDone` |
| `complete` | `TakeCompleted` in `pollOnce` | `CloseCompleted` |
| `inactivity` | `CheckInactivity`, or the return of `--once` | `CloseInactive`, `ExitOnce` |
| `recheck` | `TakeCompleted` in the loop | `CloseCompleted` |

`ClosureFails` is the error path of the three closures. The environment writes
lines, lets time pass, interrupts, and kills at every `pc`. Each transaction is
one action; a rejected one changes nothing; a call with a cancelled context
fails. When both the ticker and `ctx.Done` are ready, Go chooses freely, and so
does the model (`AbortPoll` or `Shutdown` from `idle`).

`log` and the store survive a stop. `Stop` clears the rest. `offset` counts the
lines covered by the stored `byte_offset`; `pos` is the in-memory offset.

Abstractions, and why they are sound for the properties:

- A `clientRunId` is a digest of start instant, map and level. The game opens one
  keystone at an instant, so the start instant stands for it; `NoRun` is `""`.
- A `clientEventId` is a digest of run, player, instant and ordinal; when it
  cannot be derived it is `local:held:<line>:<guid>`. `SameID` compares exactly
  those fields, and `SameSlot` is the other unique constraint of the table.
- `resolved` stands for the outcome of `ResolveCanonicalInstant`; a START whose
  map or level the contract refuses is unresolved too.
- The wall clock is the stamp of the last line, doubled, plus one for "before the
  next line" (`started_at` of a run is the observation, not the log instant).
- `started_at` is stored as text, whose order is not that of the instants within one
  second. `MostRecentActive` leaves the order of neighbouring ticks open, so a restart may
  restore either of two active runs that began that close (`runs.go:48`).
- `LastActivity` is kept as its age, capped at the timeout.
- Line kinds merge what no observer tells apart (see `LineKinds`).

### LogWatcher and LogScan

A byte is a record of its character and the file it was written to, so that a
line spliced of two files shows. `written` keeps every file that was ever at the
path; cutting a file back starts a new entry with the same inode. A poll is one
step: open, stat, detect truncation and replacement, scan, propose an offset.
`Persist` stores row and lines together and acknowledges. Between the two a
crash may come. `Head` is the fingerprint over `HeadSize` bytes, and `lastInode`
what `os.SameFile` compares.

`LogScan` gives `Write` as `WriteByte` after `WriteByte`; `LinesOf` next to it says what
the lines of a text are without any reader, and is what the scanner is compared
with.

### LogClock

Time is counted in steps of the search of `hasDuplicateWallTime`; `Hour` is their
number in an hour. A zone has one change of offset, at `switch`. `Readings` are the
instants of a wall time, `Date` is `time.Date`: a reading where there is one, either
of the two near misses where there is none, as its documentation says. The game
stamps a line with the wall clock of the zone, with its offset or without; other
lines carry any stamp at all. A stamp is "broken" when a suffix, a date or a field
does not parse. `Resolutions` keeps the order of the early returns: of a broken
stamp with no zone configured, either hold may be the first one found.

### DamageBuffer, LogFormat, DeathEvidence

A file is a number with its lines, found again by that number (how, is the business
of `LogWatcher`). A line is a header, a hit on a player, a death, or the start or end
of an encounter; a hit carries what `causeKey` tells apart and whether it overkilled,
did damage or did none, which is what `causeConfidence` looks at. `ReadLine` is
`ParseLine` and `Tracker.Observe` for one line: a header moves `format`, any other line
is interpreted only behind a supported header. `Persist` stores the offset of a file
with its encoded format and the new deaths. `Start` decodes the format again, and
starts with empty buffers, no encounter and line number 0. `BeginPoll` on another file
resets offset, line number and format, and nothing of the tracker. The history variable `heard` lists
the lines this process has read; the properties are stated over it and the files,
without looking at a buffer.

## 3. What is checked

All bounds are constants named `Max...`. Constants that describe the environment
(`SharedStamps`, `DeathsOnlyInRun`, ...) are documented where they are declared:
a run that sets one to the benign value says "under this assumption the property
holds", and the divergences of section 5 say why it is needed. `CHECK_DEADLOCK`
is off but in `clock`: the process may stop for good when the bound on starts is
reached, and the game may stop writing.

### Properties that hold

**`capture_general`**: three lines of every kind, unresolved and shared stamps,
signals, idle time, two starts (the first may be `--once`).
- `TypeOK`
- `RunBookkeeping`: offsets are ordered through a poll, every stored or
  remembered run has its START before the offset that covers it, the runs the
  process may still close are different and open in the store.
- `NeverTwice`: no death is stored twice.
- `IDsDistinct`: deaths with a hashed id have different ids.
- `StatusFinal`: an ended run keeps its status. `CloseRun` itself would overwrite
  it; only the discipline of its callers prevents that.
- `AttributedToItsRun`: a hashed death lies between the START of its run and that
  run's END. Stated of the first process only, see section 5.
- `CompletedHasEnd`: a run is only stored as completed when the log has its END.
  Of the first process only, too.

**`capture_exactly_once`** (fair): four lines, two starts, signals and crashes, deaths
inside runs, resolved and distinct stamps, no idle time.
- `ExactlyOnce`: the deaths covered by the offset are in the table, each once. (It
  holds with `TimePasses = TRUE` as well; the next one does not, see section 5.)
- `LedgerSpec`: `Capture` implements `DeathLedger`. Deaths and offset move in one step,
  crashes are stutters, and what was written is covered in the end.

**`capture_runs_end`** (fair, time passes; no END, no crash):
- `OrphanFree`: between polls only the run in progress is active in the store.
- `RunsEnd`: every active run ends, by supersession or by inactivity.

**`follow_growing`** (fair): one file of up to five characters of `a`, CR, LF; a
content limit of three, so that a line at it occurs, and one over it, alone or behind a
complete line; polls and one crash anywhere.
- `TypeOK`, `OffsetsAtLineEnds` (stored and acknowledged offsets are behind a
  complete line, and the stored tail is what follows in the file),
  `OffsetCoversRecorded` (the stored offset covers exactly the recorded lines)
- `FeedSafety`: `LogWatcher` implements `LineFeed`.
- `LinesGetRecorded`: a complete line is recorded in the end, although a tail alone is
  never stored, unless a line that is too long has ended the process. The exception is
  needed: of an empty line and four characters read by one poll, the empty line is lost
  as well (section 5).

**`follow_files`**: two files at the path, removed and created, or cut back with
care, also while the process is down.
- `RecordedInOrder`: what was recorded of each file is a prefix of its lines; no
  line mixes files, repeats or begins in the middle.

**`clock`**: ten steps of time, an hour of two, five zones (forward and back by an
hour, forward and back by half of one, no change), every stamp of the game at every
time, every edited one.
- `TypeOK`
- `ResolvedIsTrue`: a line of the game is resolved to the instant it was written at,
  or not at all.
- `ResolvedIsOnlyReading`: a stamp without an offset is resolved only if its wall time
  occurs exactly once.
- `HeldOnlyWhenAmbiguous`: the converse. The window of an hour either way is neither
  too short nor too long.

**`evidence_causes`**: a header and six more lines, hits of two causes and three strengths,
on the victim and on another player; buffers of two, a lookback of three lines;
two files, two starts.
- `TypeOK`, with the limit of the buffers.
- `CausesFromLog`: the causes of a death are its last hits, one for each cause, newest
  first, of those the limit and the lookback leave; the first one's confidence is that
  of its last hit. For a process that heard one file.

**`evidence_files`**: five lines of headers, deaths and encounters in two files, two starts.
- `FailsClosed`: of what the offset of a file covers, exactly the tracked deaths that
  have a supported header before them and no unsupported one are on record.
- `EncounterFromLog`: a death is given the encounter the lines heard leave in progress.

The bounds are small but not idle: three lines hold a START, a death and the
START after it or two deaths of one instant; four lines a run with its END and a
death behind it; two starts a crash anywhere and the recovery from it; five
bytes a CRLF with content before and a tail behind, cut at every place, and a line that
is refused behind one that is not; two files
every kind of change once; ten steps both sides of a change of offset with an hour
around it; six lines a buffer overrun, a hit out of reach and a death between them. For every property `PROJECT.json` names a mutant of the
code (a dropped reset, an off-by-one, an update that overwrites) under which the
run finds the property violated within the same bounds.

### Fairness

- `WF(Process)`: the ticker fires for as long as the process is up and every call
  returns. The process is sequential, so one weak fairness for all its steps is
  what the code gives; no step is preferred.
- `WF(Start)`: whoever runs the companion starts it again. The bound on starts
  ends that, and `Kill` and `Interrupt` need a start in reserve.
- `WF(Elapse)` (only `TimedSpec`): time passes while nothing is written.
- `PollFairness` is `WF(Poll \/ PollFails)`: a tick comes, and what it finds decides how
  the poll ends. The enabling condition is spelled out in `CanPoll`, which TLC evaluates
  faster than `ENABLED`.
- The game is never fair: it may stop writing at any moment.

## 4. What is proved

Every theorem holds for all values of the constants under the assumptions of the
modules (`PlayersAssumption`, `EnvironmentAssumption`, `ScanAssumption`, ...), which TLC
evaluates in every run. Where a theorem needs a benign environment, its statement says
so: `Benign => (Spec => ...)`. The strengthened invariants were run through TLC on the
instances of section 3 before they were proved.

| module | theorem | states |
|---|---|---|
| `CaptureProofs` | `TypeCorrect` | `Spec => []TypeOK` |
| | `BookkeepingCorrect` | `Spec => []RunBookkeeping` |
| | `EndedRunsStayEnded` | `Spec => StatusFinal` |
| `CaptureDeathProofs` | `HashedIDsDistinct` | `Spec => []IDsDistinct` |
| | `DeathsStoredOnce` | `Spec => []NeverTwice` |
| | `CompletedRunsEnded` | `Spec => []CompletedHasEnd` |
| | `DeathsAttributed` | `Spec => []AttributedToItsRun` |
| | `NoOrphanRows` | `NoEnds => (Spec => []OrphanFree)` |
| `CaptureLedgerProofs` | `DeathsStoredExactlyOnce` | `Benign => (Spec => []ExactlyOnce)` |
| | `CaptureImplementsLedger` | `Benign => (Spec => Ledger!LedgerSafety)` |
| `DeathEvidenceProofs` | `RecordsFailClosed` | `Spec => []FailsClosed` |
| | `EncounterOfDeath` | `Spec => []EncounterFromLog` |
| `DeathCausesProofs` | `TypeCorrect` | `Spec => []TypeOK` |
| | `CausesOfDeath` | `Spec => []CausesFromLog` |
| `LogScanProofs` | `ScanReadsLines` | a scan returns the lines of the text, for every text |
| | `ScanRefusesLongOnly` | a scan only fails on a stretch without line end over the limit |
| `LogWatcherProofs` | `TypeCorrect` | `Spec => []TypeOK` |
| | `OffsetsBehindLines` | `Growing => (Spec => []OffsetsAtLineEnds)` |
| | `RecordedAreBeforeOffset` | `Growing => (Spec => []OffsetCoversRecorded)` |
| | `WatcherImplementsFeed` | `Growing => (Spec => FeedSafety)` |
| | `RefusedForLength` | `Growing => (Spec => [](exit = "tooLong" => LongStretch(Text)))` |
| | `FilesRecordedInOrder` | `Careful => (Spec /\ NoEarlyStop => []RecordedInOrder)` |
| | `ShortLinesRecordedInOrder` | `Careful => (Spec /\ []ShortLines => [](RecordedInOrder /\ exit # "tooLong"))` |
| `LogClockProofs` | `TypeCorrect` | `Spec => []TypeOK` |
| | `ResolutionTrue` | `Spec => []ResolvedIsTrue` |
| | `OnlyReading` | `Spec => []ResolvedIsOnlyReading` |
| | `HoldsAreNeeded` | `Spec => []HeldOnlyWhenAmbiguous` |

The environments: `Benign` is resolved and distinct stamps and deaths inside runs only;
`NoEnds` is no END and one start; `Growing` is a file that is neither cut nor replaced;
`Careful` gives each new file an inode of its own and has files only cut with care (see
`Truncate`, `WriteChar` and `Kill`), however many are removed and created besides.
They are the ones of the runs that check the same properties, and section 5 tells what
happens outside of them.

`NoEarlyStop` says of the one stop that `Careful` leaves, a line over the limit, what
`CarefulCuts` says of `Kill`: it does not come between the cut of a file and the first
row of its new generation. The limit of `follow_files` is as large as its files, so
there it holds by itself. `ShortLines` is a condition on the game alone that implies it:
nothing longer than the limit is written without a line end. The limit of the code is
256 KiB (`errors.go:11`), which no line of the game comes near.

### Types, and the status of a run

`TypeOK` of `Capture` is not inductive: `ReadLine` stays in the log only because `limit` does,
and the line number is bounded only because it never passes `pos`. `TypeInv` adds
the order of the offsets and that a stopped process remembers nothing.

`StatusFinal` needs that whatever run the process closes is open in the store.
That is `RunsToCloseAreOpen`, and it is preserved for two reasons. A START read
now begins a run that no row, no queue and no session knows: stamps never run
backwards, a START never shares the stamp of an earlier line (`LogInOrder`), and
every run known anywhere has its START before the read position (`RunsFromLog`);
so the new run differs from all of them (`FreshRun`). And closing one run does not
close another: the runs still to be closed are pairwise different
(`RunsToCloseDiffer`). A closure also needs `pos = offset`, as it inserts a row
that `RunsFromLog` bounds by the offset. The conjunction of these is `IInv`; the
lemma `InductiveInvariant` proves it and the two theorems follow. The proof goes
by component operation first (`SessionObserveType`, `CommitType`, ...), then one
lemma per action of `Capture`.

### Deaths: their ids, their lines, their runs

- *Ids.* An ordinal that was handed out is below the counter of its key
  (`OrdinalsAhead`), so two deaths of one key get two ordinals, and deaths of
  different keys need none.
- *Stored once.* Line numbers start at 0 with each process, but `pos - lineNumber`
  does not change while it lives; it ties a tracked death to a line of the log
  (`LogLine`). `LineInv` says that the tracked deaths are the death lines read, those
  past `offset` the ones not yet stored (`DeathsAreLines`), and that the stored events
  map one to one into the death lines below the offset (`EventsAreLines`). A commit
  stores lines past the offset only, so the map grows and stays one to one.
- *Attributed.* `GoverningLine` is the last START before a line. The tracker's context,
  while active, is the run that governs the next line and has not ended, and what was
  hashed under it keeps that (`ContextGoverned`). For a restored context this is false,
  which is why the property is of the first process only; the proof uses that nothing
  is stored before the first start (`NothingStored`). `CompletedHasEnd` goes the same
  way, over the session (`SessionGoverned`).
- *Orphans.* Where nothing ends by an END, every run the process or the store knows is
  closed, in progress, or queued to be closed (`RunsAccounted`), and between polls the
  queue is empty.

### The ledger

In the benign environment lines that share an instant are one line, the context of a
death is always active, and so every death can be hashed and nothing makes a commit
fail: whatever the offset covers is on record (`CoveredAreRecorded`). With the map
above, the recorded lines are exactly the death lines below the offset
(`RecordIsPrefix`). Under the refinement mapping `WriteLine` is `Write`, `PersistPoll`
is `Cover`, a closure is `End` of an open run or changes nothing, and every other step,
crashes and restarts included, is a stutter (`LedgerStep`).

### Evidence

`RecordsFailClosed` rests on one function: `FormatAt(f, n)`, the format the first n
lines of a file claim. The format in memory is that of the lines read, the stored one
that of the lines the stored offset covers, and `FormatNext` is `applyVersion` seen from
there. A file that is new to the process has no row yet, so it begins with "none"; a
file that is resumed goes on with what was stored (`RowsInv`, `FollowInv`). The deaths
not yet stored are those between the two offsets. For the encounter, `HeardInv` says
that the boss in memory is the one the lines heard leave (`Fighting`), and
`FightingNext` what one more line does to it; that a line was interpreted when it was
heard is the invariant above.

### Causes

`CausesOfDeath` first says what the two loops of `damage.go` compute, for every buffer.
Both are recursive functions over the hits, and the induction over sets described below
unfolds them: `SnapshotIsNewest` shows that on a buffer whose lines ascend the loop with
its `continue` and `break` takes exactly the hits within the lookback, newest first, and
`CausesAreRanked` that the ranking has one cause for each key, at the rank of the first
hit that has it (`Firsts`, `KeysUpTo`), until there are `MaxCauses`. `LastHitsOn(b, who, n)`
is the invariant of a buffer: its hits are hits on that player among the lines heard,
in their order, and a hit it does not have is older than all of its own, with the buffer
full. `Add` keeps it (`LastHitsAdd`), where dropping the oldest hit of a full buffer is
needed, and a hit is then among the last `Capacity` ones exactly if the buffer has it
(`BufferHolds`, by counting). Together they give `BufferGivesCauses`. What ties this to the
line numbers is `HeardHere`: as long as everything heard is of the file that is followed,
the line number is the number of lines heard. A new file at the path resets it and not
the buffers, so the property holds for one file only (section 5).

`TypeOK` then needs nothing more than that the ranking is a ranking.

### Scans, and following a file

What the reader makes of a text is a recursive function over its bytes, and `LinesOf`
speaks of the n-th line end by counting. Both need induction. The induction theorems of
the library take a predicate, which the provers cannot instantiate, so `LogScanProofs`
has one over sets: if 0 is in S and S is closed under adding one, then S has every
number (`Induction`; otherwise adding one would map a finite set one to one into a
smaller one; `DeathCausesProofs` has it from the order of the numbers instead). With it,
`WriteUnfold` gives the bytes of `Write` one by one, `EveryCount` says that counting
through a finite set meets every count, and `LinesOfAppend` what a byte does to the
lines of a text. The reader invariant is `Reading(r, t, o, n)`: having got the bytes o +
1 to n of t, it has the lines that end among them, and in its buffer what is behind the
last line end. A byte keeps it (`ReadingByte`, where `NextLine` shows that dropping one
CR is what `LinesOf` means by it), so a chunk does (`ReadingChunk`), and a tail followed
by new bytes is two chunks (`ScanReadsLines`).

`GrowInv` then says of a growing file: every offset, stored, followed or handed out, is
`Placed` (behind a line end, with the tail the text has there), and the lines before
the followed offset, and before that of the row with the highest generation, are those
on record. The delicate step is a poll that takes the file for a replacement because
its head grew: it can only happen before the first line was read (`PollFromInSync`), so
beginning again at 0 under a new generation loses and repeats nothing. What was placed
stays placed when a byte is written (`PlacedKept`), and one more line end makes the lines
one longer, so every step is one of `LineFeed` (`FeedStep`).

### Many files

`RecordedInOrder` speaks of what `LinesFrom` takes out of the record for one file, so the
proof begins with what a recursive function over a sequence does when one sequence
follows another (`LinesFromConcat`): lines that all end in file j add to what is taken
for j and to nothing else. All lines of a file end in it (`LinesOfFile`), and the lines
before an offset that is placed are the first of its text (`LinesToPrefix`).

`FilesInv` then relates the record `Rec` of the file at the path to the two offsets the
process may go on from, as a cut or a new file leaves both of them behind.

- The row a restart loads (`RowsOrder`): there is none, and nothing of the file is on
  record (`Fresh`); or the lines before it are the record (`Covered`); or it is of what the
  file was before it was cut (`CutOff`). In the last case either no poll saw the cut, and
  the file is still empty, so the next poll finds it shorter than the offset whoever makes
  it; or the process that saw it follows a higher generation, and its next row will be the
  one that is loaded.
- The offset in memory (`FollowOrder`): it is placed, with the record before it (`InSync`);
  or the file was cut behind it and is still empty (`Unnoticed`); or the process follows
  another inode, and the file at the path is fresh. In the last two cases the poll begins
  at 0, and `Rec` is empty (`PollRestarts`); in the first it goes on where the record ends.
- The result of a poll that is not persisted (`PendingOrder`) belongs to the file `seen`,
  which may be gone by then: the record of that file, with the lines of the result, is what
  lies before the offset of the result. It goes under the inode that was read, so no row
  of the file now at the path is touched.

Each part needs the others: `CutOff` is harmless only because no row has a higher
generation than the offset that is followed, and that a poll of a cut file raises the
generation needs an offset that is not 0 there. TLC checked `FilesInv` on the instance of
`follow_files`; with a content limit of one it found the stop that `NoEarlyStop` excludes.

A scan fails only with a buffer over the limit, and the buffer is a piece of the text
without a line end (`RefusingByte`, `ScanRefusesLongOnly`). So a poll that goes on at a
placed offset never stops a process that is given short lines (`RefusedIsLong`), and
`ShortLinesRecordedInOrder` follows by the same invariant. That the limit leaves out the
CR of a line cannot be had, see 4 in section 5.

### The clock

Two readings of one wall time are an
hour apart at most (`ReadingsNear`, from the assumption on the zones), so the loop of
`hasDuplicateWallTime` meets the second one if there is one (`SearchExact`). Then what
is resolved has one reading (`LocalResolvedOnce`), and the instant the game wrote the
line at is a reading of its stamp. The invariant `IInv` says that a resolution is one
of those of its line, and that a stamp of the game is the wall clock of its time. The
assumption is used: a zone that shifts by two hours (Antarctica/Troll) has readings
outside the window, and `ClockAssumption` excludes it. So is the step: the code
searches by the second (`envelope.go:408`) and compares fractions of it too, so a
change of offset must be a whole number of seconds, as all are.

### Only model-checked

Liveness, which is beyond the proof system: `RunsEnd`, `LinesGetRecorded`, and the part of
`LedgerSpec` that says what was written is covered in the end.

## 5. Where code and documents disagree

Each of the first four has a run that shows it.

1. **`orphan_completed`**: END and the next START in one poll. `observeStart` queues
   a run in progress but overwrites a completed one (`session.go:172`), before
   `TakeCompleted` could see it. The row stays active for good, against
   `capture.go:175-176`.
2. **`interrupt`**: SIGTERM cancels `ctx`, and the run is closed with that very
   `ctx` (`capture.go:124`). The transaction cannot begin: the run stays active, the
   exit code is a failure. `docs/IMPLEMENTATION_PLAN.md:786` has it abandoned. (A tick that
   wins over the signal ends the same way in `Poll`; TLC may show the step as `AbortPoll`.)
3. **`held_death_stops`**: a tracked death outside any known run is held by the
   tracker, as designed, but `persistPoll` needs a run id for it and fails
   (`capture.go:226`). The process exits without advancing the offset, and every
   restart ends at the same line. The same happens to a run the player comes back
   to after the inactivity timeout if the companion was restarted in between: the
   abandoned run is not restored, and its next death stops capture.
4. **`crlf_cut_at_limit`**: a poll that ends between the CR and the LF of a line of
   exactly the maximum size fails with `ErrLineTooLong`, since `Finalize` counts the
   CR as content (`line_reader.go:68`); the tests say "CRLF excluded".

Further ones, met with the same modules by changing the constants named:

- `OrphanFree` with two starts (`capture_runs_end`, `MaxStarts = 2`, `Spec`): a crash
  between the commit and the closure of a superseded run loses the closure
  (`capture.go:162-169`). The START that superseded it is covered and not read again, so
  the old row stays active.
- `ExactlyOnce` with `SharedStamps = TRUE` (`capture_exactly_once`): ordinals live in
  memory. Two deaths of one player at one instant with a restart between them get the
  same id, and the second is dropped by `ON CONFLICT DO NOTHING` (`tracker.go:118`),
  against `docs/COMBAT_LOG_CAPABILITIES.md:114` ("Resume without duplicate or skipped
  events").
- `AttributedToItsRun` without its `starts <= 1` (`capture_general` with four lines): a
  run whose END was covered but whose completion was not stored is restored as active,
  and later deaths are hashed under it. `CompletedHasEnd` likewise: a superseded run
  whose closure was lost is restored, and another END completes it.
- `ExactlyOnce` with `Unresolved = TRUE`: `loadCommittedOffset` does not restore
  the line number, held ids are built from it (`capture.go:406`), and a later held
  death can collide with an earlier one. A new file at the path starts line numbers
  over within one process, to the same effect.
- `LedgerSpec` with `TimePasses = TRUE` (`capture_exactly_once`): the second half of 3.
- `RecordedInOrder` with `CarefulCuts = FALSE` (`follow_files`): a file cut back and
  grown past the offset between two polls is continued in the middle
  (`watcher.go:96`); so is one that was seen cut by a poll that had nothing to store,
  if a crash comes before the next line (`capture.go:193` returns early, and the new
  generation was only in memory). `internal/logwatcher/doc.go:3-4` promises a restart
  from zero.
- `RecordedInOrder` with `InodesReused = TRUE` (`follow_files`): a new file with the inode
  of the old one and another head is taken for the old one if it is at least as long as
  the offset (`identity.go:102`; the comment above it says why), against
  `docs/IMPLEMENTATION_PLAN.md:491`. After a restart the head is not even known, as it is
  not stored (`identity.go:21`).
- A line over the limit ends capture for good: `Poll` returns before it proposes an offset
  (`watcher.go:124-128`), and every start fails at the same place. The complete lines in
  front of it that the same poll read are not recorded either. No document says what
  should become of them; `LinesGetRecorded` states the exception.
- `RecordedInOrder` with `MaxContent = 1` and `MaxBytes = 3` (`follow_files`): a poll that
  finds the file cut and refuses a line of it for its length returns before the new
  generation is stored (`watcher.go:126`), and complete lines before that one are not
  stored either. After the restart the old offset is applied to the new content.
- `BytesConsumed` is negative when a pending tail grows without being completed
  (`scan.go:149`), against its comment at `scan.go:68-69`; `persistPoll` then stores a
  row it meant to skip, which does no harm.
- `CausesFromLog` without `HeardOneFile`: when the file at the path is replaced, the
  watcher starts line numbers over and the tracker keeps its hits. A hit of the old
  file then counts as a cause if its line number happens to be below the death's, and
  one just heard is left out if it is behind an old one that is too far back
  (`damage.go:44-51`).
- A restart loses the hits and the encounter that precede the offset; the causes and
  the encounter of the next death are then those of the lines heard since. The
  encounter is not stored with a death at all (`capture.go:336-345`).
- Before the first complete line, an append to a short file changes its head and is
  taken for a replacement (`identity.go:105`), against `identity_test.go:39-41`; the
  new generation costs no line.

## 6. What is not modelled

- **field parsing** (CSV, hex, payloads): pure functions with good unit tests; no
  state. The texts of a hit (names, amounts, ids) are one key.
- **zones that shift by more than an hour**, and two changes of offset within one:
  outside `ClockAssumption`.
- **two companion processes** on one database: nothing in the code prevents it, the
  models have one.
- **migrations, settings, read-only queries, configuration, `logprobe`**: run once
  or print; nothing races with them.
- `uploader` and `review` are empty packages.
- A cut of the file in the middle of a poll, and a database that fails for reasons
  of its own (a full disk): such a failure is, for the properties, the `Kill` that may
  come at the same point.

## 7. Plan

Left to do: the composition of `LogWatcher` and `Capture`, so that a new generation meets
runs in progress, and of two processes on one store.

The core, `Capture` with its components and abstract ledger, then `LogWatcher` with
`LogScan`, came first, since every other part hangs on what they promise; `LogClock` and
`DeathEvidence` followed; then the proofs, `Capture` first.
