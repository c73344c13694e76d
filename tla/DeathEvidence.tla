----------------------------- MODULE DeathEvidence -----------------------------
(* What capture knows about a death besides the run it belongs to: whether    *)
(* the line may be interpreted at all (parser/version.go), the hits that may  *)
(* have caused it (detection/damage.go) and the boss encounter it fell into   *)
(* (detection/run.go) -- through polls, restarts and new log files.           *)
(*                                                                            *)
(* Format and offset of a file are stored with its deaths in one transaction. *)
(* The damage buffers and the encounter are memory of the process: a restart  *)
(* forgets them, and a new file at the path does not.                         *)
(*                                                                            *)
(* Simplifications: runs, identifiers and the ways a transaction can fail are *)
(* the business of Capture; here a run is always in progress and a committed  *)
(* death gets its row.  Bytes and file identity are the business of           *)
(* LogWatcher; here a file is a number, and its row is found by it.           *)
EXTENDS LogFormat, DamageBuffer, FiniteSets

CONSTANTS
  Players,    \* the character GUIDs
  Tracked,    \* those whose deaths are recorded
  Bosses,     \* encounter ids
  NoBoss,     \* the encounter id outside an encounter
  FirstLines, \* environment: what a file may hold when it appears
  Lines,      \* environment: the lines the game may write
  MaxLines,   \* bound: lines the game writes to all files together
  MaxAhead,   \* bound: unread lines in the current file
  MaxFiles,   \* bound: files at the path
  MaxStarts   \* bound: starts of the process

(* The lines the components above branch on.                                  *)
Header         == [kind : {"header"}, version : Headers]
Damage         == [kind : {"damage"}, who : Players, key : CauseKeys, damage : Damages]
Died           == [kind : {"died"}, who : Players]
EncounterStart == [kind : {"encounterStart"}, boss : Bosses]
EncounterEnd   == [kind : {"encounterEnd"}, boss : Bosses]
Line == Header \union Damage \union Died \union EncounterStart \union EncounterEnd

ASSUME EvidenceAssumption ==
  /\ Lines \subseteq Line
  /\ FirstLines \subseteq Seq(Line)
  /\ \A f \in FirstLines : Len(f) <= MaxLines
  /\ Tracked \subseteq Players
  /\ NoBoss \notin Bosses
  /\ MaxLines \in Nat /\ MaxAhead \in Nat /\ MaxFiles \in Nat \ {0} /\ MaxStarts \in Nat

VARIABLES
  files,            \* the files that were at the path, in order, with their lines
  rows,             \* table files: offset in lines, encoded parser state
  events,           \* table events: where the death was written
  pc,               \* down, idle, or in the scan of a poll
  file,             \* the file being followed
  limit,            \* its length at the stat of this poll
  pos,              \* how much of it was read
  lineNumber,       \* CommittedOffset.LineNumber, not stored
  format,           \* ParserState.Format
  buffers,          \* Tracker.buffers
  encounter,        \* encounterTracker: the id, or NoBoss when not active
  deaths,           \* Tracker.deaths
  persistedDeaths,  \* captureService.persistedDeaths
  heard,            \* history: the lines this process read, as [file, at]
  starts            \* how often the process was started

diskVars    == <<files, rows, events>>
readVars    == <<file, limit, pos, lineNumber, format>>
trackerVars == <<buffers, encounter, deaths>>
vars == <<diskVars, readVars, trackerVars, pc, persistedDeaths, heard, starts>>

Files   == 1 .. MaxFiles
Place   == [file : Files, at : 1 .. MaxLines]
Current == Len(files)    \* the file at the path

Candidate == [place : Place, causes : Seq(Cause), encounter : Bosses \union {NoBoss},
              heardAt : Nat]

TypeOK ==
  /\ files \in Seq(Seq(Line)) /\ Current \in Files
  /\ rows \in [Files -> [offset : 0 .. MaxLines, code : 0 .. 2]]
  /\ events \subseteq Place
  /\ pc \in {"down", "idle", "scan"}
  /\ file \in 1 .. Current
  /\ pos \in 0 .. Len(files[file]) /\ limit \in 0 .. Len(files[file])
  /\ lineNumber \in 0 .. pos
  /\ format \in Formats
  /\ \A p \in Players : buffers[p] \in Seq(Hit) /\ Len(buffers[p]) <= Capacity
  /\ encounter \in Bosses \union {NoBoss}
  /\ deaths \in Seq(Candidate) /\ persistedDeaths \in 0 .. Len(deaths)
  /\ heard \in Seq(Place)
  /\ starts \in 0 .. MaxStarts

NoRow     == [offset |-> 0, code |-> EncodeFormat("none")]
NoBuffers == [p \in Players |-> << >>]

Init ==
  /\ \E f \in FirstLines : files = <<f>>
  /\ rows = [f \in Files |-> NoRow]
  /\ events = {}
  /\ pc = "down"
  /\ file = 1 /\ limit = 0 /\ pos = 0 /\ lineNumber = 0 /\ format = "none"
  /\ buffers = NoBuffers /\ encounter = NoBoss /\ deaths = << >>
  /\ persistedDeaths = 0
  /\ heard = << >>
  /\ starts = 0

-------------------------------------------------------------------------------
(* The game and the machine.                                                  *)

Written == Cardinality({p \in Place : p.file \in DOMAIN files /\ p.at \in DOMAIN files[p.file]})
Unread  == Len(files[Current]) - (IF pc # "down" /\ file = Current THEN pos
                                  ELSE rows[Current].offset)

WriteLine ==
  /\ Written < MaxLines
  /\ Unread < MaxAhead
  /\ \E l \in Lines : files' = [files EXCEPT ![Current] = Append(@, l)]
  /\ UNCHANGED <<rows, events, readVars, trackerVars, pc, persistedDeaths, heard, starts>>

(* Another file takes the place of the one at the path.                       *)
NewFile ==
  /\ Current < MaxFiles
  /\ \E f \in FirstLines : Written + Len(f) <= MaxLines /\ files' = Append(files, f)
  /\ UNCHANGED <<rows, events, readVars, trackerVars, pc, persistedDeaths, heard, starts>>

(* The process stops, at any point, and its memory is gone.                   *)
Kill ==
  /\ pc # "down"
  /\ starts < MaxStarts
  /\ pc' = "down"
  /\ file' = 1 /\ limit' = 0 /\ pos' = 0 /\ lineNumber' = 0 /\ format' = "none"
  /\ buffers' = NoBuffers /\ encounter' = NoBoss /\ deaths' = << >>
  /\ persistedDeaths' = 0
  /\ heard' = << >>
  /\ UNCHANGED <<diskVars, starts>>

-------------------------------------------------------------------------------
\* Mutant: the parser state is not resumed, the file is read as a new one.
Start_FormatForgotten ==
  /\ pc = "down"
  /\ starts < MaxStarts
  /\ starts' = starts + 1
  /\ pc' = "idle"
  /\ file' = Current
  /\ pos' = rows[Current].offset
  /\ format' = "none"
  /\ UNCHANGED <<diskVars, limit, lineNumber, trackerVars, persistedDeaths, heard>>

(* NewTracker, ResolveIdentity, loadCommittedOffset.                          *)
Start ==
  /\ pc = "down"
  /\ starts < MaxStarts
  /\ starts' = starts + 1
  /\ pc' = "idle"
  /\ file' = Current
  /\ pos' = rows[Current].offset
  /\ format' = DecodeFormat(rows[Current].code)
  /\ UNCHANGED <<diskVars, limit, lineNumber, trackerVars, persistedDeaths, heard>>

(* Poll up to the scan: another file at the path means ResetOffset.           *)
BeginPoll ==
  /\ pc = "idle"
  /\ pc' = "scan"
  /\ file' = Current
  /\ limit' = Len(files[Current])
  /\ IF file = Current
     THEN UNCHANGED <<pos, lineNumber, format>>
     ELSE pos' = 0 /\ lineNumber' = 0 /\ format' = "none"
  /\ UNCHANGED <<diskVars, trackerVars, persistedDeaths, heard, starts>>

-------------------------------------------------------------------------------
(* Tracker.Observe.                                                           *)

ObserveDamage(l) ==
  /\ buffers' = [buffers EXCEPT ![l.who] =
                   Add(@, [line |-> lineNumber + 1, key |-> l.key, damage |-> l.damage])]
  /\ UNCHANGED <<encounter, deaths>>

(* observeDeath, with the evidence at hand.                                   *)
ObserveDeath(l) ==
  /\ deaths' =
       IF l.who \notin Tracked THEN deaths
       ELSE Append(deaths,
              [place     |-> [file |-> file, at |-> pos + 1],
               causes    |-> RankCauses(SnapshotBefore(buffers[l.who], lineNumber + 1)),
               encounter |-> encounter,
               heardAt   |-> Len(heard) + 1])
  /\ UNCHANGED <<buffers, encounter>>

\* Mutant: any ENCOUNTER_END ends the encounter.
ObserveEncounter_AnyEnd(l) ==
  /\ encounter' = IF l.kind = "encounterStart" THEN l.boss ELSE NoBoss
  /\ UNCHANGED <<buffers, deaths>>

(* encounterTracker.observe: an END of another encounter is not its END.      *)
ObserveEncounter(l) ==
  /\ encounter' = CASE l.kind = "encounterStart" -> l.boss
                    [] l.kind = "encounterEnd" /\ l.boss = encounter -> NoBoss
                    [] OTHER -> encounter
  /\ UNCHANGED <<buffers, deaths>>

Observe(l) ==
  \/ l.kind = "damage" /\ ObserveDamage(l)
  \/ l.kind = "died" /\ ObserveDeath(l)
  \/ l.kind \in {"encounterStart", "encounterEnd"} /\ ObserveEncounter(l)

(* ParseLine and the handler, for the next line of the chunk.                 *)
ReadLine ==
  /\ pc = "scan"
  /\ pos < limit
  /\ LET l == files[file][pos + 1]
     IN  \/ /\ l.kind = "header"
            /\ format' = ApplyVersion(format, l.version)
            /\ UNCHANGED trackerVars
         \/ /\ l.kind # "header" /\ Interpreted(format)
            /\ Observe(l)
            /\ UNCHANGED format
         \/ /\ l.kind # "header" /\ ~Interpreted(format)
            /\ UNCHANGED <<format, trackerVars>>
  /\ pos' = pos + 1
  /\ lineNumber' = lineNumber + 1
  /\ heard' = Append(heard, [file |-> file, at |-> pos + 1])
  /\ UNCHANGED <<diskVars, file, limit, pc, persistedDeaths, starts>>

(* persistPoll and AckCommitted; a poll that read nothing stores nothing.     *)
Persist ==
  /\ pc = "scan"
  /\ pos = limit
  /\ pc' = "idle"
  /\ IF pos = rows[file].offset /\ persistedDeaths = Len(deaths)
     THEN UNCHANGED <<rows, events, persistedDeaths>>
     ELSE /\ rows' = [rows EXCEPT ![file] = [offset |-> pos, code |-> EncodeFormat(format)]]
          /\ events' = events \union
                {deaths[i].place : i \in persistedDeaths + 1 .. Len(deaths)}
          /\ persistedDeaths' = Len(deaths)
  /\ UNCHANGED <<files, readVars, trackerVars, heard, starts>>

Next ==
  \/ WriteLine \/ NewFile \/ Kill
  \/ Start \/ BeginPoll \/ ReadLine \/ Persist

Spec == Init /\ [][Next]_vars

-------------------------------------------------------------------------------
(* Properties.                                                                *)

(* The line at a place may be interpreted: its file has a supported header    *)
(* before it, and nothing before it that puts the file under quarantine.      *)
HeaderBefore(p, version) ==
  \E i \in 1 .. p.at - 1 :
    files[p.file][i].kind = "header" /\ files[p.file][i].version = version
MayInterpret(p) == HeaderBefore(p, "supported") /\ ~HeaderBefore(p, "unsupported")

LineAt(p)   == files[p.file][p.at]
IsDeath(p)  == LineAt(p).kind = "died" /\ LineAt(p).who \in Tracked

(* Records fail closed, and nothing else is lost: of what the stored offset   *)
(* of a file covers, exactly the tracked deaths that may be interpreted have  *)
(* a row, wherever polls end and restarts come.                               *)
FailsClosed ==
  events = {p \in Place : /\ p.file \in DOMAIN files
                          /\ p.at <= rows[p.file].offset
                          /\ IsDeath(p) /\ MayInterpret(p)}

(* The hits on the victim of a death that count as evidence: of the lines     *)
(* this process heard, the last Capacity hits before the death, if they are   *)
(* within the lookback.                                                       *)
HeardLine(i) == LineAt(heard[i])
HitsBefore(who, n) ==
  {i \in 1 .. n - 1 :
     /\ HeardLine(i).kind = "damage" /\ HeardLine(i).who = who /\ MayInterpret(heard[i])}
Evidence(who, n) ==
  {i \in HitsBefore(who, n) :
     /\ n - i <= Lookback
     /\ Cardinality({j \in HitsBefore(who, n) : j >= i}) <= Capacity}

(* The last hit of each cause, and the place of a hit among them.             *)
LastHits(who, n) ==
  {i \in Evidence(who, n) :
     \A j \in Evidence(who, n) : HeardLine(j).key = HeardLine(i).key => j <= i}
Rank(i, hits) == Cardinality({j \in hits : j >= i})

HeardOneFile == \A i, j \in DOMAIN heard : heard[i].file = heard[j].file

(* A process that follows one file gives every death the causes its last hits *)
(* name, most recent first; the most recent one says how sure that is.        *)
CausesFromLog ==
  HeardOneFile =>
    \A k \in DOMAIN deaths :
      LET d    == deaths[k]
          hits == LastHits(LineAt(d.place).who, d.heardAt)
      IN  /\ Len(d.causes) = (IF Cardinality(hits) < MaxCauses THEN Cardinality(hits)
                              ELSE MaxCauses)
          /\ \A i \in hits : Rank(i, hits) <= MaxCauses =>
               d.causes[Rank(i, hits)] =
                 [key        |-> HeardLine(i).key,
                  confidence |-> CauseConfidence(HeardLine(i), Rank(i, hits) = 1)]

(* The boss the lines heard before a death leave the group fighting: that of  *)
(* the last ENCOUNTER_START, unless its own END came since.                   *)
StartsBefore(n) ==
  {i \in 1 .. n - 1 : HeardLine(i).kind = "encounterStart" /\ MayInterpret(heard[i])}
EndedBy(i, n) ==
  \E j \in i + 1 .. n - 1 :
    /\ HeardLine(j).kind = "encounterEnd" /\ MayInterpret(heard[j])
    /\ HeardLine(j).boss = HeardLine(i).boss
Fighting(n) ==
  {HeardLine(i).boss : i \in {s \in StartsBefore(n) :
                                /\ \A t \in StartsBefore(n) : t <= s
                                /\ ~EndedBy(s, n)}}

(* A death is given the encounter in progress as far as this process heard,   *)
(* and none outside of one.                                                   *)
EncounterFromLog ==
  \A k \in DOMAIN deaths :
    LET d == deaths[k]
    IN  Fighting(d.heardAt) = (IF d.encounter = NoBoss THEN {} ELSE {d.encounter})
=============================================================================
