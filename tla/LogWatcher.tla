------------------------------ MODULE LogWatcher ------------------------------
(* internal/logwatcher and the files table: following one path through polls, *)
(* restarts, truncation and replacement.  What a line means is the business   *)
(* of Capture; here a line is recorded by the transaction that stores the     *)
(* offset behind it.                                                          *)
(*                                                                            *)
(* written[i] is all the game ever wrote to the i-th file at the path; the    *)
(* last one is there now.  Cutting a file back to nothing starts a new one on *)
(* the same inode.  A poll is one step: it opens, stats and reads up to the   *)
(* size it saw, and a cut in the middle of it is left out.                    *)
EXTENDS LogScan

CONSTANTS
  Chars,          \* environment: the characters the game writes, LF among them
  Truncates,      \* environment: whether the file may be cut back to nothing
  CarefulCuts,    \* environment: see Truncate, WriteChar and Kill
  Rotates,        \* environment: whether the file may be removed and created
  InodesReused,   \* environment: whether a new file may get an old inode
  HeadSize,       \* defaultHeadSize
  MaxBytes,       \* bound: bytes written to one file
  MaxFiles,       \* bound: files at the path
  MaxStarts       \* bound: starts of the process

ASSUME WatcherAssumption ==
  /\ LF \in Chars
  /\ Truncates \in BOOLEAN /\ CarefulCuts \in BOOLEAN
  /\ Rotates \in BOOLEAN /\ InodesReused \in BOOLEAN
  /\ HeadSize \in Nat \ {0}
  /\ MaxBytes \in Nat /\ MaxFiles \in Nat \ {0} /\ MaxStarts \in Nat

VARIABLES
  written,      \* the files at the path, in order
  inode,        \* the inode at the path, or NoInode
  rows,         \* table files
  recorded,     \* the lines persisted, in order
  up,           \* the process is running
  committed,    \* Watcher.committed
  identity,     \* Watcher.identity
  lastInode,    \* Watcher.lastInfo, as far as os.SameFile looks at it
  result,       \* the PollResult still to be persisted, or NoResult
  seen,         \* the file the last poll read
  starts,       \* how often the process was started
  exit          \* how it last stopped

diskVars  == <<written, inode>>
dbVars    == <<rows, recorded>>
watchVars == <<committed, identity, lastInode>>
vars == <<diskVars, dbVars, watchVars, up, result, seen, starts, exit>>

Files   == 1 .. MaxFiles
Inodes  == 1 .. MaxFiles
NoInode == 0
Byte    == [ch : Chars, file : Files]

Offset == [generation : Nat, offset : Nat, partial : Seq(Byte)]
ResetOffset(g) == [generation |-> g, offset |-> 0, partial |-> << >>]

NoResult == [lines |-> << >>, committed |-> ResetOffset(0), bytesConsumed |-> 0,
             pending |-> FALSE]

(* The file at the path, and what fingerprint tells two heads apart by.       *)
Current == Len(written)
Text    == written[Current]
HeadOf(text) ==
  [i \in 1 .. (IF Len(text) < HeadSize THEN Len(text) ELSE HeadSize) |-> text[i].ch]

TypeOK ==
  /\ written \in Seq(Seq(Byte)) /\ Current \in Files
  /\ inode \in Inodes \union {NoInode}
  /\ \A r \in rows : r.inode \in Inodes /\ r.at \in Offset
  /\ recorded \in Seq(Seq(Byte))
  /\ up \in BOOLEAN
  /\ committed \in Offset
  /\ identity.inode \in Inodes \union {NoInode}
  /\ lastInode \in Inodes \union {NoInode}
  /\ result.committed \in Offset /\ result.bytesConsumed \in Int
  /\ seen \in 0 .. MaxFiles
  /\ starts \in 0 .. MaxStarts
  /\ exit \in {"none", "killed", "tooLong", "failure"}

NoIdentity == [inode |-> NoInode, head |-> << >>]

Init ==
  /\ written = << << >> >> /\ inode = 1
  /\ rows = {} /\ recorded = << >>
  /\ up = FALSE
  /\ committed = ResetOffset(0) /\ identity = NoIdentity /\ lastInode = NoInode
  /\ result = NoResult
  /\ seen = 0 /\ starts = 0 /\ exit = "none"

-------------------------------------------------------------------------------
(* The game.  With CarefulCuts it cuts a file only when a poll took all of it *)
(* up to a complete line, it goes on only when a poll saw the file cut, and   *)
(* no crash comes before the new generation is stored.                        *)

(* The file at the path is one that was cut (unless inodes are reused).       *)
CutFile == inode \notin {NoInode, Current}

WriteChar ==
  /\ inode # NoInode
  /\ Len(Text) < MaxBytes
  /\ CarefulCuts /\ CutFile => seen = Current
  /\ \E c \in Chars :
       written' = [written EXCEPT ![Current] = Append(@, [ch |-> c, file |-> Current])]
  /\ UNCHANGED <<inode, dbVars, watchVars, up, result, seen, starts, exit>>

Truncate ==
  /\ Truncates
  /\ inode # NoInode /\ Text # << >>
  /\ Current < MaxFiles
  /\ CarefulCuts => /\ up /\ ~result.pending
                    /\ committed.offset = Len(Text)
  /\ written' = Append(written, << >>)
  /\ UNCHANGED <<inode, dbVars, watchVars, up, result, seen, starts, exit>>

RemoveFile ==
  /\ Rotates
  /\ inode # NoInode
  /\ Current < MaxFiles
  /\ inode' = NoInode
  /\ UNCHANGED <<written, dbVars, watchVars, up, result, seen, starts, exit>>

CreateFile ==
  /\ inode = NoInode
  /\ written' = Append(written, << >>)
  /\ inode' \in (IF InodesReused THEN 1 .. Current ELSE {Current + 1})
  /\ UNCHANGED <<dbVars, watchVars, up, result, seen, starts, exit>>

-------------------------------------------------------------------------------
(* The process stops; what was read and not persisted is forgotten.           *)
Stop(how) ==
  /\ up' = FALSE
  /\ exit' = how
  /\ committed' = ResetOffset(0) /\ identity' = NoIdentity /\ lastInode' = NoInode
  /\ result' = NoResult
  /\ UNCHANGED <<diskVars, dbVars, seen, starts>>

GenerationStored ==
  \E r \in rows : r.inode = inode /\ r.at.generation = committed.generation

Kill ==
  /\ up
  /\ starts < MaxStarts
  /\ CarefulCuts /\ CutFile => GenerationStored
  /\ Stop("killed")

(* GetFileState: the row of the highest generation for this inode.            *)
RowsFor(i) == {r \in rows : r.inode = i}
LatestFor(i) ==
  {r \in RowsFor(i) : \A q \in RowsFor(i) : q.at.generation <= r.at.generation}

(* ResolveIdentity, loadCommittedOffset and New.                              *)
Start ==
  /\ ~up
  /\ starts < MaxStarts
  /\ inode # NoInode
  /\ up' = TRUE
  /\ starts' = starts + 1
  /\ identity' = [inode |-> inode, head |-> HeadOf(Text)]
  /\ \/ RowsFor(inode) = {} /\ committed' = ResetOffset(0)
     \/ \E r \in LatestFor(inode) : committed' = r.at
  /\ UNCHANGED <<diskVars, dbVars, lastInode, result, seen, exit>>

-------------------------------------------------------------------------------
(* Poll.                                                                      *)

Truncated == Len(Text) < committed.offset

\* Mutant: the inode is not compared.
IsReplacement_HeadOnly ==
  /\ identity.head # << >> /\ Text # << >> /\ identity.head # HeadOf(Text)
  /\ committed.offset > 0 => Len(Text) < committed.offset

(* isReplacement.  Another head alone replaces a file of which no line was    *)
(* read yet, or one that is shorter than the offset.                          *)
IsReplacement ==
  \/ identity.inode # inode
  \/ lastInode \notin {NoInode, inode}
  \/ /\ identity.head # << >> /\ Text # << >> /\ identity.head # HeadOf(Text)
     /\ committed.offset > 0 => Len(Text) < committed.offset

(* The offset this poll reads from, and what it reads.                        *)
PollFrom ==
  IF Truncated \/ IsReplacement THEN ResetOffset(committed.generation + 1) ELSE committed

\* Mutant: the size is taken for the last index.
NewBytes_OffByOne(from) == SubSeq(Text, from.offset + Len(from.partial) + 1, Len(Text) - 1)

NewBytes(from) == SubSeq(Text, from.offset + Len(from.partial) + 1, Len(Text))

Poll ==
  /\ up /\ ~result.pending
  /\ inode # NoInode
  /\ \E from \in {PollFrom} : \E scan \in {Scan(from.partial, NewBytes(from))} :
       /\ ~scan.failed
       /\ committed' = from
       /\ result' = [pending |-> TRUE,
                     lines |-> scan.lines,
                     bytesConsumed |-> Len(NewBytes(from)) - Len(scan.buf),
                     committed |->
                       [generation |-> from.generation,
                        offset |-> NextByteOffset(from.offset, from.partial,
                                                  NewBytes(from), scan.buf),
                        partial |-> scan.buf]]
  /\ identity' = IF Truncated \/ IsReplacement
                 THEN [inode |-> inode, head |-> HeadOf(Text)] ELSE identity
  /\ lastInode' = inode
  /\ seen' = Current
  /\ UNCHANGED <<diskVars, dbVars, up, starts, exit>>

(* A line over the limit, or no file at the path, ends the process.           *)
PollFails ==
  /\ up /\ ~result.pending
  /\ \/ inode = NoInode /\ Stop("failure")
     \/ inode # NoInode /\ Scan(PollFrom.partial, NewBytes(PollFrom)).failed /\ Stop("tooLong")

NothingRead == result.bytesConsumed = 0 /\ result.lines = << >>

\* Mutant: the polled lines are recorded, the offset is not stored with them.
Persist_RecordsFirst ==
  /\ result.pending
  /\ recorded' = recorded \o result.lines
  /\ committed' = result.committed
  /\ result' = NoResult
  /\ UNCHANGED <<diskVars, rows, identity, lastInode, up, seen, starts, exit>>

(* persistPoll, then AckCommitted: the row of this inode and generation is    *)
(* replaced, together with what the lines brought.                            *)
Persist ==
  /\ result.pending
  /\ \/ NothingRead /\ UNCHANGED dbVars
     \/ /\ ~NothingRead
        /\ LET key(r) == r.inode = identity.inode
                         /\ r.at.generation = result.committed.generation
           IN  rows' = {r \in rows : ~key(r)} \union
                         {[inode |-> identity.inode, at |-> result.committed]}
        /\ recorded' = recorded \o result.lines
  /\ committed' = result.committed
  /\ result' = NoResult
  /\ UNCHANGED <<diskVars, identity, lastInode, up, seen, starts, exit>>

-------------------------------------------------------------------------------
Environment == WriteChar \/ Truncate \/ RemoveFile \/ CreateFile \/ Kill

Next == Environment \/ Start \/ Poll \/ PollFails \/ Persist

Spec == Init /\ [][Next]_vars

(* WF_vars(Poll \/ PollFails), spelled out with the condition under which one *)
(* of them is enabled: the ticker keeps firing while the process is up, and   *)
(* what a tick finds decides how the poll ends.                               *)
CanPoll == up /\ ~result.pending

PollFairness == []<>~CanPoll \/ []<><<Poll \/ PollFails>>_vars

(* ... a poll is persisted, and the companion is started again.               *)
FairSpec == Spec /\ PollFairness /\ WF_vars(Persist) /\ WF_vars(Start)

-------------------------------------------------------------------------------
(* Properties.                                                                *)

(* Those of some lines that end in file i, in order.                          *)
LinesFrom(i, lines) ==
  LET taken[n \in 0 .. Len(lines)] ==
        IF n = 0 THEN << >>
        ELSE IF Last(lines[n]).file = i THEN Append(taken[n - 1], lines[n])
        ELSE taken[n - 1]
  IN  taken[Len(lines)]

(* The lines recorded from one file are its first lines, in order, each once, *)
(* and none has bytes of another file or begins in the middle.                *)
RecordedInOrder ==
  \A i \in DOMAIN written : IsPrefix(LinesFrom(i, recorded), LinesOf(written[i]))

(* A stored or acknowledged offset is behind a complete line, and the tail    *)
(* kept with it is what follows there in the file.                            *)
AtLineEnd(o) ==
  /\ o.offset = 0 \/ (o.offset <= Len(Text) /\ Text[o.offset].ch = LF)
  /\ o.partial = SubSeq(Text, o.offset + 1, o.offset + Len(o.partial))

OffsetsAtLineEnds ==
  /\ AtLineEnd(committed)
  /\ \A r \in rows : r.inode = inode => AtLineEnd(r.at)

(* The stored offset of a file covers exactly the lines recorded from it.     *)
OffsetCoversRecorded ==
  LET covered == IF rows = {} THEN 0 ELSE Max({r.at.offset : r \in LatestFor(inode)})
  IN  recorded = LinesOf(SubSeq(Text, 1, covered))

(* A line is only refused as too long when its content is.                    *)
OnlyTooLongLinesFail ==
  exit = "tooLong" =>
    \E i \in DOMAIN Text : \E j \in i .. Len(Text) :
      /\ \A k \in i .. j : Text[k].ch # LF
      /\ j - i + 1 > MaxContent
      /\ ~(j - i = MaxContent /\ Text[j].ch = CR)

(* What the reader of the log is promised while one file grows ...            *)
Feed == INSTANCE LineFeed WITH lines <- LinesOf(Text)

FeedSafety == Feed!FeedSafety

(* ... and that no complete line waits for ever: whatever tail the polls and  *)
(* restarts found behind it, it is recorded in the end, unless a line that is *)
(* too long has ended the process.  That also ends capture for the complete   *)
(* lines read by the same poll, since it returns before anything is stored.   *)
LinesGetRecorded ==
  \A n \in 1 .. MaxBytes :
    Cardinality(LineEnds(Text)) >= n
      ~> \/ Len(recorded) >= n
         \/ exit = "tooLong" /\ LongStretch(Text)
=============================================================================
