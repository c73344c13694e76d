--------------------------- MODULE LogWatcherProofs ---------------------------
(* What following the log keeps, for every alphabet, bound and number of      *)
(* restarts: the types; while one file only grows, that the offsets are       *)
(* behind complete lines and the lines before them are those on record; and   *)
(* while files are cut, removed and created, that the record of each file is  *)
(* its first lines.                                                           *)
EXTENDS LogWatcher, LogScanProofs

-------------------------------------------------------------------------------
(* Types.                                                                     *)

(* TypeOK, with what makes a poll and its persisting typed.                   *)
DiskInv ==
  /\ written \in Seq(Seq(Byte)) /\ Current \in Files
  /\ inode \in Inodes \union {NoInode}
  /\ inode = NoInode => Current < MaxFiles

WatchInv ==
  /\ up \in BOOLEAN /\ committed \in Offset
  /\ identity.inode \in Inodes \union {NoInode}
  /\ up => identity.inode \in Inodes
  /\ lastInode \in Inodes \union {NoInode}

ResultInv ==
  /\ result.committed \in Offset /\ result.bytesConsumed \in Int
  /\ result.lines \in Seq(Seq(Byte))
  /\ result.pending \in BOOLEAN
  /\ result.pending => up

StoredInv ==
  /\ \A r \in rows : r.inode \in Inodes /\ r.at \in Offset
  /\ recorded \in Seq(Seq(Byte))

CountInv ==
  /\ seen \in 0 .. MaxFiles
  /\ starts \in 0 .. MaxStarts
  /\ exit \in {"none", "killed", "tooLong", "failure"}

TypeInv == DiskInv /\ WatchInv /\ ResultInv /\ StoredInv /\ CountInv

LEMMA ResetType == \A g \in Nat : ResetOffset(g) \in Offset
  BY DEF ResetOffset, Offset

LEMMA OffsetIs ==
  \A o \in Offset : o.generation \in Nat /\ o.offset \in Nat /\ o.partial \in Seq(Byte)
                   /\ Len(o.partial) \in Nat
  BY DEF Offset

LEMMA TextType ==
  ASSUME DiskInv
  PROVE  Text \in Seq(Byte) /\ Len(Text) \in Nat /\ Current \in Nat /\ Current \in 1 .. Len(written)
  <1>1. Current \in 1 .. Len(written)
    BY WatcherAssumption DEF DiskInv, Current, Files
  <1> QED BY <1>1 DEF DiskInv, Text, Current

LEMMA PollFromType ==
  ASSUME DiskInv, WatchInv
  PROVE  /\ PollFrom \in Offset
         /\ NewBytes(PollFrom) \in Seq(Byte)
         /\ Scan(PollFrom.partial, NewBytes(PollFrom)) \in Readers(Byte)
         /\ Len(Scan(PollFrom.partial, NewBytes(PollFrom)).buf)
               \in 0 .. Len(PollFrom.partial) + Len(NewBytes(PollFrom))
  <1>1. committed.generation + 1 \in Nat /\ committed \in Offset
    BY OffsetIs DEF WatchInv
  <1>2. PollFrom \in Offset
    BY <1>1, ResetType DEF PollFrom
  <1>3. NewBytes(PollFrom) \in Seq(Byte)
    <2>1. Text \in Seq(Byte) /\ Len(Text) \in Nat
      BY TextType
    <2> DEFINE a == PollFrom.offset + Len(PollFrom.partial) + 1
    <2>2. a \in Nat /\ a >= 1
      BY <1>2, OffsetIs
    <2> HIDE DEF a
    <2>3. \A i \in a .. Len(Text) : Text[i] \in Byte
      BY <2>1, <2>2
    <2>4. SubSeq(Text, a, Len(Text)) \in Seq(Byte)
      BY <2>1, <2>2, <2>3, SubSeqProperties
    <2> QED BY <2>4 DEF NewBytes, a
  <1>4. PollFrom.partial \in Seq(Byte)
    BY <1>2, OffsetIs
  <1> QED BY <1>2, <1>3, <1>4, ScanType

LEMMA StopTypes ==
  ASSUME TypeInv, NEW how \in {"killed", "tooLong", "failure"}, Stop(how)
  PROVE  TypeInv'
  <1> USE DEF TypeInv, Stop
  <1>1. ResetOffset(0) \in Offset /\ << >> \in Seq(Seq(Byte))
    BY ResetType
  <1>2. DiskInv'
    BY DEF DiskInv, diskVars, Current
  <1>3. WatchInv'
    BY <1>1 DEF WatchInv, NoIdentity
  <1>4. ResultInv'
    BY <1>1 DEF ResultInv, NoResult
  <1>5. StoredInv'
    BY DEF StoredInv, dbVars
  <1>6. CountInv'
    BY DEF CountInv
  <1> QED BY <1>2, <1>3, <1>4, <1>5, <1>6

LEMMA TypeInit == Init => TypeInv
  <1> SUFFICES ASSUME Init PROVE TypeInv
    OBVIOUS
  <1> USE WatcherAssumption DEF Init
  <1>1. ResetOffset(0) \in Offset /\ << >> \in Seq(Seq(Byte)) /\ << >> \in Seq(Byte)
    BY ResetType
  <1>2. DiskInv
    BY <1>1 DEF DiskInv, Current, Files, Inodes, NoInode
  <1>3. WatchInv
    BY <1>1 DEF WatchInv, NoIdentity
  <1>4. ResultInv
    BY <1>1 DEF ResultInv, NoResult
  <1>5. StoredInv
    BY <1>1 DEF StoredInv
  <1>6. CountInv
    BY DEF CountInv
  <1> QED BY <1>2, <1>3, <1>4, <1>5, <1>6 DEF TypeInv

LEMMA TypeNext == TypeInv /\ [Next]_vars => TypeInv'
  <1> SUFFICES ASSUME TypeInv, [Next]_vars PROVE TypeInv'
    OBVIOUS
  <1> USE DEF TypeInv
  <1>t. Text \in Seq(Byte) /\ Len(Text) \in Nat /\ Current \in Nat /\ Current \in 1 .. Len(written)
    BY TextType
  <1>1. CASE WriteChar
    <2>1. PICK c \in Chars :
            written' = [written EXCEPT ![Current] = Append(@, [ch |-> c, file |-> Current])]
      BY <1>1 DEF WriteChar
    <2>2. [ch |-> c, file |-> Current] \in Byte
      BY DEF Byte, DiskInv
    <2> DEFINE x == Append(Text, [ch |-> c, file |-> Current])
    <2>3. x \in Seq(Byte)
      BY <1>t, <2>2, AppendProperties
    <2>4. written' = [written EXCEPT ![Current] = x]
      BY <2>1 DEF Text
    <2> HIDE DEF x
    <2>5. written' \in Seq(Seq(Byte)) /\ Len(written') = Len(written)
      BY <1>t, <2>3, <2>4 DEF DiskInv
    <2>6. DiskInv'
      BY <1>1, <2>5 DEF DiskInv, WriteChar, Current
    <2> QED BY <1>1, <2>6
         DEF WriteChar, WatchInv, ResultInv, StoredInv, CountInv, dbVars, watchVars
  <1>2. CASE Truncate
    <2>1. DiskInv'
      BY <1>2, <1>t, WatcherAssumption DEF Truncate, DiskInv, Current, Files
    <2> QED BY <1>2, <2>1
         DEF Truncate, WatchInv, ResultInv, StoredInv, CountInv, dbVars, watchVars
  <1>3. CASE RemoveFile
    <2>1. DiskInv'
      BY <1>3, <1>t DEF RemoveFile, DiskInv, Current
    <2> QED BY <1>3, <2>1
         DEF RemoveFile, WatchInv, ResultInv, StoredInv, CountInv, dbVars, watchVars
  <1>4. CASE CreateFile
    <2>1. written' \in Seq(Seq(Byte)) /\ Len(written') = Len(written) + 1
      BY <1>4, <1>t DEF CreateFile, DiskInv
    <2>2. Current < MaxFiles /\ inode' \in 1 .. Current + 1
      BY <1>4, <1>t DEF CreateFile, DiskInv
    <2>3. DiskInv'
      BY <1>t, <2>1, <2>2, WatcherAssumption DEF DiskInv, Current, Files, Inodes, NoInode
    <2> QED BY <1>4, <2>3
         DEF CreateFile, WatchInv, ResultInv, StoredInv, CountInv, dbVars, watchVars
  <1>5. CASE Kill
    <2>1. Stop("killed")
      BY <1>5 DEF Kill
    <2> QED BY <2>1, StopTypes
  <1>6. CASE Start
    <2>1. committed' \in Offset
      <3>1. CASE committed' = ResetOffset(0)
        BY <3>1, ResetType
      <3>2. CASE \E r \in LatestFor(inode) : committed' = r.at
        BY <3>2 DEF LatestFor, RowsFor, StoredInv
      <3> QED BY <1>6, <3>1, <3>2 DEF Start
    <2>2. WatchInv'
      BY <1>6, <2>1 DEF Start, WatchInv, DiskInv
    <2>3. CountInv'
      BY <1>6, WatcherAssumption DEF Start, CountInv
    <2>4. ResultInv'
      BY <1>6 DEF Start, ResultInv
    <2> QED BY <1>6, <2>2, <2>3, <2>4
         DEF Start, DiskInv, StoredInv, diskVars, dbVars, Current
  <1>7. CASE Poll
    <2> DEFINE from == PollFrom
               scan == Scan(from.partial, NewBytes(from))
    <2>1. /\ committed' = from
          /\ result' = [pending |-> TRUE,
                        lines |-> scan.lines,
                        bytesConsumed |-> Len(NewBytes(from)) - Len(scan.buf),
                        committed |->
                          [generation |-> from.generation,
                           offset |-> NextByteOffset(from.offset, from.partial,
                                                     NewBytes(from), scan.buf),
                           partial |-> scan.buf]]
          /\ identity'.inode \in {inode, identity.inode}
          /\ lastInode' = inode /\ seen' = Current /\ inode # NoInode /\ up
          /\ UNCHANGED <<diskVars, dbVars, up, starts, exit>>
      BY <1>7 DEF Poll
    <2>2. /\ from \in Offset /\ NewBytes(from) \in Seq(Byte) /\ scan \in Readers(Byte)
          /\ Len(scan.buf) \in 0 .. Len(from.partial) + Len(NewBytes(from))
      BY PollFromType
    <2> HIDE DEF from, scan
    <2>3. /\ scan.buf \in Seq(Byte) /\ scan.lines \in Seq(Seq(Byte))
          /\ Len(NewBytes(from)) \in Nat /\ Len(scan.buf) \in Nat
      BY <2>2 DEF Readers
    <2>4. NextByteOffset(from.offset, from.partial, NewBytes(from), scan.buf) \in Nat
      <3>1. from.offset \in Nat /\ Len(from.partial) \in Nat
        BY <2>2, OffsetIs
      <3> QED BY <2>2, <2>3, <3>1 DEF NextByteOffset
    <2>5. result'.committed \in Offset
      BY <2>1, <2>2, <2>3, <2>4, OffsetIs DEF Offset
    <2>6. ResultInv'
      BY <2>1, <2>3, <2>5 DEF ResultInv
    <2>7. WatchInv'
      BY <2>1, <2>2 DEF WatchInv, DiskInv
    <2>8. CountInv'
      BY <2>1, <1>t, WatcherAssumption DEF CountInv, DiskInv, Files
    <2> QED BY <2>1, <2>6, <2>7, <2>8 DEF DiskInv, StoredInv, diskVars, dbVars, Current
  <1>8. CASE PollFails
    <2>1. Stop("failure") \/ Stop("tooLong")
      BY <1>8 DEF PollFails
    <2> QED BY <2>1, StopTypes
  <1>9. CASE Persist
    <2>1. identity.inode \in Inodes /\ result.committed \in Offset
      BY <1>9 DEF Persist, ResultInv, WatchInv
    <2>2. \A r \in rows' : r \in rows \/ r = [inode |-> identity.inode, at |-> result.committed]
      BY <1>9 DEF Persist, dbVars
    <2>3. recorded' \in Seq(Seq(Byte))
      <3>1. recorded' = recorded \/ recorded' = recorded \o result.lines
        BY <1>9 DEF Persist, dbVars
      <3>2. recorded \in Seq(Seq(Byte)) /\ result.lines \in Seq(Seq(Byte))
        BY DEF StoredInv, ResultInv
      <3> QED BY <3>1, <3>2, ConcatProperties
    <2>4. StoredInv'
      BY <2>1, <2>2, <2>3 DEF StoredInv
    <2>5. ResultInv'
      BY <1>9, ResetType DEF Persist, ResultInv, NoResult
    <2>6. WatchInv'
      BY <1>9, <2>1 DEF Persist, WatchInv
    <2> QED BY <1>9, <2>4, <2>5, <2>6 DEF Persist, DiskInv, CountInv, diskVars, Current
  <1>10. CASE UNCHANGED vars
    BY <1>10 DEF vars, diskVars, dbVars, watchVars, DiskInv, WatchInv, ResultInv, StoredInv,
                 CountInv, Current
  <1> QED BY <1>1, <1>2, <1>3, <1>4, <1>5, <1>6, <1>7, <1>8, <1>9, <1>10
       DEF Next, Environment

LEMMA TypeAlways == Spec => []TypeInv
  <1> QED BY TypeInit, TypeNext, PTL DEF Spec

(* TypeOK holds however the files are written, cut, replaced and reused, and  *)
(* wherever the process is killed: what a poll hands back is an offset again  *)
(* (Watcher.Poll, GetFileState, UpsertFileState).                             *)
THEOREM TypeCorrect == Spec => []TypeOK
  <1>1. TypeInv => TypeOK
    BY DEF TypeInv, TypeOK, DiskInv, WatchInv, ResultInv, StoredInv, CountInv
  <1> QED BY <1>1, TypeAlways, PTL

-------------------------------------------------------------------------------
(* One file that grows.                                                       *)

Growing == ~Truncates /\ ~Rotates

OneFile == Len(written) = 1 /\ inode = 1

(* An offset of text t behind a complete line, with the tail t has there.     *)
Placed(t, o) ==
  /\ o.offset + Len(o.partial) <= Len(t)
  /\ AtEnd(t, o.offset)
  /\ o.partial = SubSeq(t, o.offset + 1, o.offset + Len(o.partial))

(* The lines of t before an offset.                                           *)
LinesTo(t, o) == LinesOf(Prefix(t, o.offset))

(* The row of the highest generation is the one whose offset covers them.     *)
RowsGrow ==
  /\ \A r \in rows : r.inode = 1 /\ Placed(Text, r.at)
  /\ \/ rows = {} /\ recorded = << >>
     \/ \E top \in rows :
          /\ \A r \in rows : r = top \/ r.at.generation < top.at.generation
          /\ recorded = LinesTo(Text, top.at)

(* The running watcher never leaves inode 1, follows from an offset that      *)
(* covers the record, and stores at or above every generation there is.       *)
WatchGrow ==
  /\ Placed(Text, committed)
  /\ lastInode \in {NoInode, 1}
  /\ up => /\ recorded = LinesTo(Text, committed)
           /\ \A r \in rows : r.at.generation <= committed.generation
           /\ identity.inode = 1

ResultGrow ==
  result.pending =>
    /\ Placed(Text, result.committed)
    /\ result.committed.generation = committed.generation
    /\ LinesTo(Text, result.committed) = recorded \o result.lines

GrowInv == OneFile /\ RowsGrow /\ WatchGrow /\ ResultGrow

LEMMA NoLines ==
  /\ LinesOf(<< >>) = << >>
  /\ \A t : LinesOf(Prefix(t, 0)) = << >>
  <1>1. LineEnds(<< >>) = {}
    BY DEF LineEnds
  <1>2. Cardinality(LineEnds(<< >>)) = 0
    BY <1>1, FS_EmptySet
  <1>3. << >> \in Seq({})
    OBVIOUS
  <1>4. LinesOf(<< >>) \in Seq(Seq({})) /\ Len(LinesOf(<< >>)) = 0
    BY <1>2, <1>3, LinesOfType
  <1>5. LinesOf(<< >>) = << >>
    BY <1>4, EmptySeq
  <1>6. \A t : Prefix(t, 0) = << >>
    BY SubSeqEmpty DEF Prefix
  <1> QED BY <1>5, <1>6

LEMMA PlacedAtStart == \A t, g : Len(t) \in Nat => Placed(t, ResetOffset(g))
  <1> SUFFICES ASSUME NEW t, NEW g, Len(t) \in Nat PROVE Placed(t, ResetOffset(g))
    OBVIOUS
  <1> DEFINE o == ResetOffset(g)
  <1>1. o.offset = 0 /\ o.partial = << >> /\ Len(o.partial) = 0
    BY DEF ResetOffset
  <1>2. SubSeq(t, 0 + 1, 0 + 0) = << >>
    BY SubSeqEmpty
  <1> HIDE DEF o
  <1>3. Placed(t, o)
    BY <1>1, <1>2 DEF Placed, AtEnd
  <1> QED BY <1>3 DEF o

(* What was placed in a text stays placed when a byte is written.             *)
LEMMA SubSeqOfLonger ==
  ASSUME NEW t, NEW u, Len(t) \in Nat, \A j \in 1 .. Len(t) : u[j] = t[j],
         NEW i \in Nat \ {0}, NEW k \in Nat, k <= Len(t)
  PROVE  SubSeq(u, i, k) = SubSeq(t, i, k)
  <1>1. \A j \in i .. k : u[j] = t[j]
    OBVIOUS
  <1> QED BY <1>1

LEMMA PlacedKept ==
  ASSUME NEW t \in Seq(Byte), NEW b \in Byte, NEW o \in Offset, Placed(t, o)
  PROVE  Placed(Append(t, b), o) /\ LinesTo(Append(t, b), o) = LinesTo(t, o)
  <1>1. /\ o.offset \in Nat /\ Len(o.partial) \in Nat /\ Len(t) \in Nat
        /\ o.offset <= Len(t) /\ o.offset + Len(o.partial) \in Nat
        /\ o.offset + Len(o.partial) <= Len(t)
    BY OffsetIs DEF Placed
  <1>2. PICK u : u = Append(t, b)
    OBVIOUS
  <1>3. Len(u) = Len(t) + 1 /\ \A j \in 1 .. Len(t) : u[j] = t[j]
    BY <1>2, AppendProperties
  <1>4. SubSeq(u, o.offset + 1, o.offset + Len(o.partial)) =
          SubSeq(t, o.offset + 1, o.offset + Len(o.partial))
    <2>1. PICK i \in Nat \ {0}, k \in Nat : i = o.offset + 1 /\ k = o.offset + Len(o.partial)
      BY <1>1
    <2>2. SubSeq(u, i, k) = SubSeq(t, i, k)
      <3>1. k <= Len(t)
        BY <1>1, <2>1
      <3> HIDE <1>1, <2>1
      <3> QED BY <1>3, <3>1, SubSeqOfLonger
    <2> QED BY <2>1, <2>2
  <1>5. Prefix(u, o.offset) = Prefix(t, o.offset)
    BY <1>1, <1>3, SubSeqOfLonger DEF Prefix
  <1>6. AtEnd(u, o.offset)
    BY <1>1, <1>3 DEF Placed, AtEnd
  <1>7. o.offset + Len(o.partial) <= Len(u)
    BY <1>1, <1>3
  <1>8. Placed(u, o) /\ LinesTo(u, o) = LinesTo(t, o)
    BY <1>4, <1>5, <1>6, <1>7 DEF Placed, LinesTo
  <1> QED BY <1>2, <1>8

LEMMA PlacedIs ==
  ASSUME NEW t \in Seq(Byte), NEW o \in Offset, Placed(t, o)
  PROVE  /\ o.offset \in 0 .. Len(t) /\ Len(t) \in Nat
         /\ o.offset + Len(o.partial) \in o.offset .. Len(t)
         /\ o.partial = SubSeq(t, o.offset + 1, o.offset + Len(o.partial))
         /\ AtEnd(t, o.offset)
  BY OffsetIs DEF Placed

-------------------------------------------------------------------------------
(* A poll.                                                                    *)

(* Where the offset is placed in the file at the path, and the file is the    *)
(* one that was followed, only one of which no line was read yet can be taken *)
(* for a replacement, when its head grew.                                     *)
LEMMA PollFromInSync ==
  ASSUME TypeInv, Placed(Text, committed), identity.inode = inode, lastInode \in {NoInode, inode}
  PROVE  /\ Placed(Text, PollFrom) /\ PollFrom \in Offset
         /\ LinesTo(Text, PollFrom) = LinesTo(Text, committed)
         /\ PollFrom.generation \in Nat /\ PollFrom.generation >= committed.generation
         /\ PollFrom = committed \/ PollFrom.offset = 0
  <1> USE DEF TypeInv
  <1>1. Text \in Seq(Byte) /\ Len(Text) \in Nat /\ committed \in Offset
    BY TextType DEF WatchInv
  <1>2. committed.offset \in 0 .. Len(Text) /\ committed.generation \in Nat
    BY <1>1, PlacedIs, OffsetIs
  <1>3. ~Truncated
    BY <1>1, <1>2 DEF Truncated
  <1>4. IsReplacement => committed.offset = 0
    <2>1. ~(Len(Text) < committed.offset)
      BY <1>1, <1>2
    <2>2. committed.offset > 0 \/ committed.offset = 0
      BY <1>2
    <2> QED BY <2>1, <2>2 DEF IsReplacement
  <1>5. CASE ~IsReplacement
    BY <1>1, <1>2, <1>3, <1>5 DEF PollFrom
  <1>6. CASE IsReplacement
    <2>1. PollFrom = ResetOffset(committed.generation + 1)
      BY <1>6 DEF PollFrom
    <2>2. /\ PollFrom.offset = 0 /\ committed.offset = 0
          /\ PollFrom.generation = committed.generation + 1
      BY <1>4, <1>6, <2>1 DEF ResetOffset
    <2>3. Placed(Text, PollFrom)
      BY <1>1, <2>1, PlacedAtStart
    <2>4. PollFrom \in Offset
      BY <1>2, <2>1, ResetType
    <2> QED BY <1>2, <2>2, <2>3, <2>4 DEF LinesTo
  <1> QED BY <1>5, <1>6

LEMMA PollReads ==
  ASSUME TypeInv, Poll, Placed(Text, PollFrom)
  PROVE  /\ committed' = PollFrom /\ result'.committed.generation = PollFrom.generation
         /\ Placed(Text, result'.committed)
         /\ LinesTo(Text, result'.committed) = LinesTo(Text, PollFrom) \o result'.lines
  <1> DEFINE from == PollFrom
             m    == from.offset + Len(from.partial)
             scan == Scan(from.partial, NewBytes(from))
             e    == Len(Text) - Len(scan.buf)
             next == result'.committed
  <1>1. /\ committed' = from /\ up /\ ~scan.failed
        /\ next = [generation |-> from.generation,
                   offset |-> NextByteOffset(from.offset, from.partial, NewBytes(from), scan.buf),
                   partial |-> scan.buf]
        /\ result'.lines = scan.lines
    BY DEF Poll
  <1>2. /\ Placed(Text, from) /\ from \in Offset
        /\ Text \in Seq(Byte) /\ Len(Text) \in Nat
    BY PollFromType, TextType DEF TypeInv
  <1>3. scan \in Readers(Byte)
    BY PollFromType DEF TypeInv
  <1> HIDE DEF from
  <1>4. /\ from.offset \in 0 .. Len(Text) /\ m \in from.offset .. Len(Text) /\ AtEnd(Text, from.offset)
        /\ from.partial = SubSeq(Text, from.offset + 1, m)
    BY <1>2, PlacedIs
  <1>5. NewBytes(from) = SubSeq(Text, m + 1, Len(Text)) /\ Len(NewBytes(from)) = Len(Text) - m
    <2>1. m \in Nat /\ m <= Len(Text)
      BY <1>2, <1>4
    <2>2. NewBytes(from) = SubSeq(Text, m + 1, Len(Text))
      BY DEF NewBytes
    <2> HIDE DEF m
    <2>3. m + 1 \in Int /\ Len(Text) \in Int /\ \A i \in m + 1 .. Len(Text) : Text[i] \in Byte
      BY <1>2, <2>1
    <2>4. Len(SubSeq(Text, m + 1, Len(Text))) =
            IF m + 1 <= Len(Text) THEN Len(Text) - (m + 1) + 1 ELSE 0
      BY <2>3, SubSeqProperties
    <2>5. Len(SubSeq(Text, m + 1, Len(Text))) = Len(Text) - m
      BY <1>2, <2>1, <2>4
    <2> QED BY <2>2, <2>5
  <1>6. /\ e \in from.offset .. Len(Text) /\ AtEnd(Text, e)
        /\ scan.buf = SubSeq(Text, e + 1, Len(Text))
        /\ LinesOf(Prefix(Text, e)) = LinesOf(Prefix(Text, from.offset)) \o scan.lines
    <2>1. scan = Scan(SubSeq(Text, from.offset + 1, m), SubSeq(Text, m + 1, Len(Text)))
      BY <1>4, <1>5
    <2> HIDE DEF m, scan
    <2> QED BY <1>1, <1>2, <1>4, <2>1, ScanReadsLines
  <1>7. Len(scan.buf) \in Nat
    BY <1>3 DEF Readers
  <1>8. NextByteOffset(from.offset, from.partial, NewBytes(from), scan.buf) = e
    <2>1. from.offset \in Nat /\ Len(from.partial) \in Nat
      BY <1>2, OffsetIs
    <2> HIDE DEF scan
    <2>2. NextByteOffset(from.offset, from.partial, NewBytes(from), scan.buf) =
            m + (Len(Text) - m) - Len(scan.buf)
      BY <1>5 DEF NextByteOffset
    <2>3. m \in Nat
      BY <2>1
    <2> HIDE DEF m
    <2> QED BY <1>2, <1>7, <2>2, <2>3
  <1> HIDE DEF scan, m
  <1>9. next.offset = e /\ next.partial = scan.buf /\ next.generation = from.generation
    BY <1>1, <1>8
  <1>10. e + Len(scan.buf) = Len(Text) /\ e \in Nat
    BY <1>2, <1>4, <1>6, <1>7
  <1> HIDE DEF e, next
  <1>11. Placed(Text, next)
    BY <1>2, <1>6, <1>9, <1>10 DEF Placed
  <1>12. LinesTo(Text, next) = LinesTo(Text, from) \o result'.lines
    BY <1>1, <1>6, <1>9 DEF LinesTo
  <1> QED BY <1>1, <1>9, <1>11, <1>12 DEF from, next

LEMMA PollGrows ==
  ASSUME TypeInv, GrowInv, Poll
  PROVE  /\ committed' = PollFrom /\ result'.committed.generation = PollFrom.generation
         /\ Placed(Text, result'.committed)
         /\ LinesTo(Text, result'.committed) = recorded \o result'.lines
         /\ Placed(Text, PollFrom) /\ LinesTo(Text, PollFrom) = recorded
         /\ PollFrom.generation \in Nat /\ PollFrom.generation >= committed.generation
  <1>1. up /\ inode = 1
    BY DEF Poll, GrowInv, OneFile
  <1>2. /\ Placed(Text, committed) /\ identity.inode = inode /\ lastInode \in {NoInode, inode}
        /\ recorded = LinesTo(Text, committed)
    BY <1>1 DEF GrowInv, WatchGrow
  <1>3. /\ Placed(Text, PollFrom) /\ LinesTo(Text, PollFrom) = recorded
        /\ PollFrom.generation \in Nat /\ PollFrom.generation >= committed.generation
    BY <1>2, PollFromInSync
  <1>4. /\ committed' = PollFrom /\ result'.committed.generation = PollFrom.generation
        /\ Placed(Text, result'.committed)
        /\ LinesTo(Text, result'.committed) = LinesTo(Text, PollFrom) \o result'.lines
    BY <1>3, PollReads
  <1> QED BY <1>3, <1>4

-------------------------------------------------------------------------------
(* The invariant, step by step.                                               *)

LEMMA GrowStop ==
  ASSUME TypeInv, GrowInv, NEW how, Stop(how)
  PROVE  GrowInv'
  <1> USE DEF Stop
  <1>1. Len(Text) \in Nat
    BY TextType DEF TypeInv
  <1>2. OneFile' /\ Text' = Text
    BY DEF GrowInv, OneFile, diskVars, Text, Current
  <1>3. RowsGrow'
    BY <1>2 DEF GrowInv, RowsGrow, dbVars
  <1>4. WatchGrow'
    BY <1>1, <1>2, PlacedAtStart DEF WatchGrow
  <1>5. ResultGrow'
    BY DEF ResultGrow, NoResult
  <1> QED BY <1>2, <1>3, <1>4, <1>5 DEF GrowInv

LEMMA GrowWrite ==
  ASSUME TypeInv, GrowInv, WriteChar
  PROVE  GrowInv' /\ \E b \in Byte : Text' = Append(Text, b)
  <1>1. /\ Text \in Seq(Byte) /\ Len(Text) \in Nat /\ Current \in 1 .. Len(written)
        /\ committed \in Offset /\ result.committed \in Offset /\ \A r \in rows : r.at \in Offset
    BY TextType DEF TypeInv, WatchInv, ResultInv, StoredInv
  <1>2. PICK c \in Chars :
          written' = [written EXCEPT ![Current] = Append(@, [ch |-> c, file |-> Current])]
    BY DEF WriteChar
  <1>3. PICK b \in Byte : b = [ch |-> c, file |-> Current]
    BY DEF Byte, TypeInv, DiskInv
  <1>4. Len(written') = Len(written) /\ written'[Current] = Append(Text, b)
    BY <1>1, <1>2, <1>3 DEF Text, TypeInv, DiskInv
  <1>5. OneFile' /\ Text' = Append(Text, b)
    BY <1>4 DEF WriteChar, GrowInv, OneFile, Text, Current
  <1>6. UNCHANGED <<rows, recorded, committed, identity, lastInode, up, result>>
    BY DEF WriteChar, dbVars, watchVars
  <1>7. \A o \in Offset : Placed(Text, o) => Placed(Text', o) /\ LinesTo(Text', o) = LinesTo(Text, o)
    BY <1>1, <1>5, PlacedKept
  <1>8. RowsGrow'
    BY <1>1, <1>6, <1>7 DEF GrowInv, RowsGrow
  <1>9. WatchGrow'
    BY <1>1, <1>6, <1>7 DEF GrowInv, WatchGrow
  <1>10. ResultGrow'
    BY <1>1, <1>6, <1>7 DEF GrowInv, ResultGrow
  <1> QED BY <1>5, <1>8, <1>9, <1>10 DEF GrowInv

(* What is loaded is the row of the highest generation, or nothing.           *)
LEMMA GrowStart ==
  ASSUME TypeInv, GrowInv, Start
  PROVE  GrowInv'
  <1>1. UNCHANGED <<written, inode, rows, recorded, lastInode, result>> /\ up'
    BY DEF Start, diskVars, dbVars
  <1>2. Text' = Text /\ OneFile' /\ Len(Text) \in Nat /\ inode = 1
    BY <1>1, TextType DEF Text, Current, OneFile, GrowInv, TypeInv
  <1>3. RowsGrow'
    BY <1>1, <1>2 DEF GrowInv, RowsGrow
  <1>4. ResultGrow'
    BY <1>1 DEF Start, ResultGrow, TypeInv, ResultInv
  <1>5. Placed(Text, committed') /\ recorded = LinesTo(Text, committed')
        /\ \A r \in rows : r.at.generation <= committed'.generation
    <2>1. RowsFor(inode) = rows
      BY <1>2 DEF RowsFor, RowsGrow, GrowInv
    <2>2. CASE rows = {}
      <3>1. committed' = ResetOffset(0)
        BY <2>1, <2>2 DEF Start, LatestFor
      <3>2. recorded = << >> /\ committed'.offset = 0
        BY <2>2, <3>1 DEF GrowInv, RowsGrow, ResetOffset
      <3>3. LinesTo(Text, committed') = << >>
        BY <3>2, NoLines DEF LinesTo
      <3> QED BY <1>2, <2>2, <3>1, <3>2, <3>3, PlacedAtStart
    <2>3. CASE rows # {}
      <3>1. PICK top \in rows :
              /\ \A r \in rows : r = top \/ r.at.generation < top.at.generation
              /\ recorded = LinesTo(Text, top.at)
        BY <2>3 DEF GrowInv, RowsGrow
      <3>2. PICK r \in rows : committed' = r.at /\ \A q \in rows : q.at.generation <= r.at.generation
        BY <2>1, <2>3 DEF Start, LatestFor
      <3>3. top.at.generation \in Nat /\ r.at.generation \in Nat
        BY OffsetIs DEF TypeInv, StoredInv
      <3>4. r = top
        BY <3>1, <3>2, <3>3
      <3> QED BY <3>1, <3>2, <3>4 DEF GrowInv, RowsGrow
    <2> QED BY <2>2, <2>3
  <1>6. identity'.inode = 1 /\ lastInode' \in {NoInode, 1}
    <2>1. lastInode \in {NoInode, 1}
      BY DEF GrowInv, WatchGrow
    <2> QED BY <1>1, <1>2, <2>1 DEF Start
  <1>7. WatchGrow'
    BY <1>1, <1>2, <1>5, <1>6 DEF WatchGrow
  <1> QED BY <1>2, <1>3, <1>4, <1>7 DEF GrowInv

LEMMA GrowPoll ==
  ASSUME TypeInv, GrowInv, Poll
  PROVE  GrowInv'
  <1>1. /\ UNCHANGED <<written, inode, rows, recorded, up>> /\ up /\ lastInode' = inode
        /\ identity'.inode \in {inode, identity.inode}
    BY DEF Poll, diskVars, dbVars
  <1>2. Text' = Text /\ OneFile' /\ inode = 1
    BY <1>1 DEF Text, Current, OneFile, GrowInv
  <1>3. /\ committed' = PollFrom /\ result'.committed.generation = PollFrom.generation
        /\ Placed(Text, result'.committed)
        /\ LinesTo(Text, result'.committed) = recorded \o result'.lines
    BY PollGrows
  <1>4. /\ Placed(Text, PollFrom) /\ LinesTo(Text, PollFrom) = recorded
        /\ PollFrom.generation \in Nat /\ PollFrom.generation >= committed.generation
    BY PollGrows
  <1>5. RowsGrow'
    BY <1>1, <1>2 DEF GrowInv, RowsGrow
  <1>6. \A r \in rows : r.at.generation <= PollFrom.generation
    <2>1. committed.generation \in Nat /\ \A r \in rows : r.at.generation \in Nat
      BY OffsetIs DEF TypeInv, StoredInv, WatchInv
    <2>2. \A r \in rows : r.at.generation <= committed.generation
      BY <1>1 DEF GrowInv, WatchGrow
    <2> QED BY <1>4, <2>1, <2>2
  <1>7. identity'.inode = 1
    BY <1>1, <1>2 DEF GrowInv, WatchGrow
  <1>8. WatchGrow'
    BY <1>1, <1>2, <1>3, <1>4, <1>6, <1>7 DEF WatchGrow
  <1>9. ResultGrow'
    BY <1>1, <1>2, <1>3 DEF ResultGrow
  <1> QED BY <1>2, <1>5, <1>8, <1>9 DEF GrowInv

LEMMA GrowPersist ==
  ASSUME TypeInv, GrowInv, Persist
  PROVE  GrowInv' /\ Text' = Text
         /\ (recorded' = recorded \/ recorded' = LinesTo(Text, result.committed))
  <1> DEFINE new == [inode |-> identity.inode, at |-> result.committed]
             key(r) == r.inode = identity.inode
                       /\ r.at.generation = result.committed.generation
  <1>1. /\ UNCHANGED <<written, inode, identity, lastInode, up>> /\ up
        /\ committed' = result.committed /\ result' = NoResult /\ result.pending
    BY DEF Persist, diskVars, TypeInv, ResultInv
  <1>2. Text' = Text /\ OneFile'
    BY <1>1 DEF Text, Current, OneFile, GrowInv
  <1>3. /\ Placed(Text, result.committed)
        /\ result.committed.generation = committed.generation
        /\ LinesTo(Text, result.committed) = recorded \o result.lines
    BY <1>1 DEF GrowInv, ResultGrow
  <1>4. identity.inode = 1 /\ \A r \in rows : r.inode = 1 /\ Placed(Text, r.at)
    BY <1>1 DEF GrowInv, WatchGrow, RowsGrow
  <1>5. ResultGrow'
    BY <1>1 DEF ResultGrow, NoResult
  <1>6. CASE NothingRead /\ UNCHANGED dbVars
    <2>1. rows' = rows /\ recorded' = recorded /\ result.lines = << >>
      BY <1>6 DEF dbVars, NothingRead
    <2>2. recorded \o << >> = recorded
      BY ConcatEmptySeq DEF TypeInv, StoredInv
    <2>3. RowsGrow'
      BY <1>2, <2>1 DEF GrowInv, RowsGrow
    <2>4. WatchGrow'
      BY <1>1, <1>2, <1>3, <2>1, <2>2 DEF GrowInv, WatchGrow
    <2> QED BY <1>2, <1>5, <2>1, <2>3, <2>4 DEF GrowInv
  <1>7. CASE /\ rows' = {r \in rows : ~key(r)} \union {new}
             /\ recorded' = recorded \o result.lines
    <2>1. \A r \in rows' : r = new \/ (r \in rows /\ ~key(r))
      BY <1>7
    <2>2. new \in rows' /\ new.at = result.committed /\ new.inode = 1
      BY <1>4, <1>7
    <2>3. \A r \in rows : ~key(r) => r.at.generation < new.at.generation
      <3>1. committed.generation \in Nat /\ \A r \in rows : r.at.generation \in Nat
        BY OffsetIs DEF TypeInv, StoredInv, WatchInv
      <3>2. \A r \in rows : r.at.generation <= committed.generation
        BY <1>1 DEF GrowInv, WatchGrow
      <3> QED BY <1>3, <1>4, <2>2, <3>1, <3>2
    <2>4. recorded' = LinesTo(Text, result.committed)
      BY <1>3, <1>7
    <2> HIDE DEF new, key
    <2>5. RowsGrow'
      BY <1>2, <1>3, <1>4, <2>1, <2>2, <2>3, <2>4 DEF RowsGrow
    <2>6. \A r \in rows' : r.at.generation <= committed'.generation
      <3>1. result.committed.generation \in Nat /\ \A r \in rows : r.at.generation \in Nat
        BY OffsetIs DEF TypeInv, StoredInv, ResultInv
      <3> QED BY <1>1, <2>1, <2>2, <2>3, <3>1
    <2>7. WatchGrow'
      BY <1>1, <1>2, <1>3, <2>4, <2>6 DEF GrowInv, WatchGrow
    <2> QED BY <1>2, <1>5, <2>4, <2>5, <2>7 DEF GrowInv
  <1>8. \/ NothingRead /\ UNCHANGED dbVars
        \/ /\ rows' = {r \in rows : ~key(r)} \union {new}
           /\ recorded' = recorded \o result.lines
    BY DEF Persist
  <1> QED BY <1>2, <1>6, <1>7, <1>8

LEMMA GrowInit == Init => GrowInv
  <1> SUFFICES ASSUME Init PROVE GrowInv
    OBVIOUS
  <1> USE DEF Init
  <1>1. OneFile /\ Text = << >> /\ Len(Text) \in Nat
    BY DEF OneFile, Text, Current
  <1>2. Placed(Text, committed)
    BY <1>1, PlacedAtStart
  <1> QED BY <1>1, <1>2 DEF GrowInv, RowsGrow, WatchGrow, ResultGrow, NoResult

LEMMA GrowNext ==
  ASSUME Growing, TypeInv, GrowInv, [Next]_vars
  PROVE  GrowInv'
  <1>1. CASE WriteChar
    BY <1>1, GrowWrite
  <1>2. CASE Truncate \/ RemoveFile \/ CreateFile
    BY <1>2 DEF Truncate, RemoveFile, CreateFile, Growing, GrowInv, OneFile, NoInode
  <1>3. CASE Kill \/ PollFails
    <2>1. \E how : Stop(how)
      BY <1>3 DEF Kill, PollFails
    <2> QED BY <2>1, GrowStop
  <1>4. CASE Start
    BY <1>4, GrowStart
  <1>5. CASE Poll
    BY <1>5, GrowPoll
  <1>6. CASE Persist
    BY <1>6, GrowPersist
  <1>7. CASE UNCHANGED vars
    BY <1>7 DEF vars, diskVars, dbVars, watchVars, GrowInv, OneFile, RowsGrow, WatchGrow,
                ResultGrow, Text, Current
  <1> QED BY <1>1, <1>2, <1>3, <1>4, <1>5, <1>6, <1>7 DEF Next, Environment

LEMMA GrowAlways == Growing => (Spec => [](TypeInv /\ GrowInv))
  <1> SUFFICES ASSUME Growing PROVE Spec => [](TypeInv /\ GrowInv)
    OBVIOUS
  <1>1. Init => TypeInv /\ GrowInv
    BY TypeInit, GrowInit
  <1>2. TypeInv /\ GrowInv /\ [Next]_vars => (TypeInv /\ GrowInv)'
    BY TypeNext, GrowNext
  <1> QED BY <1>1, <1>2, PTL DEF Spec

-------------------------------------------------------------------------------
(* What follows.                                                              *)

(* While one file only grows: whatever tail a poll, a crash or a restart      *)
(* leaves behind, the offset that is stored or followed is behind a complete  *)
(* line and the tail kept with it is what the file has there, also when the   *)
(* growing head makes the watcher begin again (Watcher.Poll, isReplacement).  *)
THEOREM OffsetsBehindLines == Growing => (Spec => []OffsetsAtLineEnds)
  <1>1. TypeInv /\ GrowInv => OffsetsAtLineEnds
    <2> SUFFICES ASSUME TypeInv, GrowInv PROVE OffsetsAtLineEnds
      OBVIOUS
    <2>1. Text \in Seq(Byte) /\ committed \in Offset /\ \A r \in rows : r.at \in Offset
      BY TextType DEF TypeInv, WatchInv, StoredInv
    <2>2. \A o \in Offset : Placed(Text, o) => AtLineEnd(o)
      <3> SUFFICES ASSUME NEW o \in Offset, Placed(Text, o) PROVE AtLineEnd(o)
        OBVIOUS
      <3> QED BY <2>1, PlacedIs DEF AtLineEnd, AtEnd
    <2> QED BY <2>1, <2>2 DEF OffsetsAtLineEnds, GrowInv, WatchGrow, RowsGrow
  <1> QED BY <1>1, GrowAlways, PTL

(* ... and the row of the highest generation, the one a restart loads, covers *)
(* exactly the lines on record: none is recorded twice after a restart, none  *)
(* is passed over (persistPoll, GetFileState).                                *)
THEOREM RecordedAreBeforeOffset == Growing => (Spec => []OffsetCoversRecorded)
  <1>1. TypeInv /\ GrowInv => OffsetCoversRecorded
    <2> SUFFICES ASSUME TypeInv, GrowInv PROVE OffsetCoversRecorded
      OBVIOUS
    <2>1. inode = 1 /\ \A r \in rows : r.inode = 1
      BY DEF GrowInv, OneFile, RowsGrow
    <2>2. CASE rows = {}
      <3>1. recorded = LinesOf(SubSeq(Text, 1, 0))
        BY <2>2, NoLines DEF GrowInv, RowsGrow, Prefix
      <3> QED BY <2>2, <3>1 DEF OffsetCoversRecorded
    <2>3. CASE rows # {}
      <3>1. PICK top \in rows :
              /\ \A r \in rows : r = top \/ r.at.generation < top.at.generation
              /\ recorded = LinesTo(Text, top.at)
        BY <2>3 DEF GrowInv, RowsGrow
      <3>2. \A r \in rows : r.at.generation \in Nat /\ r.at.offset \in Nat
        BY OffsetIs DEF TypeInv, StoredInv
      <3>3. LatestFor(inode) = {top}
        <4>1. top \in LatestFor(inode)
          BY <2>1, <3>1, <3>2 DEF LatestFor, RowsFor
        <4>2. \A r \in LatestFor(inode) : r \in rows /\ top.at.generation <= r.at.generation
          BY <2>1 DEF LatestFor, RowsFor
        <4> QED BY <3>1, <3>2, <4>1, <4>2
      <3>4. {r.at.offset : r \in LatestFor(inode)} = {top.at.offset}
        BY <3>3
      <3>5. Max({top.at.offset}) = top.at.offset
        <4>1. PICK k \in Nat : k = top.at.offset
          BY <3>2
        <4>2. Max({k}) = k
          BY MaxIs
        <4> QED BY <4>1, <4>2
      <3>6. recorded = LinesOf(SubSeq(Text, 1, top.at.offset))
        BY <3>1 DEF LinesTo, Prefix
      <3> QED BY <2>3, <3>4, <3>5, <3>6 DEF OffsetCoversRecorded
    <2> QED BY <2>2, <2>3
  <1> QED BY <1>1, GrowAlways, PTL

(* A persisted poll takes over the next lines of the text, at least one if    *)
(* any.                                                                       *)
LEMMA PersistRecords ==
  ASSUME TypeInv, GrowInv, Persist
  PROVE  Feed!Record \/ UNCHANGED Feed!feedVars
  <1> DEFINE n == Len(LinesTo(Text, result.committed))
             all == LinesOf(Text)
  <1>1. Text' = Text /\ (recorded' = recorded \/ recorded' = LinesTo(Text, result.committed))
    BY GrowPersist
  <1>2. /\ Text \in Seq(Byte) /\ result.committed \in Offset /\ Placed(Text, result.committed)
        /\ LinesTo(Text, result.committed) = recorded \o result.lines
        /\ recorded \in Seq(Seq(Byte)) /\ result.lines \in Seq(Seq(Byte))
    BY TextType DEF Persist, TypeInv, ResultInv, StoredInv, GrowInv, ResultGrow
  <1>3. result.committed.offset \in 0 .. Len(Text) /\ Len(Text) \in result.committed.offset .. Len(Text)
        /\ Len(Text) \in Nat
    BY <1>2, PlacedIs
  <1>4. Prefix(Text, Len(Text)) = Text
    BY <1>2, SubSeqFull DEF Prefix
  <1>5. n <= Len(all) /\ LinesTo(Text, result.committed) = SubSeq(all, 1, n)
    <2>1. PICK k \in 0 .. Len(Text) : k = result.committed.offset
      BY <1>3
    <2>2. Len(Text) \in k .. Len(Text)
      BY <1>3, <2>1
    <2>3. /\ Len(LinesOf(Prefix(Text, k))) <= Len(LinesOf(Prefix(Text, Len(Text))))
          /\ LinesOf(Prefix(Text, k)) =
               SubSeq(LinesOf(Prefix(Text, Len(Text))), 1, Len(LinesOf(Prefix(Text, k))))
      BY <1>2, <2>2, LinesPrefix
    <2> QED BY <1>4, <2>1, <2>3 DEF LinesTo
  <1>6. n = Len(recorded) + Len(result.lines) /\ Len(recorded) \in Nat /\ Len(result.lines) \in Nat
    BY <1>2, ConcatProperties
  <1>7. Len(all) \in Nat
    BY <1>2, LinesOfType
  <1>8. CASE recorded' = recorded
    BY <1>1, <1>8 DEF Feed!feedVars
  <1>9. CASE recorded' = LinesTo(Text, result.committed) /\ result.lines = << >>
    <2>1. recorded' = recorded
      BY <1>2, <1>9, ConcatEmptySeq
    <2> QED BY <1>1, <2>1 DEF Feed!feedVars
  <1>10. CASE recorded' = LinesTo(Text, result.committed) /\ result.lines # << >>
    <2>1. Len(result.lines) # 0
      BY <1>2, <1>10, EmptySeq
    <2> HIDE DEF n, all
    <2>2. n \in Len(recorded) + 1 .. Len(all)
      BY <1>5, <1>6, <1>7, <2>1
    <2>3. recorded' = SubSeq(all, 1, n)
      BY <1>5, <1>10
    <2> QED BY <1>1, <2>2, <2>3 DEF Feed!Record, all
  <1> QED BY <1>1, <1>8, <1>9, <1>10

LEMMA WriteGrows ==
  ASSUME TypeInv, GrowInv, WriteChar
  PROVE  Feed!Grow \/ UNCHANGED Feed!feedVars
  <1>1. PICK b \in Byte : Text' = Append(Text, b)
    BY GrowWrite
  <1>2. Text \in Seq(Byte) /\ recorded' = recorded
    BY TextType DEF WriteChar, dbVars, TypeInv
  <1>3. LinesOf(Text) \in Seq(Seq(Byte))
    BY <1>2, LinesOfType
  <1>4. CASE b.ch # LF
    <2>1. LinesOf(Text') = LinesOf(Text)
      BY <1>1, <1>2, <1>4, LinesOfAppend
    <2> QED BY <1>2, <2>1 DEF Feed!feedVars
  <1>5. CASE b.ch = LF
    <2>1. PICK x : LinesOf(Text') = Append(LinesOf(Text), x)
      BY <1>1, <1>2, <1>5, LinesOfAppend
    <2>2. PICK u \in Seq(Seq(Byte)) : u = LinesOf(Text)
      BY <1>3
    <2>3. /\ Len(Append(u, x)) = Len(u) + 1 /\ Len(u) \in Nat
          /\ \A i \in 1 .. Len(u) : Append(u, x)[i] = u[i]
      OBVIOUS
    <2>4. SubSeq(u, 1, Len(u)) = SubSeq(Append(u, x), 1, Len(u))
      BY <2>3
    <2>5. Len(u) <= Len(Append(u, x)) /\ u # Append(u, x)
      BY <2>3
    <2> QED BY <1>2, <2>1, <2>2, <2>4, <2>5
         DEF Feed!Grow, Feed!IsStrictPrefix, Feed!IsPrefix
  <1> QED BY <1>4, <1>5

LEMMA FeedStep ==
  ASSUME Growing, TypeInv, GrowInv, [Next]_vars
  PROVE  Feed!Grow \/ Feed!Record \/ UNCHANGED Feed!feedVars
  <1>1. CASE WriteChar
    BY <1>1, WriteGrows
  <1>2. CASE Truncate \/ RemoveFile \/ CreateFile
    BY <1>2 DEF Truncate, RemoveFile, CreateFile, Growing, GrowInv, OneFile, NoInode
  <1>3. CASE Kill \/ PollFails \/ Start \/ Poll \/ UNCHANGED vars
    <2>1. written' = written /\ recorded' = recorded
      BY <1>3 DEF Kill, PollFails, Stop, Start, Poll, vars, diskVars, dbVars
    <2> QED BY <2>1 DEF Feed!feedVars, Text, Current
  <1>4. CASE Persist
    BY <1>4, PersistRecords
  <1> QED BY <1>1, <1>2, <1>3, <1>4 DEF Next, Environment

(* Following one growing file through polls, kills and restarts implements    *)
(* the feed: the record is always a beginning of the lines the game wrote,    *)
(* and a step adds the next of them, each once and whole.                     *)
THEOREM WatcherImplementsFeed == Growing => (Spec => FeedSafety)
  <1> SUFFICES ASSUME Growing PROVE Spec => FeedSafety
    OBVIOUS
  <1>1. Init => Feed!FeedInit
    BY NoLines DEF Init, Feed!FeedInit, Text, Current
  <1>2. Spec => [](TypeInv /\ GrowInv)
    BY GrowAlways
  <1>3. TypeInv /\ GrowInv /\ [Next]_vars => [Feed!Grow \/ Feed!Record]_(Feed!feedVars)
    BY FeedStep
  <1> QED BY <1>1, <1>2, <1>3, PTL DEF Spec, FeedSafety, Feed!FeedSafety



-------------------------------------------------------------------------------
(* The lines of one file among those of several.                              *)

(* What of the first n lines ends in file i.                                  *)
IsTaken(taken, i, lines, n) ==
  taken = [k \in 0 .. n |->
             IF k = 0 THEN << >>
             ELSE IF Last(lines[k]).file = i THEN Append(taken[k - 1], lines[k])
             ELSE taken[k - 1]]

LEMMA TakenExists ==
  ASSUME NEW i, NEW lines
  PROVE  \A n \in Nat : \E taken : IsTaken(taken, i, lines, n)
  <1> DEFINE S == {n \in Nat : \E taken : IsTaken(taken, i, lines, n)}
             next(g, k) == IF Last(lines[k]).file = i THEN Append(g, lines[k]) ELSE g
  <1>1. 0 \in S
    <2>1. IsTaken([k \in 0 .. 0 |-> << >>], i, lines, 0)
      BY DEF IsTaken
    <2> QED BY <2>1
  <1>2. ASSUME NEW n \in Nat, n \in S PROVE n + 1 \in S
    <2>1. PICK g : IsTaken(g, i, lines, n)
      BY <1>2
    <2> DEFINE h == [k \in 0 .. n + 1 |-> IF k = n + 1 THEN next(g[n], n + 1) ELSE g[k]]
               body(f, k) == IF k = 0 THEN << >> ELSE next(f[k - 1], k)
    <2>2. \A k \in 0 .. n : g[k] = body(g, k)
      BY <2>1 DEF IsTaken
    <2> HIDE DEF next
    <2>3. \A k \in 0 .. n + 1 : h[k] = body(h, k)
      BY <2>2
    <2>4. h = [k \in 0 .. n + 1 |-> body(h, k)]
      <3>1. h = [k \in 0 .. n + 1 |-> h[k]]
        OBVIOUS
      <3> HIDE DEF h, body
      <3> QED BY <2>3, <3>1
    <2> HIDE DEF h
    <2>5. IsTaken(h, i, lines, n + 1)
      BY <2>4 DEF IsTaken, next
    <2> QED BY <2>5
  <1> HIDE DEF S
  <1>3. Nat \subseteq S
    BY <1>1, <1>2, Induction
  <1> QED BY <1>3 DEF S

LEMMA LinesFromUnfold ==
  ASSUME NEW i, NEW lines, Len(lines) \in Nat
  PROVE  \E taken : /\ LinesFrom(i, lines) = taken[Len(lines)]
                    /\ taken[0] = << >>
                    /\ \A k \in 1 .. Len(lines) :
                         taken[k] = IF Last(lines[k]).file = i THEN Append(taken[k - 1], lines[k])
                                    ELSE taken[k - 1]
  <1> DEFINE w == CHOOSE g : IsTaken(g, i, lines, Len(lines))
  <1>1. IsTaken(w, i, lines, Len(lines))
    BY TakenExists
  <1>2. w[Len(lines)] = LinesFrom(i, lines)
    BY DEF LinesFrom, IsTaken
  <1> HIDE DEF w
  <1>3. /\ w[0] = << >>
        /\ \A k \in 1 .. Len(lines) :
             w[k] = IF Last(lines[k]).file = i THEN Append(w[k - 1], lines[k]) ELSE w[k - 1]
    <2> DEFINE body(k) == IF k = 0 THEN << >>
                          ELSE IF Last(lines[k]).file = i THEN Append(w[k - 1], lines[k])
                          ELSE w[k - 1]
    <2>1. w = [k \in 0 .. Len(lines) |-> body(k)]
      BY <1>1 DEF IsTaken
    <2> HIDE DEF body
    <2>2. \A k \in 0 .. Len(lines) : w[k] = body(k)
      BY <2>1
    <2>3. 0 \in 0 .. Len(lines) /\ \A k \in 1 .. Len(lines) : k \in 0 .. Len(lines) /\ k # 0
      OBVIOUS
    <2> QED BY <2>2, <2>3 DEF body
  <1> QED BY <1>2, <1>3

LEMMA LinesFromNone == \A i : LinesFrom(i, << >>) = << >>
  <1> SUFFICES ASSUME NEW i PROVE LinesFrom(i, << >>) = << >>
    OBVIOUS
  <1>1. Len(<< >>) = 0
    OBVIOUS
  <1> QED BY <1>1, LinesFromUnfold

LEMMA LinesFromType ==
  ASSUME NEW T, NEW lines \in Seq(T), NEW i
  PROVE  LinesFrom(i, lines) \in Seq(T)
  <1>1. Len(lines) \in Nat
    BY LenProperties
  <1>2. PICK f : /\ LinesFrom(i, lines) = f[Len(lines)] /\ f[0] = << >>
                 /\ \A k \in 1 .. Len(lines) :
                      f[k] = IF Last(lines[k]).file = i THEN Append(f[k - 1], lines[k]) ELSE f[k - 1]
    BY <1>1, LinesFromUnfold
  <1> DEFINE S == {k \in Nat : k <= Len(lines) => f[k] \in Seq(T)}
  <1>3. 0 \in S
    <2>1. << >> \in Seq(T)
      BY EmptySeq
    <2> QED BY <1>2, <2>1
  <1>4. ASSUME NEW k \in Nat, k \in S PROVE k + 1 \in S
    <2> SUFFICES ASSUME k + 1 <= Len(lines) PROVE f[k + 1] \in Seq(T)
      OBVIOUS
    <2>1. k + 1 \in 1 .. Len(lines) /\ (k + 1) - 1 = k /\ f[k] \in Seq(T)
      BY <1>1, <1>4
    <2>2. lines[k + 1] \in T
      BY <2>1
    <2>3. f[k + 1] = Append(f[k], lines[k + 1]) \/ f[k + 1] = f[k]
      BY <1>2, <2>1
    <2>4. Append(f[k], lines[k + 1]) \in Seq(T)
      BY <2>1, <2>2
    <2> QED BY <2>1, <2>3, <2>4
  <1> HIDE DEF S
  <1>5. Len(lines) \in S
    BY <1>1, <1>3, <1>4, Induction
  <1> QED BY <1>1, <1>2, <1>5 DEF S

AppendedBehind(a, b, c) == Append(a \o b, c) = a \o Append(b, c)

LEMMA ConcatAppend ==
  ASSUME NEW T, NEW a \in Seq(T), NEW b \in Seq(T), NEW c \in T
  PROVE  AppendedBehind(a, b, c)
  <1>1. PICK w \in Seq(T) : w = << c >>
    <2>1. << c >> \in Seq(T)
      OBVIOUS
    <2> QED BY <2>1, Zenon
  <1>2. a \o b \in Seq(T)
    BY ConcatProperties
  <1>3. Append(a \o b, c) = (a \o b) \o w /\ Append(b, c) = b \o w
    BY <1>1, <1>2, AppendIsConcat
  <1>4. (a \o b) \o w = a \o (b \o w)
    BY ConcatAssociative
  <1>5. Append(a \o b, c) = a \o Append(b, c)
    BY <1>3, <1>4, Zenon
  <1> QED BY <1>5 DEF AppendedBehind

AddedBehind(i, j, s, t) ==
  LinesFrom(i, s \o t) = IF i = j THEN LinesFrom(i, s) \o t ELSE LinesFrom(i, s)

(* Lines added behind the others are taken if they are of that file.          *)
LEMMA LinesFromConcat ==
  ASSUME NEW T, NEW s \in Seq(T), NEW t \in Seq(T), NEW i, NEW j,
         \A k \in 1 .. Len(t) : Last(t[k]).file = j
  PROVE  AddedBehind(i, j, s, t)
  <1> DEFINE u == s \o t
             N == Len(s)
  <1>1. /\ N \in Nat /\ Len(t) \in Nat /\ u \in Seq(T) /\ Len(u) = N + Len(t)
        /\ \A k \in 1 .. N : u[k] = s[k]
        /\ \A k \in 1 .. Len(t) : u[N + k] = t[k]
    <2>1. /\ u \in Seq(T) /\ Len(u) = N + Len(t)
          /\ \A k \in 1 .. N + Len(t) : u[k] = IF k <= N THEN s[k] ELSE t[k - N]
      BY ConcatProperties
    <2>2. N \in Nat /\ Len(t) \in Nat
      BY LenProperties
    <2> HIDE DEF u, N
    <2>3. \A k \in 1 .. Len(t) : N + k \in 1 .. N + Len(t) /\ ~(N + k <= N) /\ (N + k) - N = k
      BY <2>2
    <2> QED BY <2>1, <2>2, <2>3
  <1> HIDE DEF u
  <1>2. PICK f : /\ LinesFrom(i, s) = f[N] /\ f[0] = << >>
                 /\ \A k \in 1 .. N :
                      f[k] = IF Last(s[k]).file = i THEN Append(f[k - 1], s[k]) ELSE f[k - 1]
    <2>1. Len(s) \in Nat
      BY <1>1
    <2> QED BY <2>1, LinesFromUnfold
  <1>3. PICK g : /\ LinesFrom(i, u) = g[Len(u)] /\ g[0] = << >>
                 /\ \A k \in 1 .. Len(u) :
                      g[k] = IF Last(u[k]).file = i THEN Append(g[k - 1], u[k]) ELSE g[k - 1]
    <2>1. Len(u) \in Nat
      BY <1>1, LenProperties
    <2> QED BY <2>1, LinesFromUnfold
  <1> HIDE DEF N
  <1>4. g[N] = f[N]
    <2> DEFINE S == {k \in Nat : k <= N => g[k] = f[k]}
    <2>1. 0 \in S
      BY <1>2, <1>3
    <2>2. ASSUME NEW k \in Nat, k \in S PROVE k + 1 \in S
      <3> SUFFICES ASSUME k + 1 <= N PROVE g[k + 1] = f[k + 1]
        OBVIOUS
      <3>1. /\ k + 1 \in 1 .. N /\ k + 1 \in 1 .. Len(u) /\ (k + 1) - 1 = k /\ g[k] = f[k]
        BY <1>1, <2>2
      <3> QED BY <1>1, <1>2, <1>3, <3>1
    <2> HIDE DEF S
    <2>3. N \in S
      BY <1>1, <2>1, <2>2, Induction
    <2> QED BY <1>1, <2>3 DEF S
  <1>5. f[N] \in Seq(T)
    BY <1>2, LinesFromType
  <1>6. CASE i # j
    <2> DEFINE S == {k \in Nat : k <= Len(t) => g[N + k] = f[N]}
    <2>1. 0 \in S
      BY <1>1, <1>4
    <2>2. ASSUME NEW k \in Nat, k \in S PROVE k + 1 \in S
      <3> SUFFICES ASSUME k + 1 <= Len(t) PROVE g[N + (k + 1)] = f[N]
        OBVIOUS
      <3>1. /\ k + 1 \in 1 .. Len(t) /\ N + (k + 1) \in 1 .. Len(u) /\ (N + (k + 1)) - 1 = N + k
            /\ g[N + k] = f[N]
        BY <1>1, <2>2
      <3>2. Last(u[N + (k + 1)]).file # i
        BY <1>1, <1>6, <3>1
      <3> QED BY <1>3, <3>1, <3>2
    <2> HIDE DEF S
    <2>3. Len(t) \in S
      BY <1>1, <2>1, <2>2, Induction
    <2>4. g[Len(u)] = f[N]
      BY <1>1, <2>3 DEF S
    <2> QED BY <1>2, <1>3, <1>6, <2>4 DEF u, AddedBehind
  <1>7. CASE i = j
    <2> DEFINE is(k) == k <= Len(t) => g[N + k] = f[N] \o Prefix(t, k)
               S == {k \in Nat : is(k)}
    <2>1. 0 \in S
      <3>1. f[N] \o << >> = f[N]
        BY <1>5, ConcatEmptySeq
      <3>2. Prefix(t, 0) = << >>
        BY SubSeqEmpty DEF Prefix
      <3>3. N + 0 = N
        BY <1>1
      <3>4. is(0)
        BY <1>4, <3>1, <3>2, <3>3
      <3> HIDE DEF is
      <3> QED BY <3>4
    <2>2. ASSUME NEW k \in Nat, k \in S PROVE k + 1 \in S
      <3> SUFFICES is(k + 1)
        <4> HIDE DEF is
        <4> QED OBVIOUS
      <3> SUFFICES ASSUME k + 1 <= Len(t) PROVE g[N + (k + 1)] = f[N] \o Prefix(t, k + 1)
        OBVIOUS
      <3>1. is(k)
        <4> HIDE DEF is
        <4> QED BY <2>2
      <3>2. /\ k + 1 \in 1 .. Len(t) /\ N + (k + 1) \in 1 .. Len(u) /\ (N + (k + 1)) - 1 = N + k
            /\ k \in 0 .. Len(t) - 1 /\ k \in 0 .. Len(t)
            /\ g[N + k] = f[N] \o Prefix(t, k)
        BY <1>1, <3>1
      <3>3. Last(u[N + (k + 1)]).file = i /\ u[N + (k + 1)] = t[k + 1]
        BY <1>1, <1>7, <3>2
      <3>4. g[N + (k + 1)] = Append(g[N + k], t[k + 1])
        BY <1>3, <3>2, <3>3
      <3>5. Prefix(t, k) \in Seq(T) /\ t[k + 1] \in T
            /\ Prefix(t, k + 1) = Append(Prefix(t, k), t[k + 1])
        BY <3>2, PrefixIs, PrefixNext
      <3>6. PICK a \in Seq(T), b \in Seq(T), c \in T :
              a = f[N] /\ b = Prefix(t, k) /\ c = t[k + 1]
        BY <1>5, <3>5
      <3>7. Append(a \o b, c) = a \o Append(b, c)
        <4>1. AppendedBehind(a, b, c)
          BY ConcatAppend
        <4> QED BY <4>1 DEF AppendedBehind
      <3> QED BY <3>2, <3>4, <3>5, <3>6, <3>7
    <2> HIDE DEF S
    <2>3. Len(t) \in S
      BY <1>1, <2>1, <2>2, Induction
    <2>4. g[Len(u)] = f[N] \o t
      <3>1. Prefix(t, Len(t)) = t
        BY SubSeqFull DEF Prefix
      <3> QED BY <1>1, <2>3, <3>1 DEF S
    <2> QED BY <1>2, <1>3, <1>7, <2>4 DEF u, AddedBehind
  <1> QED BY <1>6, <1>7

-------------------------------------------------------------------------------
(* Texts of one file.                                                         *)

OfFile(t, i) == \A k \in 1 .. Len(t) : t[k].file = i

LEMMA LinesOfFile ==
  ASSUME NEW t \in Seq(Byte), NEW i, OfFile(t, i)
  PROVE  \A k \in 1 .. Len(LinesOf(t)) : Last(LinesOf(t)[k]).file = i
  <1>1. Len(LinesOf(t)) = Cardinality(LineEnds(t))
        /\ \A n \in 1 .. Cardinality(LineEnds(t)) :
             LinesOf(t)[n] = LineEndingAt(t, NthLineEnd(t, n))
    BY LinesOfType
  <1> SUFFICES ASSUME NEW k \in 1 .. Cardinality(LineEnds(t))
               PROVE  Last(LineEndingAt(t, NthLineEnd(t, k))).file = i
    BY <1>1
  <1>2. PICK e \in LineEnds(t) : e = NthLineEnd(t, k)
    BY NthLineEndIs
  <1>3. LineEndingAt(t, e)[Len(LineEndingAt(t, e))] = t[e]
    BY LineEndingType
  <1>4. e \in 1 .. Len(t)
    BY LineEndsType
  <1> QED BY <1>2, <1>3, <1>4 DEF Last, OfFile

(* What a text has before an offset begins the lines of the text.             *)
LEMMA LinesToPrefix ==
  ASSUME NEW t \in Seq(Byte), NEW o \in Offset, Placed(t, o)
  PROVE  /\ LinesTo(t, o) \in Seq(Seq(Byte)) /\ LinesOf(t) \in Seq(Seq(Byte))
         /\ IsPrefix(LinesTo(t, o), LinesOf(t))
         /\ o.offset = 0 => LinesTo(t, o) = << >>
         /\ o.offset # 0 => LinesTo(t, o) # << >>
         /\ \A i : OfFile(t, i) =>
              \A k \in 1 .. Len(LinesTo(t, o)) : Last(LinesTo(t, o)[k]).file = i
  <1>1. PICK n \in 0 .. Len(t) : n = o.offset
    BY PlacedIs
  <1>2. Len(t) \in Nat /\ AtEnd(t, n) /\ Len(t) \in n .. Len(t)
    BY <1>1, PlacedIs
  <1>3. /\ Prefix(t, n) \in Seq(Byte) /\ Len(Prefix(t, n)) = n
        /\ \A i \in 1 .. n : Prefix(t, n)[i] = t[i]
    BY PrefixIs
  <1>4. LinesOf(Prefix(t, n)) \in Seq(Seq(Byte)) /\ LinesOf(t) \in Seq(Seq(Byte))
    BY <1>3, LinesOfType
  <1>5. IsPrefix(LinesOf(Prefix(t, n)), LinesOf(t))
    <2>1. Prefix(t, Len(t)) = t
      BY SubSeqFull DEF Prefix
    <2>2. /\ Len(LinesOf(Prefix(t, n))) <= Len(LinesOf(Prefix(t, Len(t))))
          /\ LinesOf(Prefix(t, n)) =
               SubSeq(LinesOf(Prefix(t, Len(t))), 1, Len(LinesOf(Prefix(t, n))))
      BY <1>2, LinesPrefix
    <2>3. SubSeq(LinesOf(Prefix(t, n)), 1, Len(LinesOf(Prefix(t, n)))) = LinesOf(Prefix(t, n))
      BY <1>4, SubSeqFull
    <2> QED BY <2>1, <2>2, <2>3 DEF IsPrefix
  <1>6. ASSUME n # 0 PROVE LinesOf(Prefix(t, n)) # << >>
    <2>1. n \in LineEnds(Prefix(t, n))
      BY <1>2, <1>3, <1>6 DEF AtEnd, LineEnds
    <2>2. /\ IsFiniteSet(LineEnds(Prefix(t, n)))
          /\ Len(LinesOf(Prefix(t, n))) = Cardinality(LineEnds(Prefix(t, n)))
      BY <1>3, LineEndsType, LinesOfType
    <2>3. Cardinality(LineEnds(Prefix(t, n))) # 0
      BY <2>1, <2>2, FS_EmptySet
    <2>4. Len(<< >>) = 0
      OBVIOUS
    <2> QED BY <2>2, <2>3, <2>4
  <1>7. ASSUME NEW i, OfFile(t, i)
        PROVE  \A k \in 1 .. Len(LinesOf(Prefix(t, n))) : Last(LinesOf(Prefix(t, n))[k]).file = i
    <2>1. OfFile(Prefix(t, n), i)
      BY <1>2, <1>3, <1>7 DEF OfFile
    <2> QED BY <1>3, <2>1, LinesOfFile
  <1>8. LinesTo(t, o) = LinesOf(Prefix(t, n))
    BY <1>1 DEF LinesTo
  <1>9. n = 0 => LinesOf(Prefix(t, n)) = << >>
    BY NoLines
  <1> QED BY <1>1, <1>4, <1>5, <1>6, <1>7, <1>8, <1>9

LEMMA PrefixGrows ==
  ASSUME NEW T, NEW x \in Seq(T), NEW l \in Seq(T), NEW c, IsPrefix(x, l)
  PROVE  IsPrefix(x, Append(l, c))
  <1>1. /\ Len(x) \in Nat /\ Len(l) \in Nat /\ Len(x) <= Len(l)
        /\ SubSeq(x, 1, Len(x)) = SubSeq(l, 1, Len(x))
    BY LenProperties DEF IsPrefix
  <1>2. PICK m : m = Append(l, c)
    OBVIOUS
  <1>3. Len(m) = Len(l) + 1 /\ \A k \in 1 .. Len(l) : m[k] = l[k]
    BY <1>2
  <1>4. PICK n \in Nat : n = Len(x)
    BY <1>1
  <1>5. n <= Len(l) /\ 1 \in Nat \ {0}
    BY <1>1, <1>4
  <1>6. SubSeq(m, 1, n) = SubSeq(l, 1, n)
    BY <1>1, <1>3, <1>5, SubSeqOfLonger
  <1>7. Len(x) <= Len(m) /\ SubSeq(x, 1, Len(x)) = SubSeq(m, 1, Len(x))
    BY <1>1, <1>3, <1>4, <1>6
  <1> QED BY <1>2, <1>7 DEF IsPrefix

LEMMA NonePrefix == \A l : Len(l) \in Nat => IsPrefix(<< >>, l)
  <1> SUFFICES ASSUME NEW l, Len(l) \in Nat PROVE IsPrefix(<< >>, l)
    OBVIOUS
  <1>1. PICK e : e = << >>
    OBVIOUS
  <1>2. Len(e) = 0
    BY <1>1
  <1>3. SubSeq(e, 1, 0) = << >> /\ SubSeq(l, 1, 0) = << >>
    BY SubSeqEmpty
  <1>4. IsPrefix(e, l)
    BY <1>2, <1>3 DEF IsPrefix
  <1> QED BY <1>1, <1>4

(* A line written to a text keeps the beginnings of its lines.                *)
LEMMA LinesPrefixKept ==
  ASSUME NEW t \in Seq(Byte), NEW b \in Byte, NEW x \in Seq(Seq(Byte)), IsPrefix(x, LinesOf(t))
  PROVE  IsPrefix(x, LinesOf(Append(t, b)))
  <1>1. LinesOf(t) \in Seq(Seq(Byte))
    BY LinesOfType
  <1>2. LinesOf(Append(t, b)) = LinesOf(t) \/ \E c : LinesOf(Append(t, b)) = Append(LinesOf(t), c)
    BY LinesOfAppend
  <1>3. CASE LinesOf(Append(t, b)) = LinesOf(t)
    BY <1>3
  <1>4. CASE \E c : LinesOf(Append(t, b)) = Append(LinesOf(t), c)
    <2>1. PICK c : LinesOf(Append(t, b)) = Append(LinesOf(t), c)
      BY <1>4
    <2>2. PICK l \in Seq(Seq(Byte)) : l = LinesOf(t)
      BY <1>1
    <2>3. IsPrefix(x, Append(l, c))
      BY <2>2, PrefixGrows
    <2> QED BY <2>1, <2>2, <2>3
  <1> QED BY <1>2, <1>3, <1>4

-------------------------------------------------------------------------------
(* Several files at the path.                                                 *)

(* A new file gets an inode of its own, and a file is only cut with care ...  *)
Careful == ~InodesReused /\ (Truncates => CarefulCuts)

(* ... to which belongs, as with Kill, that no line over the limit stops the  *)
(* process before the new generation of a cut file is stored.                 *)
NoEarlyStop == [][PollFails /\ CutFile => GenerationStored]_vars

(* What is on record of the file at the path.                                 *)
Rec == LinesFrom(Current, recorded)

(* The process follows the file at the path.                                  *)
Following == up /\ inode # NoInode /\ identity.inode = inode

DiskOrder ==
  /\ \A i \in 1 .. Current : OfFile(written[i], i)
  /\ \A i \in 1 .. Current : IsPrefix(LinesFrom(i, recorded), LinesOf(written[i]))
  /\ \A i \in Files : i > Current => LinesFrom(i, recorded) = << >>

(* No inode was seen before its file was created; the inode is the number of  *)
(* the file, unless that was cut.                                             *)
InodeOrder ==
  /\ inode <= Current /\ identity.inode <= Current /\ seen <= Current
  /\ \A r \in rows : r.inode <= Current
  /\ lastInode \in {NoInode, identity.inode} /\ (~up => lastInode = NoInode)
  /\ CutFile => Truncates

(* A poll that is not yet persisted goes on where the record of the file it   *)
(* read ends; that file is still there if and only if its inode is.           *)
PendingOrder ==
  result.pending =>
    /\ seen # 0
    /\ Placed(written[seen], result.committed)
    /\ LinesTo(written[seen], result.committed) = LinesFrom(seen, recorded) \o result.lines
    /\ result.committed.generation = committed.generation
    /\ inode # NoInode => (identity.inode = inode <=> seen = Current)

(* The row a restart loads.                                                   *)
TopRow(top) ==
  /\ top \in RowsFor(inode)
  /\ \A r \in RowsFor(inode) : r = top \/ r.at.generation < top.at.generation

(* Of the file at the path nothing is stored; or the row covers the record;   *)
(* or the file was cut, and either no poll saw that and nothing was written   *)
(* to it since, or one did, and the next row is of a higher generation.       *)
Fresh   == RowsFor(inode) = {} /\ Rec = << >>
Covered == \E top : TopRow(top) /\ Placed(Text, top.at) /\ Rec = LinesTo(Text, top.at)
CutOff(top) ==
  /\ CutFile /\ Rec = << >>
  /\ TopRow(top) /\ top.at.offset # 0
  /\ \/ Text = << >> /\ seen # Current /\ (Following => committed.offset # 0)
     \/ Following /\ seen = Current /\ top.at.generation < committed.generation

RowsOrder == inode # NoInode => Fresh \/ Covered \/ \E top : CutOff(top)

(* The offset followed covers the record, or is the one of a file of which no *)
(* poll has seen that it was cut.                                             *)
InSync    == Placed(Text, committed) /\ Rec = LinesTo(Text, committed)
Unnoticed ==
  /\ Text = << >> /\ seen # Current /\ CutFile /\ Rec = << >>
  /\ committed.offset # 0 /\ ~result.pending

FollowOrder ==
  /\ Following =>
       /\ InSync \/ Unnoticed
       /\ \A r \in RowsFor(inode) : r.at.generation <= committed.generation
       /\ committed.offset # 0 =>
            \E r \in RowsFor(inode) : r.at.generation = committed.generation /\ r.at.offset # 0
  /\ up /\ inode # NoInode /\ identity.inode # inode => Fresh

FilesInv == DiskOrder /\ InodeOrder /\ PendingOrder /\ RowsOrder /\ FollowOrder

LEMMA FilesTypes ==
  ASSUME TypeInv
  PROVE  /\ Text \in Seq(Byte) /\ Len(Text) \in Nat /\ Current \in Nat /\ Current \in 1 .. Current
         /\ Current \in Files /\ inode \in Nat /\ identity.inode \in Nat /\ seen \in Nat
         /\ \A i \in 1 .. Current : written[i] \in Seq(Byte)
         /\ committed \in Offset /\ committed.generation \in Nat /\ committed.offset \in Nat
         /\ \A r \in rows : /\ r.at \in Offset /\ r.at.generation \in Nat /\ r.at.offset \in Nat
                            /\ r.inode \in Nat /\ r.inode # NoInode
         /\ result.committed \in Offset /\ result.lines \in Seq(Seq(Byte))
         /\ recorded \in Seq(Seq(Byte))
         /\ \A i : LinesFrom(i, recorded) \in Seq(Seq(Byte))
  <1> USE DEF TypeInv
  <1>1. /\ Text \in Seq(Byte) /\ Len(Text) \in Nat /\ Current \in Nat /\ Current \in 1 .. Len(written)
        /\ Current \in 1 .. Current
    BY TextType DEF Current
  <1>2. \A i \in 1 .. Current : written[i] \in Seq(Byte)
    BY DEF DiskInv, Current
  <1>3. Current \in Files /\ inode \in Nat /\ identity.inode \in Nat /\ seen \in Nat
    BY WatcherAssumption DEF DiskInv, WatchInv, CountInv, Inodes, NoInode
  <1>4. committed \in Offset /\ result.committed \in Offset /\ \A r \in rows : r.at \in Offset
    BY DEF WatchInv, ResultInv, StoredInv
  <1>5. \A r \in rows : r.inode \in Nat /\ r.inode # NoInode
    BY WatcherAssumption DEF StoredInv, Inodes, NoInode
  <1>6. recorded \in Seq(Seq(Byte)) /\ result.lines \in Seq(Seq(Byte))
    BY DEF StoredInv, ResultInv
  <1>7. \A i : LinesFrom(i, recorded) \in Seq(Seq(Byte))
    BY <1>6, LinesFromType
  <1> QED BY <1>1, <1>2, <1>3, <1>4, <1>5, <1>6, <1>7, OffsetIs

LEMMA SameRows ==
  ASSUME UNCHANGED <<rows, inode>>
  PROVE  RowsFor(inode)' = RowsFor(inode) /\ \A top : TopRow(top)' <=> TopRow(top)
  <1>1. RowsFor(inode)' = RowsFor(inode)
    BY DEF RowsFor
  <1> QED BY <1>1 DEF TopRow

LEMMA FilesWrite ==
  ASSUME Careful, TypeInv, FilesInv, WriteChar
  PROVE  FilesInv'
  <1> USE DEF FilesInv
  <1>1. PICK b \in Byte : b.file = Current /\ written' = [written EXCEPT ![Current] = Append(Text, b)]
    <2>1. PICK c \in Chars :
            written' = [written EXCEPT ![Current] = Append(@, [ch |-> c, file |-> Current])]
      BY DEF WriteChar
    <2>2. [ch |-> c, file |-> Current] \in Byte
      BY FilesTypes DEF Byte
    <2> QED BY <2>1, <2>2 DEF Text
  <1>2. /\ Current' = Current /\ Text' = Append(Text, b)
        /\ \A i \in 1 .. Current : written'[i] = IF i = Current THEN Append(Text, b) ELSE written[i]
    <2>1. Len(written') = Len(written) /\ written'[Current] = Append(Text, b)
          /\ \A i \in 1 .. Current : written'[i] = IF i = Current THEN Append(Text, b) ELSE written[i]
      <3>1. written \in Seq(Seq(Byte)) /\ Current = Len(written) /\ Current \in 1 .. Current
        BY FilesTypes DEF TypeInv, DiskInv, Current
      <3> HIDE DEF Current
      <3> QED BY <1>1, <3>1
    <2> QED BY <2>1 DEF Current, Text
  <1>3. /\ inode # NoInode
        /\ UNCHANGED <<inode, rows, recorded, committed, identity, lastInode, up, result, seen>>
    BY DEF WriteChar, dbVars, watchVars
  <1>4. CutFile => seen = Current
    BY <1>3 DEF WriteChar, Careful, InodeOrder
  <1>5. \A o \in Offset : Placed(Text, o) => Placed(Text', o) /\ LinesTo(Text', o) = LinesTo(Text, o)
    BY <1>2, PlacedKept, FilesTypes
  <1>6. Rec' = Rec /\ (CutFile' <=> CutFile) /\ (Following' <=> Following)
    BY <1>2, <1>3 DEF Rec, CutFile, Following
  <1>7. RowsFor(inode)' = RowsFor(inode) /\ \A top : TopRow(top)' <=> TopRow(top)
    BY <1>3, SameRows
  <1>8. DiskOrder'
    <2>1. OfFile(Append(Text, b), Current)
      <3>1. Len(Append(Text, b)) = Len(Text) + 1 /\ Len(Text) \in Nat
            /\ \A k \in 1 .. Len(Text) + 1 :
                 Append(Text, b)[k] = IF k = Len(Text) + 1 THEN b ELSE Text[k]
        <4>1. Text \in Seq(Byte) /\ Len(Text) \in Nat
          BY FilesTypes
        <4> QED BY <4>1
      <3>2. OfFile(Text, Current)
        BY FilesTypes DEF DiskOrder, Text
      <3> QED BY <1>1, <3>1, <3>2 DEF OfFile
    <2>2. IsPrefix(LinesFrom(Current, recorded), LinesOf(Append(Text, b)))
      <3>1. IsPrefix(LinesFrom(Current, recorded), LinesOf(Text))
        BY FilesTypes DEF DiskOrder, Text
      <3> QED BY <3>1, FilesTypes, LinesPrefixKept
    <2> QED BY <1>2, <1>3, <2>1, <2>2 DEF DiskOrder
  <1>9. InodeOrder'
    BY <1>2, <1>3, <1>6 DEF InodeOrder
  <1>10. PendingOrder'
    <2> SUFFICES ASSUME result.pending PROVE PendingOrder'
      BY <1>3 DEF PendingOrder
    <2>1. seen \in 1 .. Current /\ result.committed \in Offset /\ Placed(written[seen], result.committed)
      BY FilesTypes DEF PendingOrder, InodeOrder
    <2>2. Placed(written'[seen], result.committed)
          /\ LinesTo(written'[seen], result.committed) = LinesTo(written[seen], result.committed)
      BY <1>2, <1>5, <2>1 DEF Text
    <2> QED BY <1>2, <1>3, <2>2 DEF PendingOrder
  <1>11. RowsOrder'
    <2>1. CASE Fresh
      BY <1>6, <1>7, <2>1 DEF RowsOrder, Fresh
    <2>2. CASE Covered
      <3>1. PICK top : TopRow(top) /\ Placed(Text, top.at) /\ Rec = LinesTo(Text, top.at)
        BY <2>2 DEF Covered
      <3>2. top.at \in Offset
        BY <3>1, FilesTypes DEF TopRow, RowsFor
      <3>3. Placed(Text', top.at) /\ LinesTo(Text', top.at) = LinesTo(Text, top.at)
        BY <1>5, <3>1, <3>2
      <3>4. Covered'
        BY <1>6, <1>7, <3>1, <3>3 DEF Covered
      <3> QED BY <3>4 DEF RowsOrder
    <2>3. CASE \E top : CutOff(top)
      <3>1. PICK top : CutOff(top)
        BY <2>3
      <3>2. CutOff(top)'
        BY <1>2, <1>3, <1>4, <1>6, <1>7, <3>1 DEF CutOff
      <3> QED BY <3>2 DEF RowsOrder
    <2> QED BY <1>3, <2>1, <2>2, <2>3 DEF RowsOrder
  <1>12. FollowOrder'
    <2>1. InSync => InSync'
      BY <1>3, <1>5, <1>6, FilesTypes DEF InSync
    <2>2. ~Unnoticed
      BY <1>4 DEF Unnoticed
    <2> QED BY <1>3, <1>6, <1>7, <2>1, <2>2 DEF FollowOrder, Fresh
  <1> QED BY <1>8, <1>9, <1>10, <1>11, <1>12

(* A file more at the path, with nothing in it and nothing on record of it.   *)
LEMMA NewFile ==
  ASSUME TypeInv, FilesInv, TypeInv', written' = Append(written, << >>),
         UNCHANGED <<recorded, rows, committed, identity, lastInode, up, result, seen>>
  PROVE  /\ Current' = Current + 1 /\ Text' = << >> /\ Rec' = << >> /\ DiskOrder'
         /\ \A i \in 1 .. Current : written'[i] = written[i]
         /\ \A o \in Offset : o.offset # 0 => ~Placed(Text', o)
  <1>1. /\ Len(written') = Len(written) + 1 /\ written'[Len(written) + 1] = << >>
        /\ \A i \in 1 .. Len(written) : written'[i] = written[i]
    BY DEF TypeInv, DiskInv
  <1>2. /\ Current' = Current + 1 /\ Text' = << >>
        /\ \A i \in 1 .. Current : written'[i] = written[i]
    BY <1>1 DEF Current, Text
  <1>3. Current' \in Files /\ Current \in Nat
    BY FilesTypes DEF TypeInv, DiskInv
  <1>4. LinesFrom(Current + 1, recorded) = << >>
    BY <1>2, <1>3 DEF FilesInv, DiskOrder, Files
  <1>5. Rec' = << >>
    BY <1>2, <1>4 DEF Rec
  <1>6. DiskOrder'
    <2>1. OfFile(<< >>, Current + 1)
      <3>1. Len(<< >>) = 0
        OBVIOUS
      <3> QED BY <3>1 DEF OfFile
    <2>2. IsPrefix(<< >>, LinesOf(<< >>))
      <3>1. Len(<< >>) \in Nat
        OBVIOUS
      <3> QED BY <3>1, NoLines, NonePrefix
    <2>3. \A i \in 1 .. Current + 1 : i \in 1 .. Current \/ i = Current + 1
      BY <1>3
    <2>4. \A i \in Files : i > Current + 1 => i > Current
      BY <1>3 DEF Files
    <2>5. written'[Current + 1] = << >>
      BY <1>1 DEF Current
    <2> QED BY <1>2, <1>4, <2>1, <2>2, <2>3, <2>4, <2>5 DEF FilesInv, DiskOrder
  <1>7. \A o \in Offset : o.offset # 0 => ~Placed(Text', o)
    <2> SUFFICES ASSUME NEW o \in Offset, o.offset # 0, Placed(<< >>, o) PROVE FALSE
      BY <1>2
    <2>1. << >> \in Seq(Byte) /\ Len(<< >>) = 0
      OBVIOUS
    <2>2. PICK e \in Seq(Byte) : e = << >> /\ Len(e) = 0
      BY <2>1
    <2>3. o.offset \in 0 .. Len(e)
      BY <2>2, PlacedIs
    <2> QED BY <2>2, <2>3
  <1> QED BY <1>2, <1>5, <1>6, <1>7

LEMMA FilesTruncate ==
  ASSUME Careful, TypeInv, FilesInv, TypeInv', Truncate
  PROVE  FilesInv'
  <1>1. /\ inode # NoInode /\ Text # << >> /\ Truncates /\ written' = Append(written, << >>)
        /\ UNCHANGED <<inode, recorded, rows, committed, identity, lastInode, up, result, seen>>
        /\ up /\ ~result.pending /\ committed.offset = Len(Text)
    BY DEF Truncate, Careful, dbVars, watchVars
  <1>2. /\ Current' = Current + 1 /\ Text' = << >> /\ Rec' = << >> /\ DiskOrder'
    BY <1>1, NewFile
  <1>3. committed.offset # 0
    BY <1>1, FilesTypes, EmptySeq
  <1>4. /\ Current \in Nat /\ seen \in Nat /\ inode \in Nat /\ identity.inode \in Nat
        /\ seen <= Current /\ inode <= Current /\ identity.inode <= Current
        /\ \A r \in rows : r.inode \in Nat /\ r.inode <= Current
    BY FilesTypes DEF FilesInv, InodeOrder
  <1>5. seen # Current' /\ CutFile'
    BY <1>1, <1>2, <1>4 DEF CutFile
  <1>6. RowsFor(inode)' = RowsFor(inode) /\ \A top : TopRow(top)' <=> TopRow(top)
    BY <1>1, SameRows
  <1>7. InodeOrder'
    BY <1>1, <1>2, <1>4 DEF FilesInv, InodeOrder
  <1>8. PendingOrder'
    BY <1>1 DEF PendingOrder
  <1>9. CASE identity.inode = inode
    <2>1. Following /\ Following'
      BY <1>1, <1>9 DEF Following
    <2>2. PICK top \in RowsFor(inode) : top.at.generation = committed.generation /\ top.at.offset # 0
      BY <1>3, <2>1 DEF FilesInv, FollowOrder
    <2>3. PICK q : TopRow(q)
      BY <1>1, <2>2 DEF FilesInv, RowsOrder, Fresh, Covered, CutOff
    <2>4. q = top
      <3>1. q.at.generation \in Nat /\ top.at.generation \in Nat
        BY <2>2, <2>3, FilesTypes DEF TopRow, RowsFor
      <3>2. q.at.generation <= top.at.generation
        BY <2>1, <2>2, <2>3 DEF FilesInv, FollowOrder, TopRow
      <3> QED BY <2>2, <2>3, <3>1, <3>2 DEF TopRow
    <2>5. CutOff(top)'
      BY <1>1, <1>2, <1>3, <1>5, <1>6, <2>2, <2>3, <2>4 DEF CutOff
    <2>6. RowsOrder'
      BY <2>5 DEF RowsOrder
    <2>7. Unnoticed'
      BY <1>1, <1>2, <1>3, <1>5 DEF Unnoticed
    <2>8. FollowOrder'
      BY <1>1, <1>6, <2>1, <2>7 DEF FilesInv, FollowOrder, Following
    <2> QED BY <1>2, <1>7, <1>8, <2>6, <2>8 DEF FilesInv
  <1>10. CASE identity.inode # inode
    <2>1. RowsFor(inode) = {}
      BY <1>1, <1>10 DEF FilesInv, FollowOrder, Fresh
    <2>2. Fresh' /\ ~Following'
      BY <1>1, <1>2, <1>6, <1>10, <2>1 DEF Fresh, Following
    <2> QED BY <1>2, <1>7, <1>8, <2>2 DEF FilesInv, RowsOrder, FollowOrder
  <1> QED BY <1>9, <1>10

LEMMA FilesRemove ==
  ASSUME TypeInv, FilesInv, RemoveFile
  PROVE  FilesInv'
  <1>1. /\ inode' = NoInode
        /\ UNCHANGED <<written, recorded, rows, committed, identity, lastInode, up, result, seen>>
    BY DEF RemoveFile, dbVars, watchVars
  <1>2. Current' = Current /\ NoInode <= Current
    BY <1>1, FilesTypes DEF Current, NoInode
  <1>3. DiskOrder'
    BY <1>1, <1>2 DEF FilesInv, DiskOrder
  <1>4. InodeOrder'
    BY <1>1, <1>2 DEF FilesInv, InodeOrder, CutFile
  <1>5. PendingOrder'
    BY <1>1 DEF FilesInv, PendingOrder
  <1> QED BY <1>1, <1>3, <1>4, <1>5 DEF FilesInv, RowsOrder, FollowOrder, Following

LEMMA FilesCreate ==
  ASSUME Careful, TypeInv, FilesInv, TypeInv', CreateFile
  PROVE  FilesInv'
  <1>1. /\ inode' = Current + 1 /\ written' = Append(written, << >>)
        /\ UNCHANGED <<recorded, rows, committed, identity, lastInode, up, result, seen>>
    BY DEF CreateFile, Careful, dbVars, watchVars
  <1>2. /\ Current' = Current + 1 /\ Text' = << >> /\ Rec' = << >> /\ DiskOrder'
        /\ \A i \in 1 .. Current : written'[i] = written[i]
    BY <1>1, NewFile
  <1>3. /\ Current \in Nat /\ seen \in Nat /\ inode \in Nat /\ identity.inode \in Nat
        /\ seen <= Current /\ identity.inode <= Current
        /\ \A r \in rows : r.inode \in Nat /\ r.inode <= Current
    BY FilesTypes DEF FilesInv, InodeOrder
  <1>4. seen # Current' /\ identity.inode # inode' /\ ~CutFile'
    BY <1>1, <1>2, <1>3 DEF CutFile
  <1>5. Fresh' /\ ~Following'
    BY <1>1, <1>2, <1>3, <1>4 DEF Fresh, RowsFor, Following
  <1>6. InodeOrder'
    BY <1>1, <1>2, <1>3, <1>4 DEF FilesInv, InodeOrder
  <1>7. PendingOrder'
    <2> SUFFICES ASSUME result.pending PROVE PendingOrder'
      BY <1>1 DEF PendingOrder
    <2>1. seen # 0 /\ seen \in 1 .. Current
      BY <1>3 DEF FilesInv, PendingOrder
    <2> QED BY <1>1, <1>2, <1>4, <2>1 DEF FilesInv, PendingOrder
  <1> QED BY <1>2, <1>5, <1>6, <1>7 DEF FilesInv, RowsOrder, FollowOrder

(* What is forgotten when the process stops is on record, or is read again.   *)
LEMMA FilesStop ==
  ASSUME TypeInv, FilesInv, NEW how, Stop(how),
         CutFile => GenerationStored
  PROVE  FilesInv'
  <1>1. /\ UNCHANGED <<written, inode, rows, recorded, seen>>
        /\ up' = FALSE /\ identity'.inode = NoInode /\ lastInode' = NoInode /\ ~result'.pending
    BY DEF Stop, diskVars, dbVars, NoIdentity, NoResult
  <1>2. /\ Current' = Current /\ Text' = Text /\ Rec' = Rec /\ ~Following'
        /\ (CutFile' <=> CutFile)
    BY <1>1 DEF Current, Text, Rec, Following, CutFile
  <1>3. RowsFor(inode)' = RowsFor(inode) /\ \A top : TopRow(top)' <=> TopRow(top)
    BY <1>1, SameRows
  <1>4. DiskOrder' /\ PendingOrder' /\ FollowOrder'
    BY <1>1, <1>2 DEF FilesInv, DiskOrder, PendingOrder, FollowOrder
  <1>5. InodeOrder'
    <2>1. NoInode <= Current
      BY FilesTypes DEF NoInode
    <2> QED BY <1>1, <1>2, <2>1 DEF FilesInv, InodeOrder
  <1>6. RowsOrder'
    <2> SUFFICES ASSUME inode # NoInode PROVE Fresh' \/ Covered' \/ \E top : CutOff(top)'
      BY <1>1 DEF RowsOrder
    <2>1. CASE Fresh \/ Covered
      BY <1>2, <1>3, <2>1 DEF Fresh, Covered
    <2>2. CASE \E top : CutOff(top)
      <3>1. PICK top : CutOff(top)
        BY <2>2
      <3>2. ~(Following /\ top.at.generation < committed.generation)
        <4> SUFFICES ASSUME Following, top.at.generation < committed.generation PROVE FALSE
          OBVIOUS
        <4>1. PICK r \in RowsFor(inode) : r.at.generation = committed.generation
          BY <3>1 DEF GenerationStored, RowsFor, CutOff
        <4>2. top.at.generation \in Nat /\ r.at.generation \in Nat
          BY <3>1, FilesTypes DEF CutOff, TopRow, RowsFor
        <4>3. r = top \/ r.at.generation < top.at.generation
          BY <3>1 DEF CutOff, TopRow
        <4> QED BY <4>1, <4>2, <4>3
      <3>3. CutOff(top)'
        BY <1>1, <1>2, <1>3, <3>1, <3>2 DEF CutOff
      <3> QED BY <3>3
    <2> QED BY <2>1, <2>2 DEF FilesInv, RowsOrder
  <1> QED BY <1>4, <1>5, <1>6 DEF FilesInv

LEMMA FilesStart ==
  ASSUME TypeInv, FilesInv, TypeInv', Start
  PROVE  FilesInv'
  <1>1. /\ UNCHANGED <<written, inode, rows, recorded, lastInode, result, seen>>
        /\ ~up /\ up' /\ inode # NoInode /\ identity'.inode = inode
        /\ \/ RowsFor(inode) = {} /\ committed' = ResetOffset(0)
           \/ \E r \in LatestFor(inode) : committed' = r.at
    BY DEF Start, diskVars, dbVars
  <1>2. /\ Current' = Current /\ Text' = Text /\ Rec' = Rec /\ ~Following /\ Following'
        /\ (CutFile' <=> CutFile) /\ ~result.pending /\ ~result'.pending
    BY <1>1 DEF Current, Text, Rec, Following, CutFile, TypeInv, ResultInv
  <1>3. RowsFor(inode)' = RowsFor(inode) /\ \A top : TopRow(top)' <=> TopRow(top)
    BY <1>1, SameRows
  <1>4. DiskOrder' /\ PendingOrder'
    BY <1>1, <1>2 DEF FilesInv, DiskOrder, PendingOrder
  <1>5. InodeOrder'
    BY <1>1, <1>2 DEF FilesInv, InodeOrder
  <1>6. CASE Fresh
    <2>1. RowsFor(inode) = {} /\ Rec = << >> /\ committed' = ResetOffset(0)
      BY <1>1, <1>6 DEF Fresh, LatestFor
    <2>2. InSync' /\ committed'.offset = 0
      <3>1. committed'.offset = 0 /\ Placed(Text, committed')
        BY <2>1, FilesTypes, PlacedAtStart DEF ResetOffset
      <3>2. LinesTo(Text, committed') = << >>
        BY <3>1, NoLines DEF LinesTo
      <3> QED BY <1>2, <2>1, <3>1, <3>2 DEF InSync
    <2>3. FollowOrder'
      BY <1>1, <1>3, <2>1, <2>2 DEF FollowOrder
    <2>4. Fresh'
      BY <1>2, <1>3, <2>1 DEF Fresh
    <2> QED BY <1>4, <1>5, <2>3, <2>4 DEF FilesInv, RowsOrder
  <1>7. ASSUME NEW top, TopRow(top)
        PROVE  /\ committed' = top.at /\ top \in RowsFor(inode)
               /\ \A r \in RowsFor(inode) : r.at.generation <= committed'.generation
    <2>1. top \in RowsFor(inode)
      BY <1>7 DEF TopRow
    <2>2. PICK r \in LatestFor(inode) : committed' = r.at
      BY <1>1, <2>1
    <2>3. /\ r \in RowsFor(inode) /\ top.at.generation <= r.at.generation
          /\ r.at.generation \in Nat /\ top.at.generation \in Nat
          /\ \A q \in RowsFor(inode) : q.at.generation <= r.at.generation
      BY <2>1, FilesTypes DEF LatestFor, RowsFor
    <2>4. r = top
      BY <1>7, <2>3 DEF TopRow
    <2> QED BY <2>1, <2>2, <2>3, <2>4
  <1>8. CASE Covered
    <2>1. PICK top : TopRow(top) /\ Placed(Text, top.at) /\ Rec = LinesTo(Text, top.at)
      BY <1>8 DEF Covered
    <2>2. /\ committed' = top.at /\ top \in RowsFor(inode)
          /\ \A r \in RowsFor(inode) : r.at.generation <= committed'.generation
      BY <1>7, <2>1
    <2>3. InSync'
      BY <1>2, <2>1, <2>2 DEF InSync
    <2>4. FollowOrder'
      BY <1>1, <1>3, <2>2, <2>3 DEF FollowOrder
    <2>5. Covered'
      BY <1>2, <1>3, <2>1 DEF Covered
    <2> QED BY <1>4, <1>5, <2>4, <2>5 DEF FilesInv, RowsOrder
  <1>9. CASE \E top : CutOff(top)
    <2>1. PICK top : CutOff(top)
      BY <1>9
    <2>2. /\ CutFile /\ Rec = << >> /\ TopRow(top) /\ top.at.offset # 0
          /\ Text = << >> /\ seen # Current
      BY <1>2, <2>1 DEF CutOff
    <2>3. /\ committed' = top.at /\ top \in RowsFor(inode)
          /\ \A r \in RowsFor(inode) : r.at.generation <= committed'.generation
      BY <1>7, <2>2
    <2>4. Unnoticed'
      BY <1>1, <1>2, <2>2, <2>3 DEF Unnoticed
    <2>5. FollowOrder'
      BY <1>1, <1>3, <2>2, <2>3, <2>4 DEF FollowOrder
    <2>6. CutOff(top)'
      BY <1>1, <1>2, <1>3, <2>2, <2>3 DEF CutOff
    <2> QED BY <1>4, <1>5, <2>5, <2>6 DEF FilesInv, RowsOrder
  <1> QED BY <1>1, <1>6, <1>8, <1>9 DEF FilesInv, RowsOrder

(* A poll of a file it did not follow, or that is shorter than the offset,    *)
(* begins a generation at offset 0; nothing is on record of such a file.      *)
LEMMA PollRestarts ==
  ASSUME TypeInv, FilesInv, up, inode # NoInode, ~(Following /\ InSync)
  PROVE  /\ PollFrom = ResetOffset(committed.generation + 1) /\ Rec = << >>
         /\ Truncated \/ IsReplacement
  <1>1. CASE ~Following
    <2>1. identity.inode # inode /\ Rec = << >>
      BY <1>1 DEF Following, FilesInv, FollowOrder, Fresh
    <2> QED BY <2>1 DEF IsReplacement, PollFrom
  <1>2. CASE Following
    <2>1. Unnoticed
      BY <1>2 DEF FilesInv, FollowOrder
    <2>2. Len(Text) = 0
      BY <2>1 DEF Unnoticed
    <2>3. Truncated
      BY <2>1, <2>2, FilesTypes DEF Truncated, Unnoticed
    <2> QED BY <2>1, <2>3 DEF PollFrom, Unnoticed
  <1> QED BY <1>1, <1>2

LEMMA PollFromRecord ==
  ASSUME TypeInv, FilesInv, up, inode # NoInode
  PROVE  /\ Placed(Text, PollFrom) /\ LinesTo(Text, PollFrom) = Rec
         /\ PollFrom.generation \in Nat /\ PollFrom.generation >= committed.generation
         /\ PollFrom.offset # 0 => Following /\ InSync /\ PollFrom = committed
         /\ ~(Following /\ InSync) => PollFrom.generation = committed.generation + 1
  <1>1. CASE Following /\ InSync
    <2>1. identity.inode = inode /\ lastInode \in {NoInode, inode} /\ Placed(Text, committed)
      BY <1>1 DEF Following, InSync, FilesInv, InodeOrder
    <2>2. /\ Placed(Text, PollFrom) /\ LinesTo(Text, PollFrom) = LinesTo(Text, committed)
          /\ PollFrom.generation \in Nat /\ PollFrom.generation >= committed.generation
          /\ PollFrom = committed \/ PollFrom.offset = 0
      BY <2>1, PollFromInSync
    <2> QED BY <1>1, <2>2 DEF InSync
  <1>2. CASE ~(Following /\ InSync)
    <2>1. PollFrom = ResetOffset(committed.generation + 1) /\ Rec = << >>
      BY <1>2, PollRestarts
    <2>2. PollFrom.offset = 0 /\ PollFrom.generation = committed.generation + 1
      BY <2>1 DEF ResetOffset
    <2>3. Placed(Text, PollFrom)
      BY <2>1, FilesTypes, PlacedAtStart
    <2>4. LinesTo(Text, PollFrom) = << >>
      BY <2>2, NoLines DEF LinesTo
    <2> QED BY <1>2, <2>1, <2>2, <2>3, <2>4, FilesTypes
  <1> QED BY <1>1, <1>2

LEMMA FilesPoll ==
  ASSUME TypeInv, FilesInv, TypeInv', Poll
  PROVE  FilesInv'
  <1>1. /\ UNCHANGED <<written, inode, rows, recorded, up>> /\ up /\ inode # NoInode
        /\ ~result.pending /\ result'.pending /\ committed' = PollFrom
        /\ lastInode' = inode /\ seen' = Current
        /\ identity'.inode = IF Truncated \/ IsReplacement THEN inode ELSE identity.inode
    BY DEF Poll, diskVars, dbVars
  <1>2. /\ Placed(Text, PollFrom) /\ LinesTo(Text, PollFrom) = Rec
        /\ PollFrom.generation \in Nat /\ PollFrom.generation >= committed.generation
        /\ PollFrom.offset # 0 => Following /\ InSync /\ PollFrom = committed
        /\ ~(Following /\ InSync) => PollFrom.generation = committed.generation + 1
    BY <1>1, PollFromRecord
  <1>3. /\ result'.committed.generation = PollFrom.generation
        /\ Placed(Text, result'.committed)
        /\ LinesTo(Text, result'.committed) = Rec \o result'.lines
    BY <1>2, PollReads
  <1>4. identity'.inode = inode
    BY <1>1, PollRestarts DEF Following
  <1>5. /\ Current' = Current /\ Text' = Text /\ Rec' = Rec /\ Following'
        /\ (CutFile' <=> CutFile)
    BY <1>1, <1>4 DEF Current, Text, Rec, Following, CutFile
  <1>6. RowsFor(inode)' = RowsFor(inode) /\ \A top : TopRow(top)' <=> TopRow(top)
    BY <1>1, SameRows
  <1>7. DiskOrder'
    BY <1>1, <1>5 DEF FilesInv, DiskOrder
  <1>8. InodeOrder'
    BY <1>1, <1>4, <1>5, FilesTypes DEF FilesInv, InodeOrder
  <1>9. PendingOrder'
    <2>1. Current # 0
      BY FilesTypes
    <2> QED BY <1>1, <1>2, <1>3, <1>4, <1>5, <2>1 DEF PendingOrder, Text, Rec
  <1>10. Following => \A r \in RowsFor(inode) : r.at.generation <= committed.generation
    BY DEF FilesInv, FollowOrder
  <1>11. RowsOrder'
    <2>1. CASE Fresh \/ Covered
      BY <1>5, <1>6, <2>1 DEF RowsOrder, Fresh, Covered
    <2>2. CASE ~Fresh /\ \E top : CutOff(top)
      <3>1. PICK top : CutOff(top)
        BY <2>2
      <3>2. Following /\ top \in RowsFor(inode)
        BY <1>1, <2>2, <3>1 DEF FilesInv, FollowOrder, Following, CutOff, TopRow
      <3>3. top.at.generation < PollFrom.generation
        <4>1. /\ top.at.generation \in Nat /\ committed.generation \in Nat
              /\ top.at.generation <= committed.generation
          BY <1>10, <3>2, FilesTypes DEF RowsFor
        <4>2. CASE top.at.generation < committed.generation
          BY <1>2, <4>1, <4>2
        <4>3. CASE Text = << >> /\ committed.offset # 0
          <5>1. ~InSync
            <6>1. ASSUME Placed(Text, committed) PROVE FALSE
              <7>1. committed.offset \in 0 .. Len(Text)
                BY <6>1, FilesTypes, PlacedIs
              <7>2. Len(Text) = 0
                BY <4>3
              <7> QED BY <4>3, <7>1, <7>2
            <6> QED BY <6>1 DEF InSync
          <5> QED BY <1>2, <4>1, <5>1
        <4> QED BY <3>1, <3>2, <4>2, <4>3 DEF CutOff
      <3>4. CutOff(top)'
        BY <1>1, <1>5, <1>6, <3>1, <3>3 DEF CutOff
      <3> QED BY <3>4 DEF RowsOrder
    <2> QED BY <1>1, <2>1, <2>2 DEF FilesInv, RowsOrder
  <1>12. FollowOrder'
    <2>1. InSync'
      BY <1>1, <1>2, <1>5 DEF InSync
    <2>2. \A r \in RowsFor(inode) : r.at.generation <= PollFrom.generation
      <3>1. CASE Following
        <4>1. committed.generation \in Nat /\ \A r \in RowsFor(inode) : r.at.generation \in Nat
          BY FilesTypes DEF RowsFor
        <4> QED BY <1>2, <1>10, <3>1, <4>1
      <3>2. CASE ~Following
        BY <1>1, <3>2 DEF Following, FilesInv, FollowOrder, Fresh
      <3> QED BY <3>1, <3>2
    <2>3. PollFrom.offset # 0 =>
            \E r \in RowsFor(inode) : r.at.generation = PollFrom.generation /\ r.at.offset # 0
      BY <1>2 DEF FilesInv, FollowOrder
    <2> QED BY <1>1, <1>4, <1>6, <2>1, <2>2, <2>3 DEF FollowOrder
  <1> QED BY <1>7, <1>8, <1>9, <1>11, <1>12 DEF FilesInv

(* What a poll hands over is of the file it read.                             *)
LEMMA PersistedLines ==
  ASSUME TypeInv, FilesInv, result.pending
  PROVE  /\ seen \in 1 .. Current /\ result.committed \in Offset
         /\ Placed(written[seen], result.committed)
         /\ LinesTo(written[seen], result.committed) = LinesFrom(seen, recorded) \o result.lines
         /\ IsPrefix(LinesTo(written[seen], result.committed), LinesOf(written[seen]))
         /\ \A i : LinesFrom(i, recorded \o result.lines) =
                     IF i = seen THEN LinesTo(written[seen], result.committed)
                     ELSE LinesFrom(i, recorded)
  <1>1. /\ seen \in 1 .. Current /\ result.committed \in Offset
        /\ Placed(written[seen], result.committed)
        /\ LinesTo(written[seen], result.committed) = LinesFrom(seen, recorded) \o result.lines
    <2>1. seen \in Nat /\ Current \in Nat /\ result.committed \in Offset
      BY FilesTypes
    <2>2. seen # 0 /\ seen <= Current
      BY DEF FilesInv, PendingOrder, InodeOrder
    <2>3. /\ Placed(written[seen], result.committed)
          /\ LinesTo(written[seen], result.committed) = LinesFrom(seen, recorded) \o result.lines
      BY DEF FilesInv, PendingOrder
    <2> QED BY <2>1, <2>2, <2>3
  <1>2. PICK t \in Seq(Byte), o \in Offset : t = written[seen] /\ o = result.committed
    BY <1>1, FilesTypes
  <1>3. OfFile(t, seen) /\ Placed(t, o)
    BY <1>1, <1>2 DEF FilesInv, DiskOrder
  <1>4. /\ LinesTo(t, o) \in Seq(Seq(Byte)) /\ IsPrefix(LinesTo(t, o), LinesOf(t))
        /\ \A k \in 1 .. Len(LinesTo(t, o)) : Last(LinesTo(t, o)[k]).file = seen
    BY <1>3, LinesToPrefix
  <1>5. PICK a \in Seq(Seq(Byte)), b \in Seq(Seq(Byte)), r \in Seq(Seq(Byte)) :
          a = LinesFrom(seen, recorded) /\ b = result.lines /\ r = recorded
    BY FilesTypes
  <1>6. LinesTo(t, o) = a \o b
    BY <1>1, <1>2, <1>5
  <1>7. \A k \in 1 .. Len(b) : Last(b[k]).file = seen
    <2> SUFFICES ASSUME NEW k \in 1 .. Len(b) PROVE Last(b[k]).file = seen
      OBVIOUS
    <2>1. PICK c : c = a \o b
      OBVIOUS
    <2>2. Len(a) \in Nat /\ Len(b) \in Nat /\ Len(c) = Len(a) + Len(b)
          /\ \A i \in 1 .. Len(a) + Len(b) : c[i] = IF i <= Len(a) THEN a[i] ELSE b[i - Len(a)]
      BY <2>1, LenProperties, ConcatProperties
    <2>3. /\ Len(a) + k \in 1 .. Len(c) /\ Len(a) + k \in 1 .. Len(a) + Len(b)
          /\ ~(Len(a) + k <= Len(a)) /\ (Len(a) + k) - Len(a) = k
      BY <2>2
    <2>4. c[Len(a) + k] = b[k]
      BY <2>2, <2>3
    <2>5. Last(c[Len(a) + k]).file = seen
      BY <1>4, <1>6, <2>1, <2>3
    <2> QED BY <2>4, <2>5
  <1>8. \A i : AddedBehind(i, seen, r, b)
    BY <1>7, LinesFromConcat
  <1>9. \A i : LinesFrom(i, r \o b) = IF i = seen THEN LinesTo(t, o) ELSE LinesFrom(i, r)
    <2>1. LinesFrom(seen, r) \o b = LinesTo(t, o)
      BY <1>5, <1>6
    <2> QED BY <1>8, <2>1 DEF AddedBehind
  <1> QED BY <1>1, <1>2, <1>4, <1>5, <1>9

LEMMA FilesPersist ==
  ASSUME TypeInv, FilesInv, TypeInv', Persist
  PROVE  FilesInv'
  <1> DEFINE new == [inode |-> identity.inode, at |-> result.committed]
             key(r) == r.inode = identity.inode
                       /\ r.at.generation = result.committed.generation
             isNew(S) == S = {r \in rows : ~key(r)} \union {new}
  <1>1. /\ UNCHANGED <<written, inode, identity, lastInode, up, seen>> /\ up
        /\ result.pending /\ committed' = result.committed /\ ~result'.pending
    BY DEF Persist, diskVars, TypeInv, ResultInv, NoResult
  <1>2. \/ rows' = rows /\ recorded' = recorded /\ result.lines = << >>
        \/ isNew(rows') /\ recorded' = recorded \o result.lines
    BY DEF Persist, NothingRead, dbVars
  <1>3. recorded' = recorded \o result.lines
    <2>1. recorded \o << >> = recorded
      BY FilesTypes, ConcatEmptySeq
    <2> QED BY <1>2, <2>1
  <1>4. /\ seen \in 1 .. Current /\ result.committed \in Offset
        /\ Placed(written[seen], result.committed)
        /\ IsPrefix(LinesTo(written[seen], result.committed), LinesOf(written[seen]))
        /\ LinesTo(written[seen], result.committed) = LinesFrom(seen, recorded) \o result.lines
    BY <1>1, PersistedLines
  <1>5. \A i : LinesFrom(i, recorded') =
                 IF i = seen THEN LinesTo(written[seen], result.committed) ELSE LinesFrom(i, recorded)
    BY <1>1, <1>3, PersistedLines
  <1>6. /\ Current' = Current /\ Text' = Text /\ (Following' <=> Following)
        /\ (CutFile' <=> CutFile)
    BY <1>1 DEF Current, Text, Following, CutFile
  <1>7. DiskOrder'
    <2>1. \A i \in 1 .. Current : IsPrefix(LinesFrom(i, recorded'), LinesOf(written[i]))
      BY <1>4, <1>5 DEF FilesInv, DiskOrder
    <2>2. \A i \in Files : i > Current => i # seen
      BY <1>4, FilesTypes DEF Files
    <2>3. \A i \in Files : i > Current => LinesFrom(i, recorded') = << >>
      BY <1>5, <2>2 DEF FilesInv, DiskOrder
    <2> QED BY <1>1, <1>6, <2>1, <2>3 DEF FilesInv, DiskOrder
  <1>8. /\ \A r \in rows' : r \in rows \/ r = new
        /\ \A r \in rows : r.inode # identity.inode => r \in rows'
    BY <1>2
  <1> HIDE DEF isNew
  <1>9. InodeOrder'
    BY <1>1, <1>6, <1>8 DEF FilesInv, InodeOrder
  <1>10. PendingOrder'
    BY <1>1 DEF PendingOrder
  <1>11. result.committed.generation = committed.generation
         /\ (inode # NoInode => (identity.inode = inode <=> seen = Current))
    BY <1>1 DEF FilesInv, PendingOrder
  <1>12. CASE inode = NoInode
    BY <1>1, <1>7, <1>9, <1>10, <1>12 DEF FilesInv, RowsOrder, FollowOrder, Following
  <1>13. CASE inode # NoInode /\ identity.inode # inode
    <2>1. Fresh /\ ~Following
      BY <1>1, <1>13 DEF FilesInv, FollowOrder, Following
    <2>2. RowsFor(inode)' = RowsFor(inode)
      BY <1>1, <1>8, <1>13 DEF RowsFor
    <2>3. Rec' = Rec
      BY <1>5, <1>6, <1>11, <1>13 DEF Rec
    <2>4. Fresh' /\ ~Following'
      BY <1>6, <2>1, <2>2, <2>3 DEF Fresh
    <2> QED BY <1>7, <1>9, <1>10, <2>4 DEF FilesInv, RowsOrder, FollowOrder
  <1>14. CASE inode # NoInode /\ identity.inode = inode
    <2>1. Following /\ seen = Current /\ written[seen] = Text
      BY <1>1, <1>11, <1>14 DEF Following, Text
    <2>2. Rec' = LinesTo(Text, result.committed)
      BY <1>5, <1>6, <2>1 DEF Rec
    <2>3. InSync'
      BY <1>1, <1>4, <1>6, <2>1, <2>2 DEF InSync
    <2>4. /\ \A r \in RowsFor(inode) : r.at.generation <= committed.generation
          /\ committed.offset # 0 =>
               \E r \in RowsFor(inode) : r.at.generation = committed.generation /\ r.at.offset # 0
          /\ InSync
      BY <1>1, <2>1 DEF FilesInv, FollowOrder, Unnoticed
    <2>5. committed.generation \in Nat /\ \A r \in RowsFor(inode) : r.at.generation \in Nat
      BY FilesTypes DEF RowsFor
    <2>6. CASE rows' = rows /\ recorded' = recorded /\ result.lines = << >>
      <3>1. RowsFor(inode)' = RowsFor(inode) /\ \A top : TopRow(top)' <=> TopRow(top)
        BY <1>1, <2>6, SameRows
      <3>2. Rec' = Rec
        BY <1>6, <2>6 DEF Rec
      <3>3. RowsOrder'
        <4>1. CASE Fresh \/ Covered
          BY <1>6, <3>1, <3>2, <4>1 DEF RowsOrder, Fresh, Covered
        <4>2. CASE \E top : CutOff(top)
          <5>1. PICK top : CutOff(top)
            BY <4>2
          <5>2. CutOff(top)'
            BY <1>1, <1>6, <1>11, <2>1, <3>1, <3>2, <5>1 DEF CutOff
          <5> QED BY <5>2 DEF RowsOrder
        <4> QED BY <1>14, <4>1, <4>2 DEF FilesInv, RowsOrder
      <3>4. result.committed.offset # 0 => committed.offset # 0
        <4> SUFFICES ASSUME result.committed.offset # 0, committed.offset = 0 PROVE FALSE
          OBVIOUS
        <4>1. LinesTo(Text, result.committed) # << >>
          BY <1>4, <2>1, FilesTypes, LinesToPrefix
        <4>2. LinesTo(Text, committed) = << >>
          BY NoLines DEF LinesTo
        <4> QED BY <2>2, <2>4, <3>2, <4>1, <4>2 DEF InSync
      <3>5. FollowOrder'
        BY <1>1, <1>11, <1>14, <2>3, <2>4, <3>1, <3>4 DEF FollowOrder
      <3> QED BY <1>7, <1>9, <1>10, <3>3, <3>5 DEF FilesInv
    <2>7. CASE isNew(rows')
      <3>1. PICK top : /\ top \in rows' /\ top.inode = inode /\ top.at = result.committed
                       /\ \A r \in rows' : r = top \/ (r \in rows /\ ~key(r))
        BY <1>14, <2>7 DEF isNew
      <3>2. \A r \in rows : r.inode = inode /\ ~key(r) => r.at.generation < committed.generation
        BY <1>11, <1>14, <2>4, <2>5 DEF RowsFor
      <3> HIDE DEF key
      <3>3. /\ top \in RowsFor(inode)'
            /\ \A r \in RowsFor(inode)' : r = top \/ r.at.generation < committed.generation
        BY <1>1, <3>1, <3>2 DEF RowsFor
      <3>4. TopRow(top)'
        BY <1>11, <3>1, <3>3 DEF TopRow
      <3>5. Covered'
        BY <1>4, <1>6, <2>1, <2>2, <3>1, <3>4 DEF Covered
      <3>6. \A r \in RowsFor(inode)' : r.at.generation <= result.committed.generation
        <4>1. \A r \in rows' : r.at.generation \in Nat
          BY <3>1, <1>4, FilesTypes, OffsetIs
        <4>2. \A r \in RowsFor(inode)' : r \in rows'
          BY DEF RowsFor
        <4> QED BY <1>11, <2>5, <3>1, <3>3, <4>1, <4>2
      <3>7. FollowOrder'
        BY <1>1, <1>14, <2>3, <3>1, <3>3, <3>6 DEF FollowOrder
      <3> QED BY <1>7, <1>9, <1>10, <3>5, <3>7 DEF FilesInv, RowsOrder
    <2> QED BY <1>2, <2>6, <2>7
  <1> QED BY <1>12, <1>13, <1>14

LEMMA FilesInit == Init => FilesInv
  <1> SUFFICES ASSUME Init PROVE FilesInv
    OBVIOUS
  <1>1. /\ written = << << >> >> /\ inode = 1 /\ rows = {} /\ recorded = << >> /\ up = FALSE
        /\ identity.inode = NoInode /\ lastInode = NoInode /\ seen = 0 /\ ~result.pending
    BY DEF Init, NoIdentity, NoResult
  <1>2. Current = 1 /\ written[1] = << >> /\ Len(<< >>) = 0
    BY <1>1 DEF Current
  <1>3. \A i : LinesFrom(i, recorded) = << >>
    BY <1>1, LinesFromNone
  <1>4. DiskOrder
    <2>1. OfFile(<< >>, 1) /\ IsPrefix(<< >>, LinesOf(<< >>))
      BY <1>2, NoLines, NonePrefix DEF OfFile
    <2>2. \A i \in 1 .. 1 : i = 1
      OBVIOUS
    <2> QED BY <1>2, <1>3, <2>1, <2>2 DEF DiskOrder
  <1>5. Fresh /\ ~CutFile
    BY <1>1, <1>2, <1>3 DEF Fresh, RowsFor, Rec, CutFile
  <1> QED BY <1>1, <1>2, <1>4, <1>5
       DEF FilesInv, InodeOrder, PendingOrder, RowsOrder, FollowOrder, Following, NoInode

LEMMA FilesNext ==
  ASSUME Careful, TypeInv, FilesInv, TypeInv', [Next]_vars,
         [PollFails /\ CutFile => GenerationStored]_vars
  PROVE  FilesInv'
  <1>1. CASE WriteChar
    BY <1>1, FilesWrite
  <1>2. CASE Truncate
    BY <1>2, FilesTruncate
  <1>3. CASE RemoveFile
    BY <1>3, FilesRemove
  <1>4. CASE CreateFile
    BY <1>4, FilesCreate
  <1>5. CASE Kill
    <2>1. Stop("killed") /\ (CutFile => GenerationStored)
      BY <1>5 DEF Kill, Careful, FilesInv, InodeOrder
    <2> QED BY <2>1, FilesStop
  <1>6. CASE Start
    BY <1>6, FilesStart
  <1>7. CASE Poll
    BY <1>7, FilesPoll
  <1>8. CASE PollFails
    <2>1. (\E how : Stop(how)) /\ up
      BY <1>8 DEF PollFails
    <2>2. up' # up
      BY <2>1 DEF Stop
    <2>3. CutFile => GenerationStored
      BY <1>8, <2>2 DEF vars
    <2> QED BY <2>1, <2>3, FilesStop
  <1>9. CASE Persist
    BY <1>9, FilesPersist
  <1>10. CASE UNCHANGED vars
    <2>1. UNCHANGED <<written, inode, rows, recorded, committed, identity, lastInode, up, result, seen>>
      BY <1>10 DEF vars, diskVars, dbVars, watchVars
    <2> QED BY <2>1 DEF FilesInv, DiskOrder, InodeOrder, PendingOrder, RowsOrder, FollowOrder, Fresh,
                        Covered, CutOff, TopRow, RowsFor, Rec, Current, Text, CutFile, Following,
                        InSync, Unnoticed
  <1> QED BY <1>1, <1>2, <1>3, <1>4, <1>5, <1>6, <1>7, <1>8, <1>9, <1>10
       DEF Next, Environment

LEMMA FilesAreInOrder == TypeInv /\ FilesInv => RecordedInOrder
  <1> SUFFICES ASSUME TypeInv, FilesInv PROVE RecordedInOrder
    OBVIOUS
  <1>1. DOMAIN written = 1 .. Current
    BY DEF TypeInv, DiskInv, Current
  <1> QED BY <1>1 DEF RecordedInOrder, FilesInv, DiskOrder

(* However files are removed, created and cut with care, whatever is written  *)
(* and wherever the process is killed: what is on record of each file is its  *)
(* first lines, in order, each once, and none is spliced of two files         *)
(* (Watcher.Poll, isReplacement, GetFileState, persistPoll).                  *)
THEOREM FilesRecordedInOrder == Careful => (Spec /\ NoEarlyStop => []RecordedInOrder)
  <1> SUFFICES ASSUME Careful PROVE Spec /\ NoEarlyStop => []RecordedInOrder
    OBVIOUS
  <1>1. TypeInv /\ FilesInv /\ [Next]_vars /\ [PollFails /\ CutFile => GenerationStored]_vars
          => (TypeInv /\ FilesInv)'
    BY TypeNext, FilesNext
  <1> QED BY <1>1, TypeInit, FilesInit, FilesAreInOrder, PTL DEF Spec, NoEarlyStop
-------------------------------------------------------------------------------
(* Lines over the limit.                                                      *)

(* Nothing of more than MaxContent bytes without a line end was written.      *)
ShortLines == \A i \in DOMAIN written : ~LongStretch(written[i])

LEMMA RefusedIsLong ==
  ASSUME TypeInv, Placed(Text, PollFrom), Scan(PollFrom.partial, NewBytes(PollFrom)).failed
  PROVE  LongStretch(Text)
  <1> DEFINE from == PollFrom
             m    == from.offset + Len(from.partial)
  <1>1. from \in Offset /\ Text \in Seq(Byte) /\ Len(Text) \in Nat
    BY PollFromType, TextType DEF TypeInv
  <1> HIDE DEF from
  <1>2. /\ from.offset \in 0 .. Len(Text) /\ m \in from.offset .. Len(Text) /\ AtEnd(Text, from.offset)
        /\ from.partial = SubSeq(Text, from.offset + 1, m)
    BY <1>1, PlacedIs DEF from
  <1>3. Scan(from.partial, NewBytes(from)).failed
    BY DEF from
  <1>4. Scan(SubSeq(Text, from.offset + 1, m), SubSeq(Text, m + 1, Len(Text))).failed
    BY <1>2, <1>3 DEF NewBytes
  <1> HIDE DEF m
  <1> QED BY <1>1, <1>2, <1>4, ScanRefusesLongOnly

LEMMA StretchKept ==
  ASSUME NEW t \in Seq(Byte), NEW b \in Byte, LongStretch(t)
  PROVE  LongStretch(Append(t, b))
  <1>1. PICK e \in 0 .. Len(t) :
          \E n \in e .. Len(t) : n - e > MaxContent /\ \A i \in e + 1 .. n : t[i].ch # LF
    BY DEF LongStretch
  <1>2. PICK n \in e .. Len(t) : n - e > MaxContent /\ \A i \in e + 1 .. n : t[i].ch # LF
    BY <1>1
  <1>3. PICK u : u = Append(t, b)
    OBVIOUS
  <1>4. Len(t) \in Nat /\ Len(u) = Len(t) + 1 /\ \A i \in 1 .. Len(t) : u[i] = t[i]
    BY <1>3
  <1>5. e \in 0 .. Len(u) /\ n \in e .. Len(u) /\ \A i \in e + 1 .. n : i \in 1 .. Len(t)
    BY <1>4
  <1>6. LongStretch(u)
    BY <1>2, <1>4, <1>5 DEF LongStretch
  <1> QED BY <1>3, <1>6

(* While one file grows, the process only stops at a line it takes for too    *)
(* long (ErrLineTooLong) when more than MaxContent bytes of the file have no  *)
(* line end among them, whatever was kept of a line by polls and restarts.    *)
THEOREM RefusedForLength == Growing => (Spec => [](exit = "tooLong" => LongStretch(Text)))
  <1> DEFINE Refused == exit = "tooLong" => LongStretch(Text)
  <1> SUFFICES ASSUME Growing PROVE Spec => []Refused
    OBVIOUS
  <1>1. Init => Refused
    BY DEF Init
  <1>2. TypeInv /\ GrowInv /\ Refused /\ [Next]_vars => Refused'
    <2> SUFFICES ASSUME TypeInv, GrowInv, Refused, [Next]_vars PROVE Refused'
      OBVIOUS
    <2>1. CASE WriteChar
      <3>1. PICK b \in Byte : Text' = Append(Text, b)
        BY <2>1, GrowWrite
      <3>2. exit' = exit
        BY <2>1 DEF WriteChar
      <3> QED BY <3>1, <3>2, TextType, StretchKept DEF TypeInv
    <2>2. CASE PollFails
      <3>1. Text' = Text
        BY <2>2 DEF PollFails, Stop, diskVars, Text, Current
      <3>2. ASSUME exit' = "tooLong" PROVE LongStretch(Text)
        <4>1. up /\ Scan(PollFrom.partial, NewBytes(PollFrom)).failed
          BY <2>2, <3>2 DEF PollFails, Stop
        <4>2. Placed(Text, PollFrom)
          BY <4>1, PollFromInSync DEF GrowInv, WatchGrow, OneFile
        <4> QED BY <4>1, <4>2, RefusedIsLong
      <3> QED BY <3>1, <3>2
    <2>3. CASE Kill
      BY <2>3 DEF Kill, Stop
    <2>4. CASE Start \/ Poll \/ Persist \/ UNCHANGED vars
      <3>1. exit' = exit /\ written' = written
        BY <2>4 DEF Start, Poll, Persist, vars, diskVars
      <3> QED BY <3>1 DEF Text, Current
    <2>5. ~Truncate /\ ~RemoveFile /\ ~CreateFile
      BY DEF Growing, Truncate, RemoveFile, CreateFile, GrowInv, OneFile, NoInode
    <2> QED BY <2>1, <2>2, <2>3, <2>4, <2>5 DEF Next, Environment
  <1> HIDE DEF Refused
  <1> QED BY <1>1, <1>2, GrowAlways, PTL DEF Spec

(* Where no line is over the limit, the record of every file is its first     *)
(* lines, whatever files come and go, and no line stops the process.          *)
THEOREM ShortLinesRecordedInOrder ==
  Careful => (Spec /\ []ShortLines => [](RecordedInOrder /\ exit # "tooLong"))
  <1> SUFFICES ASSUME Careful
               PROVE  Spec /\ []ShortLines => [](RecordedInOrder /\ exit # "tooLong")
    OBVIOUS
  <1> DEFINE Inv == TypeInv /\ FilesInv /\ exit # "tooLong"
  <1>1. Init => Inv
    BY TypeInit, FilesInit DEF Init
  <1>2. Inv /\ ShortLines /\ [Next]_vars => Inv'
    <2> SUFFICES ASSUME Inv, ShortLines, [Next]_vars PROVE Inv'
      OBVIOUS
    <2>1. ASSUME PollFails PROVE inode = NoInode /\ exit' = "failure"
      <3> SUFFICES ASSUME up, inode # NoInode, Scan(PollFrom.partial, NewBytes(PollFrom)).failed
                   PROVE  FALSE
        BY <2>1 DEF PollFails, Stop
      <3>1. LongStretch(Text)
        BY PollFromRecord, RefusedIsLong
      <3>2. Current \in DOMAIN written
        BY FilesTypes DEF TypeInv, DiskInv, Current
      <3> QED BY <3>1, <3>2 DEF ShortLines, Text
    <2>2. [PollFails /\ CutFile => GenerationStored]_vars
      BY <2>1 DEF CutFile
    <2>3. TypeInv' /\ FilesInv'
      BY <2>2, TypeNext, FilesNext
    <2>4. exit' # "tooLong"
      <3>1. CASE PollFails
        BY <2>1, <3>1
      <3>2. CASE Kill
        BY <3>2 DEF Kill, Stop
      <3>3. CASE \/ WriteChar \/ Truncate \/ RemoveFile \/ CreateFile \/ Start \/ Poll \/ Persist
                 \/ UNCHANGED vars
        BY <3>3 DEF WriteChar, Truncate, RemoveFile, CreateFile, Start, Poll, Persist, vars
      <3> QED BY <3>1, <3>2, <3>3 DEF Next, Environment
    <2> QED BY <2>3, <2>4
  <1>3. Inv => RecordedInOrder /\ exit # "tooLong"
    BY FilesAreInOrder
  <1> HIDE DEF Inv
  <1> QED BY <1>1, <1>2, <1>3, PTL DEF Spec
=============================================================================
