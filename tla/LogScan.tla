------------------------------- MODULE LogScan -------------------------------
(* internal/parser, LineReader and ScanReaderFrom: bytes into lines, with the *)
(* unterminated tail handed back for the next scan.  A byte is a record; its  *)
(* field ch is the character.  A line keeps its LF as last element, which     *)
(* shows what an empty line was read from; its content is the rest.           *)
(*                                                                            *)
(* The chunks of one scan are one Write here: Write goes byte by byte, and    *)
(* where the chunks are cut makes no difference to it.                        *)
EXTENDS Integers, Sequences, FiniteSets, SequencesExt

CONSTANTS
  CR, LF,       \* the characters that can end a line
  MaxContent    \* maxLineSize: content bytes a line may have

ASSUME ScanAssumption == CR # LF /\ MaxContent \in Nat \ {0}

(* LineReader: buf is what was read of the unfinished line, failed is         *)
(* terminalErr.  A CR at the end of buf is the code's pendingCR: it counts as *)
(* content once another character follows, and is dropped when LF does.       *)
NewLineReader == [buf |-> << >>, lines |-> << >>, failed |-> FALSE]

Content(buf) == IF buf # << >> /\ Last(buf).ch = CR THEN Front(buf) ELSE buf

\* Mutant: every CR before the LF is dropped, not just one.
WriteByte_DropsCRs(r, b) ==
  IF r.failed THEN r
  ELSE IF b.ch = LF
       THEN [r EXCEPT !.lines = Append(@, Append(Content(Content(r.buf)), b)), !.buf = << >>]
       ELSE [r EXCEPT !.buf    = Append(@, b),
                      !.failed = Len(Content(Append(r.buf, b))) > MaxContent]

(* One byte of LineReader.Write; a failed reader stays failed.                *)
WriteByte(r, b) ==
  IF r.failed THEN r
  ELSE IF b.ch = LF
       THEN [r EXCEPT !.lines = Append(@, Append(Content(r.buf), b)), !.buf = << >>]
       ELSE [r EXCEPT !.buf    = Append(@, b),
                      !.failed = Len(Content(Append(r.buf, b))) > MaxContent]

(* LineReader.Write: after[n] is the reader after n bytes of the chunk.       *)
Write(r, chunk) ==
  LET after[n \in 0 .. Len(chunk)] ==
        IF n = 0 THEN r ELSE WriteByte(after[n - 1], chunk[n])
  IN  after[Len(chunk)]

(* Finalize: a held CR becomes content of the tail.                           *)
Finalize(r) == [r EXCEPT !.failed = @ \/ Len(r.buf) > MaxContent]

(* The reader after a scan: the pending tail first, then the bytes.           *)
Scan(pending, bytes) == Finalize(Write(Write(NewLineReader, pending), bytes))

\* Mutant: the tail is handed back but counted as consumed.
NextByteOffset_TailConsumed(fileStart, pending, bytes, tail) ==
  fileStart + Len(pending) + Len(bytes)

\* Mutant: the pending tail is not counted.
NextByteOffset_IgnoresPending(fileStart, pending, bytes, tail) ==
  fileStart + Len(bytes) - Len(tail)

(* nextByteOffset: behind the last complete line; the tail follows it.        *)
NextByteOffset(fileStart, pending, bytes, tail) ==
  fileStart + Len(pending) + Len(bytes) - Len(tail)

-------------------------------------------------------------------------------
(* What the lines of a text are, without a reader: each LF ends one, and one  *)
(* CR right before the LF does not belong to it.                              *)
LineEnds(text) == {i \in DOMAIN text : text[i].ch = LF}

NthLineEnd(text, n) ==
  CHOOSE i \in LineEnds(text) : Cardinality({j \in LineEnds(text) : j <= i}) = n

LineEndingAt(text, i) ==
  LET begin == 1 + Max({0} \union {j \in LineEnds(text) : j < i})
      last  == IF i > begin /\ text[i - 1].ch = CR THEN i - 2 ELSE i - 1
  IN  Append(SubSeq(text, begin, last), text[i])

LinesOf(text) ==
  [n \in 1 .. Cardinality(LineEnds(text)) |-> LineEndingAt(text, NthLineEnd(text, n))]

(* More than MaxContent bytes without a line end among them: what a reader    *)
(* may refuse.                                                                *)
LongStretch(text) ==
  \E e \in 0 .. Len(text) : \E n \in e .. Len(text) :
    n - e > MaxContent /\ \A i \in e + 1 .. n : text[i].ch # LF
=============================================================================
