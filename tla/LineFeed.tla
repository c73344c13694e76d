------------------------------- MODULE LineFeed -------------------------------
(* What following a combat log promises its reader: the complete lines the    *)
(* game wrote are recorded in order, each once and none left out.             *)
EXTENDS Integers, Sequences, SequencesExt

VARIABLES
  lines,      \* the complete lines written so far
  recorded    \* the lines on record

feedVars == <<lines, recorded>>

FeedInit == lines = << >> /\ recorded = << >>

Grow ==
  /\ IsStrictPrefix(lines, lines')
  /\ UNCHANGED recorded

Record ==
  /\ \E n \in Len(recorded) + 1 .. Len(lines) : recorded' = SubSeq(lines, 1, n)
  /\ UNCHANGED lines

FeedSafety == FeedInit /\ [][Grow \/ Record]_feedVars
=============================================================================
