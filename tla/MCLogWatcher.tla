----------------------------- MODULE MCLogWatcher -----------------------------
(* Finite instances of LogWatcher: the alphabets.                             *)
EXTENDS LogWatcher

CharsWithCR    == {"a", CR, LF}
CharsWithoutCR == {"a", LF}
=============================================================================
