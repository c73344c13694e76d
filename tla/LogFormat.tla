------------------------------- MODULE LogFormat -------------------------------
(* internal/parser/version.go: the format a combat log claims to be in, and   *)
(* how it survives a restart as the parser state of the file row.             *)
EXTENDS Integers

Formats == {"none", "supported", "quarantined"}

Headers == {
  "supported",     \* COMBAT_LOG_VERSION with the supported version, retail
  "unsupported" }  \* another version or project, or a header that is malformed

(* applyVersion: a quarantine is for good.                                    *)
ApplyVersion(format, header) ==
  IF header = "supported" /\ format # "quarantined" THEN "supported" ELSE "quarantined"

(* ParseLine interprets a record only behind a supported header; any other    *)
(* record is a generic event that no observer looks at.                       *)
Interpreted(format) == format = "supported"

(* EncodeParserState and DecodeParserState, as far as the format goes: the    *)
(* iota of FormatState.                                                       *)
EncodeFormat(format) ==
  CASE format = "none" -> 0 [] format = "supported" -> 1 [] format = "quarantined" -> 2

DecodeFormat(code) ==
  CASE code = 0 -> "none" [] code = 1 -> "supported" [] code = 2 -> "quarantined"
=============================================================================
