---------------------------- MODULE MCDeathEvidence ----------------------------
(* A finite instance of DeathEvidence: one tracked player, another one, and   *)
(* the lines of one pull.                                                     *)
EXTENDS DeathEvidence

CONSTANTS p1, p2, fire, fall, boss, add

Header1(v) == [kind |-> "header", version |-> v]
Death1     == [kind |-> "died", who |-> p1]
End1(b)    == [kind |-> "encounterEnd", boss |-> b]
Start1(b)  == [kind |-> "encounterStart", boss |-> b]
Hit1(p, k, d) == [kind |-> "damage", who |-> p, key |-> k, damage |-> d]

(* Deaths, hits on the victim, and hits on somebody else between them.        *)
Fight == { Death1,
           Hit1(p1, fire, "overkill"), Hit1(p1, fall, "amount"), Hit1(p2, fire, "nothing") }

(* The game begins a log with a header.                                       *)
WithHeader == { << Header1("supported") >> }
Empty      == { << >> }

(* Headers, deaths and encounters.                                            *)
Pulls == Header \union { Death1, Start1(boss), Start1(add), End1(boss) }
=============================================================================
