----------------------------- MODULE MCGuardrail -----------------------------
(***************************************************************************)
(* Small instances of Guardrail for TLC.                                   *)
(***************************************************************************)
EXTENDS Guardrail, TLC

CONSTANTS c1, c2, del, drop, i1, i2

OneCaller == {c1}
CallerPair == {c1, c2}
JustDelete == {del}
OneIssue == {i1}
TwoIssues == {i1, i2}

CallersAlike == Permutations(CallerPair)
=============================================================================
