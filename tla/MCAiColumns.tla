---------------------------- MODULE MCAiColumns ----------------------------
(***************************************************************************)
(* Small instances of AiColumns for TLC.                                   *)
(***************************************************************************)
EXTENDS AiColumns, TLC

CONSTANTS w1, w2, q1, q2, s1, s2

OneWriter == {w1}
WriterPair == {w1, w2}
OneQuestion == {q1}
QuestionPair == {q1, q2}
OneSource == {s1}
SourcePair == {s1, s2}
DataAlike == Permutations(QuestionPair) \cup Permutations(SourcePair)
=============================================================================
