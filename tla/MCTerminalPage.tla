--------------------------- MODULE MCTerminalPage ---------------------------
(***************************************************************************)
(* Small instances of TerminalPage for TLC.                                *)
(***************************************************************************)
EXTENDS TerminalPage, TLC

CONSTANTS s1, s2, u1, co, p1, p2

OneSession == {s1}
SessionPair == {s1, s2}
OnePoll == {p1}
PollPair == {p1, p2}
Alike == Permutations(SessionPair) \cup Permutations(PollPair)
MyPage == [user |-> u1, company |-> co]

\* The screen shows one session's output, and the variables keep their types
\* (session-stream.ts, TerminalPage.tsx).
OneSessionOnScreen == PageTypeOK /\ ScreenShowsOneSession
=============================================================================
