---------------------------- MODULE TerminalPage ----------------------------
(***************************************************************************)
(* One person's terminal page on top of the SessionManager: the output     *)
(* loop of long-polls (ui/output-loop.ts), the stream that orders and      *)
(* de-duplicates what reaches the screen (ui/session-stream.ts), and the   *)
(* page's own start, resume and end (ui/TerminalPage.tsx).  Requests can   *)
(* be lost on either way, which leaves a call parked in the worker that    *)
(* nobody waits for, and other people can end the session.                 *)
(*                                                                         *)
(* A React state change and the effect it runs are one step, and so is a   *)
(* request with the worker's handling of it: between the two nothing that  *)
(* the request carries can change.                                         *)
(***************************************************************************)
EXTENDS TerminalSessions

CONSTANTS
    Me,             \* whose page it is
    MaxGen          \* bound: sessions begun on this page

ASSUME PageAssumption == Me \in Caller /\ MaxGen \in Nat

VARIABLES
    page,           \* the stream and the terminal
    loop,           \* the output loop of the current session
    req             \* per call: what the page wants its answer for

pageVars == <<page, loop, req>>
allVars  == <<vars, pageVars>>

Page == [gen: 0..MaxGen, last: Nat,          \* generation, tracker.lastSeq
         opening: SUBSET Sessions,           \* opened, answer under way
         ending: BOOLEAN,                    \* close under way
         about: Sessions \cup {NoSession},   \* history, of this generation: its session,
         shown: SUBSET (Sessions \X Nat),    \* the events on the screen,
         notices: SUBSET Nat,                \* where a loss was marked,
         text: Nat, exit: BOOLEAN]           \* how far the output goes, the exit

Loop == [pc: {"off", "ready", "polling", "sleeping", "ended", "failed"},
         gen: 0..MaxGen, on: Sessions \cup {NoSession}]

Request == [why: {"none", "poll", "resume"}, gen: 0..MaxGen]

Blank == [gen |-> 0, last |-> 0, opening |-> {}, ending |-> FALSE, about |-> NoSession,
          shown |-> {}, notices |-> {}, text |-> 0, exit |-> FALSE]
Off   == [pc |-> "off", gen |-> 0, on |-> NoSession]
NoReq == [why |-> "none", gen |-> 0]

\* The loop's `active()`, of the call p it has made.
Active(p) == loop.pc = "polling" /\ loop.gen = req[p].gen /\ loop.gen = page.gen

-----------------------------------------------------------------------------
(* The stream.                                                             *)

\* beginSession: a new generation, an empty tracker, a cleared terminal.
Begun(pg, s) == [Blank EXCEPT !.gen = pg.gen + 1, !.about = s,
                              !.opening = pg.opening, !.ending = pg.ending]

\* setSession: the effect starts the session's loop.
LoopOn(s, gen) == [pc |-> "ready", gen |-> gen, on |-> s]

ApplyUnmarked(pg, s, answer) ==  \* mutant: `truncated` only matters on the first fetch
    LET new == {i \in DOMAIN answer.events : answer.events[i].seq > pg.last}
        ev  == answer.events
        out == {i \in new : ev[i].type = "output"}
    IN  [pg EXCEPT
           !.notices = IF answer.truncated /\ pg.last = 0 THEN @ \cup {pg.last} ELSE @,
           !.shown = @ \cup {<<s, ev[i].seq>> : i \in new},
           !.last = IF new = {} THEN @ ELSE ev[Len(ev)].seq,
           !.text = IF out = {} THEN @ ELSE LET e == ev[Max(out)] IN e.at + e.units,
           !.exit = @ \/ new # out]
\* replay, once the fetch has answered: mark a loss, then apply each event
\* that is past the tracker.
Apply(pg, s, answer) ==
    LET new == {i \in DOMAIN answer.events : answer.events[i].seq > pg.last}
        ev  == answer.events
        out == {i \in new : ev[i].type = "output"}
    IN  [pg EXCEPT
           !.notices = IF answer.truncated THEN @ \cup {pg.last} ELSE @,
           !.shown = @ \cup {<<s, ev[i].seq>> : i \in new},
           !.last = IF new = {} THEN @ ELSE ev[Len(ev)].seq,
           !.text = IF out = {} THEN @ ELSE LET e == ev[Max(out)] IN e.at + e.units,
           !.exit = @ \/ new # out]

-----------------------------------------------------------------------------
(* The page.                                                               *)

\* startSession, up to its await.
StartSession(s) ==
    /\ Open(s, Me)
    /\ page' = [page EXCEPT !.opening = @ \cup {s}]
    /\ UNCHANGED <<loop, req>>

\* ... and after it; the answer may be lost, and the shell stays.
Started(s) ==
    /\ s \in page.opening
    /\ LET pg == [page EXCEPT !.opening = @ \ {s}] IN
       \/ /\ page.gen < MaxGen
          /\ page' = Begun(pg, s)
          /\ loop' = LoopOn(s, page.gen + 1)
       \/ page' = pg /\ UNCHANGED loop
    /\ UNCHANGED <<vars, req>>

ResumeSameStream(p, s) ==  \* mutant: the old generation is retired only by the answer
    /\ Attach(p, s, Me, 0)
    /\ loop' = Off
    /\ page' = [page EXCEPT !.about = s, !.shown = {}, !.notices = {}, !.text = 0, !.exit = FALSE]
    /\ req' = [req EXCEPT ![p] = [why |-> "resume", gen |-> page.gen]]
\* resumeSession: the old session is retired before the scrollback is asked for.
ResumeSession(p, s) ==
    /\ page.gen < MaxGen
    /\ Attach(p, s, Me, 0)
    /\ loop' = Off
    /\ page' = Begun(page, s)
    /\ req' = [req EXCEPT ![p] = [why |-> "resume", gen |-> page.gen + 1]]

\* A later start or resume has retired this one: its answer is dropped.
Resumed(p) ==
    LET answer == poll[p].answer IN
    /\ req[p].why = "resume"
    /\ Collect(p)
    /\ req' = [req EXCEPT ![p] = NoReq]
    /\ IF req[p].gen = page.gen /\ answer.kind = "ok"
       THEN /\ page' = Apply(page, poll[p].on, answer)
            /\ loop' = LoopOn(poll[p].on, page.gen)
       ELSE UNCHANGED <<page, loop>>

\* endSession, up to its await: the call may fail before it reaches the worker.
EndSession ==
    /\ loop.pc # "off" /\ ~page.ending
    /\ page' = [page EXCEPT !.ending = TRUE]
    /\ \/ Close(loop.on, Me)
       \/ UNCHANGED vars
    /\ UNCHANGED <<loop, req>>

\* ... and after it, whatever the page shows by then.
EndedSession ==
    /\ page.ending
    /\ page' = [page EXCEPT !.ending = FALSE]
    /\ loop' = Off
    /\ UNCHANGED <<vars, req>>

-----------------------------------------------------------------------------
(* The output loop.                                                        *)

PollFromStart(p) ==  \* mutant: every poll asks from the start
    /\ loop.pc = "ready"
    /\ Wait(p, loop.on, Me, 0, 1)
    /\ loop' = [loop EXCEPT !.pc = "polling"]
    /\ req' = [req EXCEPT ![p] = [why |-> "poll", gen |-> loop.gen]]
    /\ UNCHANGED page
\* One long-poll from the tracker's mark.
LoopPoll(p) ==
    /\ loop.pc = "ready"
    /\ Wait(p, loop.on, Me, page.last, 1)
    /\ loop' = [loop EXCEPT !.pc = "polling"]
    /\ req' = [req EXCEPT ![p] = [why |-> "poll", gen |-> loop.gen]]
    /\ UNCHANGED page

LoopAnswerEndsEarly(p) ==  \* mutant: the loop looks at the state before it applies the events
    LET answer == poll[p].answer IN
    /\ req[p].why = "poll"
    /\ Collect(p)
    /\ req' = [req EXCEPT ![p] = NoReq]
    /\ IF ~Active(p) THEN UNCHANGED <<page, loop>>
       ELSE IF answer.kind # "ok" \/ ~answer.alive
            THEN /\ loop' = [loop EXCEPT !.pc = IF answer.kind = "ok" THEN "ended" ELSE "failed"]
                 /\ UNCHANGED page
            ELSE /\ loop' = [loop EXCEPT !.pc = "ready"]
                 /\ page' = Apply(page, poll[p].on, answer)
LoopAnswerStopsWhenQuiet(p) ==  \* mutant: a poll that times out ends the loop
    LET answer == poll[p].answer IN
    /\ req[p].why = "poll"
    /\ Collect(p)
    /\ req' = [req EXCEPT ![p] = NoReq]
    /\ IF ~Active(p) THEN UNCHANGED <<page, loop>>
       ELSE IF answer.kind # "ok"
            THEN loop' = [loop EXCEPT !.pc = "failed"] /\ UNCHANGED page
            ELSE /\ loop' = [loop EXCEPT !.pc = IF answer.events # <<>> /\ answer.alive
                                                THEN "ready" ELSE "ended"]
                 /\ page' = Apply(page, poll[p].on, answer)
LoopAnswerNeverEnds(p) ==  \* mutant: the session's end does not end the loop
    LET answer == poll[p].answer IN
    /\ req[p].why = "poll"
    /\ Collect(p)
    /\ req' = [req EXCEPT ![p] = NoReq]
    /\ IF ~Active(p) THEN UNCHANGED <<page, loop>>
       ELSE IF answer.kind # "ok"
            THEN loop' = [loop EXCEPT !.pc = "failed"] /\ UNCHANGED page
            ELSE /\ loop' = [loop EXCEPT !.pc = "ready"]
                 /\ page' = Apply(page, poll[p].on, answer)
\* A stopped or retired loop applies nothing; not_found and forbidden are final.
LoopAnswer(p) ==
    LET answer == poll[p].answer IN
    /\ req[p].why = "poll"
    /\ Collect(p)
    /\ req' = [req EXCEPT ![p] = NoReq]
    /\ IF ~Active(p) THEN UNCHANGED <<page, loop>>
       ELSE IF answer.kind # "ok"
            THEN loop' = [loop EXCEPT !.pc = "failed"] /\ UNCHANGED page
            ELSE /\ loop' = [loop EXCEPT !.pc = IF answer.alive THEN "ready" ELSE "ended"]
                 /\ page' = Apply(page, poll[p].on, answer)

\* The request fails on its way: the loop backs off, a resume gives up.  What
\* the worker has parked stays there until its own timer.
Lose(p) ==
    /\ req[p].why # "none"
    /\ req' = [req EXCEPT ![p] = NoReq]
    /\ loop' = IF req[p].why = "poll" /\ Active(p) THEN [loop EXCEPT !.pc = "sleeping"] ELSE loop
    /\ UNCHANGED <<vars, page>>

LoopWake ==
    /\ loop.pc = "sleeping"
    /\ loop' = [loop EXCEPT !.pc = "ready"]
    /\ UNCHANGED <<vars, page, req>>

\* An answer nobody waits for any more.
Orphan(p) == req[p].why = "none" /\ Collect(p) /\ UNCHANGED pageVars

\* Every request under way fails with the worker.
WorkerRestarts ==
    /\ Restart
    /\ req' = [p \in Polls |-> NoReq]
    /\ loop' = IF loop.pc = "polling" THEN [loop EXCEPT !.pc = "sleeping"] ELSE loop
    /\ page' = [page EXCEPT !.opening = {}]

-----------------------------------------------------------------------------
PageInit ==
    /\ Init
    /\ page = Blank
    /\ loop = Off
    /\ req = [p \in Polls |-> NoReq]

Person ==
    \/ \E s \in Sessions : StartSession(s) \/ Started(s)
    \/ \E s \in Sessions, p \in Polls : ResumeSession(p, s)
    \/ EndSession \/ EndedSession

Browser ==
    \/ LoopWake
    \/ \E p \in Polls : LoopPoll(p) \/ LoopAnswer(p) \/ Resumed(p) \/ Lose(p)

Manager ==
    \/ WorkerRestarts
    \/ \E p \in Polls : Orphan(p)
    \/ /\ \/ \E s \in Sessions :
                \/ FlushTimer(s) \/ Exit(s) \/ Kill(s, Me)
                \/ \E n \in 1..MaxWritten : Data(s, n)
          \/ \E p \in Polls : WaitTimeout(p)
          \/ Sweep \/ Tick
       /\ UNCHANGED pageVars

PageNext == Person \/ Browser \/ Manager

PageSpec == PageInit /\ [][PageNext]_allVars

\* The timers fire, the browser runs its loop, and the network, however often
\* it loses a request, lets one through again and again.
Fairness ==
    /\ \A s \in Sessions : WF_allVars(FlushTimer(s) /\ UNCHANGED pageVars)
    /\ \A p \in Polls : /\ WF_allVars(WaitTimeout(p) /\ UNCHANGED pageVars)
                        /\ WF_allVars(Orphan(p))
    /\ WF_allVars(LoopWake)
    /\ WF_allVars(\E p \in Polls : LoopPoll(p))
    /\ SF_allVars(\E p \in Polls : LoopAnswer(p))

FairSpec == PageSpec /\ Fairness

-----------------------------------------------------------------------------
(* Correctness.                                                            *)

\* Every variable of the page holds what its types allow.
PageTypeOK ==
    /\ page \in Page
    /\ loop \in Loop
    /\ req \in [Polls -> Request]

\* The screen shows one session: nothing that a late answer for another brings
\* is ever written to it (beginSession, the generation check in replay).
ScreenShowsOneSession == \A e \in page.shown : e[1] = page.about

\* Output the terminal never got is marked where it is missing (replay).
NoSilentGap ==
    LET seqs == {e[2] : e \in page.shown} IN
    \A n \in 1..page.last : n \notin seqs =>
        \E g \in page.notices : g < n /\ \A m \in seqs : ~(g < m /\ m < n)

\* A loss is marked only where output is missing: a notice is followed by a gap.
NoFalseAlarm ==
    \A g \in page.notices : <<page.about, g + 1>> \notin page.shown

\* A loop that ended has put the exit, and all the output kept until then, on
\* the screen (runOutputLoop, push).
EndedAfterTheExit ==
    loop.pc = "ended" /\ loop.gen = page.gen => page.exit

\* What the page is following.
Follows(s) == loop.on = s /\ loop.pc \notin {"off", "failed"} /\ loop.gen = page.gen

\* What the shell writes reaches the screen, or output after it does, or the
\* exit (NoSilentGap: with a mark), unless the page leaves the session or the
\* session is gone (runOutputLoop).
OutputArrives ==
    \A s \in Sessions, n \in 1..MaxWritten :
        Follows(s) /\ session[s].written >= n ~> page.text >= n \/ page.exit \/ ~Follows(s)

\* The page learns that the shell has ended (onExit, runOutputLoop).
EndArrives ==
    \A s \in Sessions :
        Follows(s) /\ ~Alive(s) ~> loop.pc = "ended" \/ ~Follows(s)
=============================================================================
