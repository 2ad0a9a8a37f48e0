--------------------------- MODULE TerminalSessions ---------------------------
(***************************************************************************)
(* The terminal plugin's SessionManager (kyoube-terminal/src/sessions.ts): *)
(* shells behind a PTY, their output coalesced into numbered events, a     *)
(* scrollback bounded in bytes, and long-polls parked until the next       *)
(* event.  The worker is one JavaScript thread, so a method, a timer and a *)
(* PTY callback each run to their end: one action each.                    *)
(*                                                                         *)
(* A unit of output is the most text the shell writes in one go; texts are *)
(* told apart by where they start in all the session's output, which the   *)
(* history field `at` of an event records.                                 *)
(***************************************************************************)
EXTENDS Integers, FiniteSets, SequencesExt

CONSTANTS
    Sessions,       \* session ids, drawn at random and never reused
    NoSession,
    Users, Companies,
    Polls,          \* `terminal.wait` / `terminal.attach` calls in flight
    MaxPerUser,     \* maxSessionsPerUser
    EventUnits,     \* MAX_EVENT_BYTES
    Scrollback,     \* scrollbackBytes
    ExitUnits,      \* what an exit event counts for in the scrollback
    IdleTimeout, Retention,
    MaxWritten,     \* bound: output one shell writes
    MaxClock        \* bound: the clock, in sweeps

ASSUME ConstantsAssumption ==
    /\ NoSession \notin Sessions /\ Users # {} /\ Companies # {}
    /\ MaxPerUser \in Nat \ {0} /\ EventUnits \in Nat \ {0}
    /\ Scrollback \in Nat /\ ExitUnits \in Nat
    /\ IdleTimeout \in Nat \ {0} /\ Retention \in Nat
    /\ MaxWritten \in Nat /\ MaxClock \in Nat

VARIABLES
    session,        \* the map of sessions, with what is forgotten
    shell,          \* the process behind each session
    poll,           \* per call: parked, or its answer
    clock

vars == <<session, shell, poll, clock>>

-----------------------------------------------------------------------------
Caller == [user: Users, company: Companies]

Event == [seq: Nat, type: {"output", "exit"}, at: Nat, units: Nat]

SessionState ==
    [status: {"new", "alive", "dead", "forgotten"}, owner: Caller,
     buffer: Seq(Event), bytes: Nat, dropped: Nat, next: Nat \ {0},
     pending: Nat, flush: BOOLEAN,          \* pendingOutput, flushHandle # null
     active: Nat, died: Nat,
     written: Nat]                          \* history: output accepted so far

Answer == [kind: {"ok", "not_found", "forbidden"}, alive: BOOLEAN,
           events: Seq(Event), truncated: BOOLEAN]

Poll == [pc: {"idle", "parked", "answered"}, on: Sessions \cup {NoSession}, after: Nat, answer: Answer]

NoAnswer == [kind |-> "not_found", alive |-> FALSE, events |-> <<>>, truncated |-> FALSE]
NoPoll   == [pc |-> "idle", on |-> NoSession, after |-> 0, answer |-> NoAnswer]

Unopened == [status |-> "new", owner |-> CHOOSE who \in Caller : TRUE,
             buffer |-> <<>>, bytes |-> 0, dropped |-> 0, next |-> 1,
             pending |-> 0, flush |-> FALSE, active |-> 0, died |-> 0, written |-> 0]

Alive(s) == session[s].status = "alive"
Known(s) == session[s].status \in {"alive", "dead"}
LiveOf(who) == {s \in Sessions : Alive(s) /\ session[s].owner = who}

-----------------------------------------------------------------------------
(* A session's state on its own.                                           *)

Weight(events) ==
    LET upTo[i \in 0..Len(events)] == IF i = 0 THEN 0 ELSE upTo[i - 1] + events[i].units
    IN  upTo[Len(events)]

After(st, seq) ==
    LET kept[i \in 0..Len(st.buffer)] ==
            IF i = 0 THEN <<>>
            ELSE IF st.buffer[i].seq > seq THEN Append(kept[i - 1], st.buffer[i])
                                           ELSE kept[i - 1]
    IN  kept[Len(st.buffer)]

Snapshot(st, after) ==
    [kind |-> "ok", alive |-> st.status = "alive", events |-> After(st, after),
     truncated |-> after < st.dropped]

\* How many of the oldest events go while over the cap: never the last one.
Shifted(events, total) ==
    LET Left(k) == total - Weight(SubSeq(events, 1, k)) IN
    CHOOSE k \in 0..Len(events) - 1 :
        /\ k = Len(events) - 1 \/ Left(k) <= Scrollback
        /\ \A j \in 0..k - 1 : Left(j) > Scrollback

\* push.
Push(st, type, units) ==
    LET event == [seq |-> st.next, type |-> type, at |-> st.written - st.pending, units |-> units]
        buf   == Append(st.buffer, event)
        n     == Shifted(buf, st.bytes + units)
    IN  [st EXCEPT !.buffer = SubSeq(buf, n + 1, Len(buf)), !.next = @ + 1,
                   !.bytes = @ + units - Weight(SubSeq(buf, 1, n)),
                   !.dropped = IF n = 0 THEN @ ELSE buf[n].seq]

\* chunk: parts of at most EventUnits, the last one with the rest.
Parts(units) == (units + EventUnits - 1) \div EventUnits
PartUnits(units, i) == IF i < Parts(units) THEN EventUnits ELSE units - (i - 1) * EventUnits

\* One part pushed: its text is no longer pending.
PushPart(st, units) ==
    [Push(st, "output", units) EXCEPT !.pending = st.pending - units]

\* flushOutput up to its first push, which is the one that answers waiters.
FirstFlushed(st) == PushPart([st EXCEPT !.flush = FALSE], PartUnits(st.pending, 1))

\* flushOutput: on a dead session the pending text is thrown away.
Flushed(st) ==
    IF st.status # "alive" THEN [st EXCEPT !.flush = FALSE, !.pending = 0]
    ELSE LET part[i \in 0..Parts(st.pending)] ==
                 IF i = 0 THEN [st EXCEPT !.flush = FALSE]
                 ELSE PushPart(part[i - 1], PartUnits(st.pending, i))
         IN  part[Parts(st.pending)]

Pushes(st) == st.status = "alive" /\ st.pending > 0

EndedUnflushed(st) ==  \* mutant: the exit event overtakes the coalesced output
    Push([st EXCEPT !.status = "dead", !.died = clock], "exit", ExitUnits)
\* onExit and terminate: flush, mark dead, push the exit event.
Ended(st) ==
    Push([Flushed(st) EXCEPT !.status = "dead", !.died = clock], "exit", ExitUnits)

-----------------------------------------------------------------------------
(* A session and the calls parked on it.                                   *)

Parked(s) == {p \in Polls : poll[p].pc = "parked" /\ poll[p].on = s}

Answered(p, answer) == [poll[p] EXCEPT !.pc = "answered", !.answer = answer]

\* answerWaiters: every call parked on s sees the session as it is then.
AnswerParked(s, st) ==
    [p \in Polls |-> IF p \in Parked(s) THEN Answered(p, Snapshot(st, poll[p].after))
                                        ELSE poll[p]]

\* The first push of a method answers everybody; later ones find nobody.
Flush(s) ==
    /\ session' = [session EXCEPT ![s] = Flushed(@)]
    /\ poll' = IF Pushes(session[s]) THEN AnswerParked(s, FirstFlushed(session[s])) ELSE poll

End(s) ==
    /\ session' = [session EXCEPT ![s] = Ended(@)]
    /\ poll' = AnswerParked(s, IF Pushes(session[s]) THEN FirstFlushed(session[s])
                                                     ELSE Ended(session[s]))

Untouched == UNCHANGED <<session, poll>>

\* owned: another company's session looks like no session at all.
Refusal(s, who) ==
    IF ~Known(s) \/ session[s].owner.company # who.company THEN "not_found"
    ELSE IF session[s].owner # who THEN "forbidden" ELSE "none"

-----------------------------------------------------------------------------
(* The plugin's actions.                                                   *)

Open(s, who) ==
    /\ session[s].status = "new"
    /\ Cardinality(LiveOf(who)) < MaxPerUser
    /\ session' = [session EXCEPT ![s] = [@ EXCEPT !.status = "alive", !.owner = who,
                                                   !.active = clock]]
    /\ shell' = [shell EXCEPT ![s] = "running"]
    /\ UNCHANGED <<poll, clock>>

Refuse(p, s, after, why) ==
    /\ poll' = [poll EXCEPT ![p] = [pc |-> "answered", on |-> s, after |-> after,
                                    answer |-> [NoAnswer EXCEPT !.kind = why]]]
    /\ UNCHANGED session

\* A flush before the answer may itself answer calls that were parked.
FlushThen(s, p, result) ==
    /\ session' = [session EXCEPT ![s] = Flushed(@)]
    /\ poll' = [IF Pushes(session[s]) THEN AnswerParked(s, FirstFlushed(session[s])) ELSE poll
                EXCEPT ![p] = result]

Attach(p, s, who, after) ==
    LET st == Flushed(session[s])  why == Refusal(s, who) IN
    /\ poll[p].pc = "idle"
    /\ \/ why # "none" /\ Refuse(p, s, after, why)
       \/ /\ why = "none"
          /\ FlushThen(s, p, [pc |-> "answered", on |-> s, after |-> after,
                              answer |-> Snapshot(st, after)])
    /\ UNCHANGED <<shell, clock>>

WaitParksFirst(p, s, who, after, timeout) ==  \* mutant: parks without looking at the buffer
    LET why == Refusal(s, who) IN
    /\ poll[p].pc = "idle"
    /\ \/ why # "none" /\ Refuse(p, s, after, why)
       \/ /\ why = "none" /\ Alive(s) /\ timeout > 0
          /\ FlushThen(s, p, [pc |-> "parked", on |-> s, after |-> after, answer |-> NoAnswer])
    /\ UNCHANGED <<shell, clock>>
\* wait: answered at once when there is news, or none can come, or the caller
\* does not want to wait; else parked.
Wait(p, s, who, after, timeout) ==
    LET st  == Flushed(session[s])
        now == Snapshot(st, after)
        why == Refusal(s, who)
    IN
    /\ poll[p].pc = "idle"
    /\ \/ why # "none" /\ Refuse(p, s, after, why)
       \/ /\ why = "none"
          /\ now.events # <<>> \/ ~Alive(s) \/ timeout = 0
          /\ FlushThen(s, p, [pc |-> "answered", on |-> s, after |-> after, answer |-> now])
       \/ /\ why = "none"
          /\ now.events = <<>> /\ Alive(s) /\ timeout > 0
          /\ FlushThen(s, p, [pc |-> "parked", on |-> s, after |-> after, answer |-> NoAnswer])
    /\ UNCHANGED <<shell, clock>>

\* The timer of a parked call; it does not flush.
WaitTimeout(p) ==
    /\ poll[p].pc = "parked"
    /\ poll' = [poll EXCEPT ![p] =
                  Answered(p, Snapshot(session[poll[p].on], poll[p].after))]
    /\ UNCHANGED <<session, shell, clock>>

\* The answer has left the worker.
Collect(p) ==
    /\ poll[p].pc = "answered"
    /\ poll' = [poll EXCEPT ![p] = NoPoll]
    /\ UNCHANGED <<session, shell, clock>>

Input(s, who) ==
    /\ Refusal(s, who) = "none" /\ Alive(s)
    /\ session' = [session EXCEPT ![s].active = clock]
    /\ UNCHANGED <<shell, poll, clock>>

\* terminate: the PTY gets SIGHUP; whether or not it reports its exit at once,
\* the session is dead when the method returns.
Terminate(s) ==
    /\ End(s)
    /\ \E after \in {"hungup", "gone"} : shell' = [shell EXCEPT ![s] = after]

Close(s, who) ==
    /\ Refusal(s, who) = "none" /\ Alive(s)
    /\ Terminate(s)
    /\ UNCHANGED clock

\* kill: anybody the company lets in, not only the owner.
Kill(s, who) ==
    /\ Alive(s) /\ session[s].owner.company = who.company
    /\ Terminate(s)
    /\ UNCHANGED clock

-----------------------------------------------------------------------------
(* The PTY and the timers.                                                 *)

Coalesced(st, units) ==
    [st EXCEPT !.pending = @ + units, !.flush = TRUE, !.written = @ + units]

\* onData: dropped once the session is dead, else coalesced.
Data(s, units) ==
    /\ shell[s] \in {"running", "hungup"}
    /\ IF Alive(s)
       THEN /\ session[s].written + units <= MaxWritten
            /\ session' = [session EXCEPT ![s] = Coalesced(@, units)]
       ELSE UNCHANGED session
    /\ UNCHANGED <<shell, poll, clock>>

FlushTimer(s) ==
    /\ session[s].flush
    /\ Flush(s)
    /\ UNCHANGED <<shell, clock>>

\* onExit: the process is gone; the session hears of it unless it is dead.
Exit(s) ==
    /\ shell[s] \in {"running", "hungup"}
    /\ shell' = [shell EXCEPT ![s] = "gone"]
    /\ IF Alive(s) THEN End(s) ELSE Untouched
    /\ UNCHANGED clock

Idle(s)  == Alive(s) /\ clock - session[s].active >= IdleTimeout
Stale(s) == session[s].status = "dead" /\ clock - session[s].died >= Retention

\* Not modelled further: what is in a forgotten session.
Forgotten(st) == [Unopened EXCEPT !.status = "forgotten", !.owner = st.owner]

\* One pass: idle sessions end, sessions long dead are forgotten.
Swept(idle, stale) ==
    /\ session' = [s \in Sessions |-> IF s \in idle THEN Ended(session[s])
                                      ELSE IF s \in stale THEN Forgotten(session[s])
                                      ELSE session[s]]
    /\ poll' = [p \in Polls |->
                  LET s == poll[p].on  st == session[s]  after == poll[p].after IN
                  CASE p \in Parked(s) /\ s \in stale -> Answered(p, Snapshot(st, after))
                    [] p \in Parked(s) /\ s \in idle ->
                          Answered(p, Snapshot(IF Pushes(st) THEN FirstFlushed(st)
                                                            ELSE Ended(st), after))
                    [] OTHER -> poll[p]]

\* sweepIdle, every 30 seconds; a unit of the clock is one pass.
Sweep ==
    LET idle == {s \in Sessions : Idle(s)}  stale == {s \in Sessions : Stale(s)} IN
    /\ idle \cup stale # {}
    /\ Swept(idle, stale)
    /\ \E gone \in SUBSET idle :
          shell' = [s \in Sessions |-> IF s \in gone THEN "gone"
                                       ELSE IF s \in idle THEN "hungup" ELSE shell[s]]
    /\ UNCHANGED clock

\* shutdown: every live session is terminated, and the worker goes.
Shutdown ==
    LET live == {s \in Sessions : Alive(s)} IN
    /\ live # {}
    /\ Swept(live, {})
    /\ shell' = [s \in Sessions |-> IF s \in live THEN "hungup" ELSE shell[s]]
    /\ UNCHANGED clock

\* The worker is gone, by a crash or an upgrade: so is everything it knew.
Restart ==
    /\ \E s \in Sessions : Known(s)
    /\ session' = [s \in Sessions |-> IF Known(s) THEN Forgotten(session[s]) ELSE session[s]]
    /\ shell' = [s \in Sessions |-> IF shell[s] = "none" THEN "none" ELSE "gone"]
    /\ poll' = [p \in Polls |-> NoPoll]
    /\ UNCHANGED clock

Tick == clock < MaxClock /\ clock' = clock + 1 /\ UNCHANGED <<session, shell, poll>>

-----------------------------------------------------------------------------
Init ==
    /\ session = [s \in Sessions |-> Unopened]
    /\ shell = [s \in Sessions |-> "none"]
    /\ poll = [p \in Polls |-> NoPoll]
    /\ clock = 0

Requests ==
    \E s \in Sessions, who \in Caller :
        \/ Open(s, who) \/ Input(s, who) \/ Close(s, who) \/ Kill(s, who)
        \/ \E p \in Polls, after \in 0..session[s].next - 1 :
              \/ Attach(p, s, who, after)
              \/ \E timeout \in {0, 1} : Wait(p, s, who, after, timeout)

Worker ==
    \/ \E s \in Sessions : FlushTimer(s) \/ Exit(s) \/ \E n \in 1..MaxWritten : Data(s, n)
    \/ \E p \in Polls : WaitTimeout(p) \/ Collect(p)
    \/ Sweep \/ Shutdown \/ Restart \/ Tick

Next == Requests \/ Worker

Spec == Init /\ [][Next]_vars

-----------------------------------------------------------------------------
(* Correctness.                                                            *)

\* Every variable holds what the code's types allow.
TypeOK ==
    /\ session \in [Sessions -> SessionState]
    /\ shell \in [Sessions -> {"none", "running", "hungup", "gone"}]
    /\ poll \in [Polls -> Poll]
    /\ clock \in 0..MaxClock

\* A session ends once: a dead session's last event is its one exit event, a
\* live one has none (onExit, terminate, the guard in flushOutput).
OneExitAndLast ==
    \A s \in Sessions : Known(s) =>
        LET buf == session[s].buffer IN
        \A i \in DOMAIN buf :
            buf[i].type = "exit" <=> session[s].status = "dead" /\ i = Len(buf)

\* No output is lost, repeated or moved inside the worker: the kept events are
\* numbered without a gap from the last one shifted out, their texts abut, and
\* what has no event yet has a timer that will give it one (flushOutput, push).
OutputIsWhole ==
    \A s \in Sessions : Known(s) =>
        LET st == session[s]  buf == st.buffer  N == Len(buf) IN
        /\ st.next = st.dropped + N + 1
        /\ \A i \in 1..N : buf[i].seq = st.dropped + i
        /\ \A i \in 1..N : LET end == buf[i].at + (IF buf[i].type = "exit" THEN 0 ELSE buf[i].units)
                            IN  end = IF i < N THEN buf[i + 1].at ELSE st.written - st.pending
        /\ st.pending > 0 => Alive(s) /\ st.flush

\* The scrollback's byte count is right, so that it stays within its cap but
\* for a single last event (push).
ScrollbackIsBounded ==
    \A s \in Sessions : Known(s) =>
        LET st == session[s] IN
        /\ st.bytes = Weight(st.buffer)
        /\ st.bytes <= Scrollback \/ Len(st.buffer) = 1

\* A parked call has nothing to read: its session is alive and has no event
\* past what the caller has seen, so no event is ever slept through (wait,
\* push, terminate, forget).
NobodySleepsOnNews ==
    \A p \in Polls : poll[p].pc = "parked" =>
        /\ Alive(poll[p].on)
        /\ After(session[poll[p].on], poll[p].after) = <<>>

\* An answer leaves nothing out without saying so, marks nothing as lost that
\* is not, and reports the end only with the exit event (snapshot).
AnswersAreHonest ==
    \A p \in Polls : poll[p].pc = "answered" =>
        LET answer == poll[p].answer  ev == answer.events IN
        /\ answer.truncated <=> ev # <<>> /\ ev[1].seq > poll[p].after + 1
        /\ \A i \in 1..Len(ev) - 1 : ev[i + 1].seq = ev[i].seq + 1
        /\ ev # <<>> => (~answer.alive <=> Last(ev).type = "exit")
=============================================================================
