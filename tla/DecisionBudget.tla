--------------------------- MODULE DecisionBudget ---------------------------
(***************************************************************************)
(* Typed decisions and the daily budget they share: `decideRows`,          *)
(* `decide` and `decideOne` of `DecisionService` (kyoube-apps/src/         *)
(* decisions/service.ts), the reservations of store.ts and the retries of  *)
(* client.ts.                                                              *)
(*                                                                         *)
(* One batch of rows is decided by the workers of a pool, which a fill of  *)
(* AI columns or an app or agent asked for, while others ask single        *)
(* questions; the cap is changed and midnight passes meanwhile.  Time is   *)
(* what the provider and the pauses between attempts take; the database    *)
(* answers within the instant.                                             *)
(***************************************************************************)
EXTENDS Integers, FiniteSets

CONSTANTS
    Workers,            \* runPool's workers, at most ROW_CONCURRENCY
    Others,             \* single questions in flight
    BatchRows,          \* decideRows: how many rows
    RequestDeadline,    \* REQUEST_DEADLINE_MS
    BatchDeadline,      \* CALL_DEADLINE_MS
    MaxRetries,         \* MAX_RETRIES
    Delays,             \* retry-after, or the back-off
    Caps,               \* bound: the caps an admin sets
    UsedBefore,         \* bound: what the day has used when the model begins
    MaxQuestions,       \* bound: single questions asked
    MaxCapChanges,      \* bound: how often the cap is changed
    MaxInstant          \* bound: the clock

ASSUME BudgetAssumption ==
    /\ {BatchRows, RequestDeadline, BatchDeadline, MaxRetries, MaxQuestions, MaxCapChanges,
        MaxInstant} \subseteq Nat
    /\ Caps \subseteq Nat /\ UsedBefore \subseteq Nat /\ Delays \subseteq Nat
    /\ RequestDeadline <= BatchDeadline
    /\ IsFiniteSet(Workers) /\ IsFiniteSet(Others) /\ Workers \cap Others = {}

VARIABLES
    cap,        \* company_settings.decisions_daily_cap
    used,       \* decision_usage.requests, per day
    today, instant,
    batch,      \* decideRows: its surface, next row, results
    asker,      \* decideOne's locals, per worker and per single question
    tally       \* history: answers, what is lost, how far fills went, caps

budgetVars == <<cap, used, today, instant, batch, asker, tally>>

-----------------------------------------------------------------------------
Askers   == Workers \cup Others
Days     == 1..2
Instants == 0..MaxInstant
Fills    == {"columns", "apps"}

Asker == [pc: {"idle", "reserve", "fetch", "sleep", "release"},
          row: 0..BatchRows, surface: Fills, cap: Caps, day: Days,
          limit: 0..BatchDeadline,                  \* deadlineMs
          deadline: 0..(MaxInstant + BatchDeadline), attempt: 0..MaxRetries,
          until: 0..(MaxInstant + BatchDeadline)]

NotDeciding == [pc |-> "idle", row |-> 0, surface |-> "apps", cap |-> CHOOSE k \in Caps : TRUE,
                day |-> 1, limit |-> 0, deadline |-> 0, attempt |-> 0, until |-> 0]

Highest(S) == CHOOSE k \in S : \A j \in S : j <= k

\* The part of the daily cap the fill may use: nothing under a cap of 10.
FillShare(k) == IF k < 10 THEN 0 ELSE (k * 9) \div 10
LimitOf(surface, k) == IF surface = "columns" THEN FillShare(k) ELSE k

Deciding(c, step) == asker[c].pc = step

\* What the caller of decideOne does with its outcome: a worker stores its
\* row's result.
Returns(c, outcome) ==
    /\ asker' = [asker EXCEPT ![c] = NotDeciding]
    /\ batch' = IF c \in Workers
                THEN [batch EXCEPT !.result[asker[c].row] = @ \cup {outcome}] ELSE batch

-----------------------------------------------------------------------------
(* runPool and decideRows                                                  *)

NextRow(b) == b.next + 1

RowLimit == IF BatchDeadline - instant < RequestDeadline
            THEN BatchDeadline - instant ELSE RequestDeadline

TakeRow(c) ==
    /\ Deciding(c, "idle") /\ batch.next <= BatchRows
    /\ batch' = [batch EXCEPT !.next = NextRow(batch),
                    !.result[batch.next] = IF instant >= RequestDeadline THEN @ \cup {"timeout"} ELSE @]
    /\ asker' = IF instant >= RequestDeadline THEN asker
                ELSE [asker EXCEPT ![c] = [NotDeciding EXCEPT
                        !.pc = "reserve", !.row = batch.next, !.surface = batch.surface,
                        !.cap = batch.cap, !.day = today, !.limit = RowLimit]]
    /\ UNCHANGED <<cap, used, today, instant, tally>>

\* decide: one question, its switch and settings read now.
BeginDecide(c) ==
    /\ Deciding(c, "idle") /\ tally.questions < MaxQuestions
    /\ asker' = [asker EXCEPT ![c] = [NotDeciding EXCEPT
                    !.pc = "reserve", !.cap = cap, !.day = today, !.limit = RequestDeadline]]
    /\ tally' = [tally EXCEPT !.questions = @ + 1]
    /\ UNCHANGED <<cap, used, today, instant, batch>>

-----------------------------------------------------------------------------
(* decideOne                                                               *)

\* The row or the provider's key cannot be read.
DecideFails(c) ==
    /\ Deciding(c, "reserve")
    /\ Returns(c, "error")
    /\ UNCHANGED <<cap, used, today, instant, tally>>

\* reserveRequests: one statement on the day's row.
Fits(day, limit) == used[day] + 1 <= limit

Reserve(c) ==
    LET e == asker[c] IN
    /\ Deciding(c, "reserve") /\ Fits(e.day, LimitOf(e.surface, e.cap))
    /\ used' = [used EXCEPT ![e.day] = @ + 1]
    /\ tally' = [tally EXCEPT !.filledTo[e.day] =
                    IF e.surface = "columns" THEN Highest({@, used[e.day] + 1}) ELSE @]
    /\ asker' = [asker EXCEPT ![c].pc = "fetch", ![c].deadline = instant + e.limit]
    /\ UNCHANGED <<cap, today, instant, batch>>

BudgetExceeded(c) ==
    /\ Deciding(c, "reserve") /\ ~Fits(asker[c].day, LimitOf(asker[c].surface, asker[c].cap))
    /\ Returns(c, "budget_exceeded")
    /\ UNCHANGED <<cap, used, today, instant, tally>>

\* A usable answer, logged or not.
Answered(c) ==
    /\ Deciding(c, "fetch") /\ instant < asker[c].deadline
    /\ tally' = [tally EXCEPT !.answered[asker[c].day] = @ + 1]
    /\ Returns(c, "answer")
    /\ UNCHANGED <<cap, used, today, instant>>

GivesUp(c) == asker' = [asker EXCEPT ![c].pc = "release"]

\* The provider refuses, or answers what cannot be used.
Refused(c) ==
    /\ Deciding(c, "fetch") /\ instant < asker[c].deadline
    /\ GivesUp(c)
    /\ UNCHANGED <<cap, used, today, instant, batch, tally>>

\* Overloaded or out of reach: once more after a while, if there is time.
TryAgain(c) ==
    \E delay \in Delays :
        /\ Deciding(c, "fetch") /\ instant < asker[c].deadline
        /\ IF asker[c].attempt >= MaxRetries \/ instant + delay >= asker[c].deadline
           THEN GivesUp(c)
           ELSE asker' = [asker EXCEPT ![c].pc = "sleep", ![c].attempt = @ + 1,
                                       ![c].until = instant + delay]
        /\ UNCHANGED <<cap, used, today, instant, batch, tally>>

WakeUp(c) ==
    /\ Deciding(c, "sleep") /\ instant >= asker[c].until
    /\ asker' = [asker EXCEPT ![c].pc = "fetch", ![c].until = 0]
    /\ UNCHANGED <<cap, used, today, instant, batch, tally>>

TimedOut(c) ==
    /\ Deciding(c, "fetch") /\ instant >= asker[c].deadline
    /\ GivesUp(c)
    /\ UNCHANGED <<cap, used, today, instant, batch, tally>>

\* releaseRequests, GREATEST(requests - 1, 0), on the day it was reserved.
DayNow(e) == today  \* mutant: given back on the day the call failed
DayReleased(e) == e.day

Release(c) ==
    LET d == DayReleased(asker[c]) IN
    /\ Deciding(c, "release")
    /\ used' = [used EXCEPT ![d] = IF @ > 0 THEN @ - 1 ELSE 0]
    /\ Returns(c, "error")
    /\ UNCHANGED <<cap, today, instant, tally>>

ReleaseFails(c) ==
    /\ Deciding(c, "release")
    /\ tally' = [tally EXCEPT !.lost[asker[c].day] = @ + 1]
    /\ Returns(c, "error")
    /\ UNCHANGED <<cap, used, today, instant>>

-----------------------------------------------------------------------------
SetCap(k) ==
    /\ tally.changes < MaxCapChanges
    /\ cap' = k
    /\ tally' = [tally EXCEPT !.changes = @ + 1, !.highest = Highest({@, k})]
    /\ UNCHANGED <<used, today, instant, batch, asker>>

Midnight ==
    /\ today = 1
    /\ today' = 2
    /\ UNCHANGED <<cap, used, instant, batch, asker, tally>>

\* A fetch ends at its deadline and a pause at its end.
Elapse ==
    /\ instant < MaxInstant
    /\ \A c \in Askers : /\ asker[c].pc \notin {"reserve", "release"}
                         /\ Deciding(c, "fetch") => instant < asker[c].deadline
                         /\ Deciding(c, "sleep") => instant < asker[c].until
    /\ instant' = instant + 1
    /\ UNCHANGED <<cap, used, today, batch, asker, tally>>

BudgetInit ==
    /\ cap \in Caps
    /\ \E n \in UsedBefore :
          /\ used = [d \in Days |-> IF d = 1 THEN n ELSE 0]
          /\ tally = [answered |-> used, filledTo |-> [d \in Days |-> 0],
                      lost |-> [d \in Days |-> 0], highest |-> Highest({cap, n}), changes |-> 0, questions |-> 0]
    /\ today = 1 /\ instant = 0
    /\ \E s \in Fills :
          batch = [surface |-> s, cap |-> cap, next |-> 1, result |-> [i \in 1..BatchRows |-> {}]]
    /\ asker = [c \in Askers |-> NotDeciding]

DecideStep(c) ==
    \/ DecideFails(c) \/ Reserve(c) \/ BudgetExceeded(c)
    \/ Answered(c) \/ Refused(c) \/ TryAgain(c) \/ WakeUp(c) \/ TimedOut(c)
    \/ Release(c) \/ ReleaseFails(c)

BudgetNext ==
    \/ \E c \in Workers : TakeRow(c)
    \/ \E c \in Others : BeginDecide(c)
    \/ \E c \in Askers : DecideStep(c)
    \/ \E k \in Caps : SetCap(k)
    \/ Midnight \/ Elapse

BudgetSpec == BudgetInit /\ [][BudgetNext]_budgetVars

-----------------------------------------------------------------------------
BudgetTypeOK ==
    /\ cap \in Caps /\ used \in [Days -> Nat]
    /\ today \in Days /\ instant \in Instants
    /\ batch.next \in 1..(BatchRows + 1)
    /\ asker \in [Askers -> Asker]

Reserved(d) == {c \in Askers : asker[c].pc \in {"fetch", "sleep", "release"} /\ asker[c].day = d}

\* What a day has used is what was answered or is under way: a failed call
\* costs nothing, and gives back what it took on the day it took it, also
\* across midnight (decideOne, releaseRequests).
FailedCallsCostNothing ==
    \A d \in Days :
        used[d] = tally.answered[d] + tally.lost[d] + Cardinality(Reserved(d))

\* However many ask at once with settings they read before, a day never uses
\* more than a cap an admin has set, and AI columns never bring it past their share
\* of that cap (reserveRequests, fillShare).
CapIsKept ==
    \A d \in Days : /\ used[d] <= tally.highest
                    /\ tally.filledTo[d] <= FillShare(tally.highest)

\* Every row of a batch gets one result, and the provider never holds a batch
\* past its deadline: no row is begun late, and a row's own time is what is
\* left (decideRows, runPool, callSystemOne).
RowsAreDecidedOnceInTime ==
    /\ \A i \in 1..BatchRows : Cardinality(batch.result[i]) <= 1
    /\ batch.next > BatchRows /\ (\A c \in Workers : Deciding(c, "idle"))
            => \A i \in 1..BatchRows : batch.result[i] # {}
    /\ instant > BatchDeadline => \A c \in Workers : asker[c].row = 0
=============================================================================
