------------------------------ MODULE AppTasks ------------------------------
(***************************************************************************)
(* Tasks an app hands to an agent: `TaskService.start`, `cancel` and the   *)
(* reads (kyoube-apps/src/tasks/service.ts, store.ts), for one app.        *)
(*                                                                         *)
(* A task is a core issue plus a link row in kyoube_meta.app_tasks.  The   *)
(* two live in different systems: each call to the core, and each query,   *)
(* is one step of a call, may fail, and lets other calls, people and the   *)
(* agent in before the next one.  Checks that read and refuse before       *)
(* anything is written (row, levels, inputs, agent, assignment) are one    *)
(* step that passes or does not; the two limits are modelled in full.      *)
(***************************************************************************)
EXTENDS Integers, FiniteSets

CONSTANTS
    Callers,        \* plugin calls in flight
    Methods,        \* bound: which of start, cancel and get they call
    People, Managers,
    MaxIssues,      \* bound: issues ever created
    OpenLimit,      \* MAX_OPEN_PER_APP
    StartLimit,     \* START_PER_MINUTE
    Window,         \* START_WINDOW_MS, in clock units
    MaxClock,       \* bound: the clock
    MaxReopened     \* bound: finished issues somebody reopens

ASSUME ConstantsAssumption ==
    /\ IsFiniteSet(Callers) /\ Callers # {} /\ Methods \subseteq {"start", "cancel", "get"}
    /\ People # {} /\ Managers \subseteq People
    /\ MaxIssues \in Nat /\ OpenLimit \in Nat \ {0} /\ StartLimit \in Nat \ {0}
    /\ Window \in Nat \ {0} /\ MaxClock \in Nat /\ MaxReopened \in Nat

VARIABLES
    issue,          \* the core's issues
    link,           \* kyoube_meta.app_tasks, by issue
    audit,          \* kyoube_meta.audit, of this app's tasks
    call,           \* per caller: the locals of its method
    clock,
    past            \* history, per issue: what has happened to it

vars == <<issue, link, audit, call, clock, past>>

-----------------------------------------------------------------------------
Ids  == 1..MaxIssues
NoId == 0

\* backlog is like todo; in_review and blocked are like in_progress.
Working == {"todo", "in_progress"}
Final   == {"done", "cancelled"}
Status  == {"none", "deleted"} \cup Working \cup Final

Link == [kept: BOOLEAN, by: People, at: Nat, closed: BOOLEAN, waiting: BOOLEAN]

StartSteps  == {"rate", "openRows", "counting", "close", "create", "insert", "undo",
                "wake", "refused", "refusedClose", "refusedAudit", "reason"}
CancelSteps == {"find", "read", "conflict", "update", "audit", "cancelClose"}
ReadSteps   == {"load", "loadIssue", "loadClose"}

Call == [pc: {"idle"} \cup StartSteps \cup CancelSteps \cup ReadSteps,
         who: People, id: Ids \cup {NoId},
         closed: BOOLEAN,               \* row.closed, as read
         todo: SUBSET Ids, open: Nat,   \* openCount: rows to read, open so far
         done: BOOLEAN]                 \* history: the task was finished when the call began

Past == [final: BOOLEAN,            \* it has been done or cancelled
         reopened: BOOLEAN,         \* and set to work again
         woken: BOOLEAN]            \* the plugin has woken the agent for it

AnyPerson == CHOOSE p \in People : TRUE
Idle      == [pc |-> "idle", who |-> AnyPerson, id |-> NoId, closed |-> FALSE,
              todo |-> {}, open |-> 0, done |-> FALSE]
NoLink    == [kept |-> FALSE, by |-> AnyPerson, at |-> 0, closed |-> FALSE, waiting |-> FALSE]
Untouched == [final |-> FALSE, reopened |-> FALSE, woken |-> FALSE]

Exists(i)  == issue[i] \notin {"none", "deleted"}    \* issues.get returns it
IsOpen(i)  == issue[i] \in Working                   \* isOpenStatus(mapIssueStatus(...))
OpenRows   == {i \in Ids : link[i].kept /\ ~link[i].closed}
StartedSince(who, since) == {i \in Ids : link[i].kept /\ link[i].by = who /\ link[i].at >= since}

At(c, step)    == call[c].pc = step
Goto(c, step)  == call' = [call EXCEPT ![c].pc = step]
Return(c)      == call' = [call EXCEPT ![c] = Idle]
Set(i, status) ==
    /\ issue' = [issue EXCEPT ![i] = status]
    /\ past' = [past EXCEPT ![i].final = @ \/ status \in Final]

-----------------------------------------------------------------------------
(* start                                                                   *)

\* The checks that only read, all passed.
BeginStart(c, who) ==
    /\ At(c, "idle")
    /\ call' = [call EXCEPT ![c] = [Idle EXCEPT !.pc = "rate", !.who = who]]
    /\ UNCHANGED <<issue, link, audit, clock, past>>

CheckRate(c) ==
    /\ At(c, "rate")
    /\ IF Cardinality(StartedSince(call[c].who, clock - Window)) >= StartLimit
       THEN Return(c) ELSE Goto(c, "openRows")
    /\ UNCHANGED <<issue, link, audit, clock, past>>

\* openCount: the rows first, then each one's issue, up to ten at a time and
\* so in any order; a finished one is cached as closed.
ReadOpenRows(c) ==
    /\ At(c, "openRows")
    /\ call' = [call EXCEPT ![c].pc = "counting", ![c].todo = OpenRows, ![c].open = 0]
    /\ UNCHANGED <<issue, link, audit, clock, past>>

CountOne(c) ==
    \E i \in call[c].todo :
        /\ At(c, "counting")
        /\ call' = [call EXCEPT ![c].todo = @ \ {i}, ![c].open = IF IsOpen(i) THEN @ + 1 ELSE @,
                      ![c].id = IF issue[i] \in Final THEN i ELSE NoId,
                      ![c].pc = IF issue[i] \in Final THEN "close" ELSE "counting"]
        /\ UNCHANGED <<issue, link, audit, clock, past>>

\* close: markClosed, whose failure is only logged.
MarkClosed(i) == link' = [link EXCEPT ![i].closed = TRUE] \/ UNCHANGED link

CloseCounted(c) ==
    /\ At(c, "close")
    /\ MarkClosed(call[c].id)
    /\ call' = [call EXCEPT ![c].pc = "counting", ![c].id = NoId]
    /\ UNCHANGED <<issue, audit, clock, past>>

CheckOpenOneMore(c) ==  \* mutant: off by one
    /\ At(c, "counting") /\ call[c].todo = {}
    /\ IF call[c].open > OpenLimit THEN Return(c) ELSE Goto(c, "create")
    /\ UNCHANGED <<issue, link, audit, clock, past>>
CheckOpen(c) ==
    /\ At(c, "counting") /\ call[c].todo = {}
    /\ IF call[c].open >= OpenLimit THEN Return(c) ELSE Goto(c, "create")
    /\ UNCHANGED <<issue, link, audit, clock, past>>

Create(c) ==
    \E i \in Ids :
        /\ At(c, "create")
        /\ issue[i] = "none" /\ \A j \in 1..i - 1 : issue[j] # "none"
        /\ Set(i, "todo")
        /\ call' = [call EXCEPT ![c].pc = "insert", ![c].id = i]
        /\ UNCHANGED <<link, audit, clock>>

NewLink(c) == [NoLink EXCEPT !.kept = TRUE, !.by = call[c].who, !.at = clock]

InsertAfterWaking(c) ==  \* mutant: the wake-up does not wait for the row
    /\ At(c, "insert")
    /\ Goto(c, "wake")
    /\ UNCHANGED <<issue, link, audit, clock, past>>
\* The link and its audit row, in one transaction; without it the task goes.
Insert(c) ==
    LET i == call[c].id IN
    /\ At(c, "insert")
    /\ \/ /\ link' = [link EXCEPT ![i] = NewLink(c)]
          /\ audit' = audit \cup {<<"app_task_start", i>>}
          /\ Goto(c, "wake")
       \/ UNCHANGED <<link, audit>> /\ Goto(c, "undo")
    /\ UNCHANGED <<issue, clock, past>>

\* issues.update(..., cancelled): no matter what the status is by now.
Cancelled(i) ==
    /\ Exists(i)
    /\ issue' = [issue EXCEPT ![i] = "cancelled"]
    /\ past' = [past EXCEPT ![i].final = TRUE]

\* The cancel after a failed insert; when it fails too, only the log says so.
Undo(c) ==
    /\ At(c, "undo")
    /\ Cancelled(call[c].id) \/ UNCHANGED <<issue, past>>
    /\ Return(c)
    /\ UNCHANGED <<link, audit, clock>>

\* requestWakeup: queued, put off by the core's own scheduling, or refused.
Wake(c) ==
    LET i == call[c].id IN
    /\ At(c, "wake")
    /\ \/ past' = [past EXCEPT ![i].woken = TRUE] /\ Return(c)
       \/ past' = [past EXCEPT ![i].woken = TRUE] /\ Goto(c, "reason")
       \/ UNCHANGED past /\ Goto(c, "refused")
    /\ UNCHANGED <<issue, link, audit, clock>>

SetReason(c) ==
    /\ At(c, "reason")
    /\ link' = [link EXCEPT ![call[c].id].waiting = TRUE] \/ UNCHANGED link
    /\ Return(c)
    /\ UNCHANGED <<issue, audit, clock, past>>

\* cancelRefused: whatever becomes of it, the start answers that the task was
\* cancelled.
CancelRefused(c) ==
    LET i == call[c].id IN
    /\ At(c, "refused")
    /\ \/ Cancelled(i) /\ Goto(c, "refusedClose")
       \/ UNCHANGED <<issue, past>> /\ Return(c)
    /\ UNCHANGED <<link, audit, clock>>

CloseRefused(c) ==
    /\ At(c, "refusedClose")
    /\ MarkClosed(call[c].id)
    /\ Goto(c, "refusedAudit")
    /\ UNCHANGED <<issue, audit, clock, past>>

AuditRefused(c) ==
    LET i == call[c].id IN
    /\ At(c, "refusedAudit")
    /\ audit' = audit \cup {<<"app_task_cancel", i>>} \/ UNCHANGED audit
    /\ Return(c)
    /\ UNCHANGED <<issue, link, clock, past>>

-----------------------------------------------------------------------------
(* cancel                                                                  *)

BeginCancel(c, who, i) ==
    /\ At(c, "idle")
    /\ call' = [call EXCEPT ![c] = [Idle EXCEPT !.pc = "find", !.who = who, !.id = i,
                                                !.done = issue[i] \in Final]]
    /\ UNCHANGED <<issue, link, audit, clock, past>>

\* The link row, and the right to cancel.
Find(c) ==
    LET i == call[c].id IN
    /\ At(c, "find")
    /\ IF link[i].kept /\ (call[c].who = link[i].by \/ call[c].who \in Managers)
       THEN call' = [call EXCEPT ![c].pc = "read", ![c].closed = link[i].closed]
       ELSE Return(c)
    /\ UNCHANGED <<issue, link, audit, clock, past>>

ReadCachedStatus(c) ==  \* mutant: trusts the row's cached flag instead of the issue
    LET i == call[c].id IN
    /\ At(c, "read")
    /\ IF ~Exists(i) THEN Return(c)
       ELSE Goto(c, IF call[c].closed THEN "conflict" ELSE "update")
    /\ UNCHANGED <<issue, link, audit, clock, past>>
\* The issue's own status decides.
ReadStatus(c) ==
    LET i == call[c].id IN
    /\ At(c, "read")
    /\ IF ~Exists(i) THEN Return(c)
       ELSE Goto(c, IF IsOpen(i) THEN "update" ELSE "conflict")
    /\ UNCHANGED <<issue, link, audit, clock, past>>

CloseRow(c) == IF call[c].closed THEN UNCHANGED link ELSE MarkClosed(call[c].id)

Conflict(c) ==
    /\ At(c, "conflict")
    /\ CloseRow(c)
    /\ Return(c)
    /\ UNCHANGED <<issue, audit, clock, past>>

UpdateClosesFirst(c) ==  \* mutant: the row is closed before the core has cancelled the issue
    LET i == call[c].id IN
    /\ At(c, "update")
    /\ CloseRow(c)
    /\ \/ Cancelled(i) /\ Goto(c, "audit")
       \/ UNCHANGED <<issue, past>> /\ Return(c)
    /\ UNCHANGED <<audit, clock>>
Update(c) ==
    /\ At(c, "update")
    /\ Cancelled(call[c].id)
    /\ Goto(c, "audit")
    /\ UNCHANGED <<link, audit, clock>>

AuditCancel(c) ==
    /\ At(c, "audit")
    /\ audit' = audit \cup {<<"app_task_cancel", call[c].id>>}
    /\ Goto(c, "cancelClose")
    /\ UNCHANGED <<issue, link, clock, past>>

CloseCancelled(c) ==
    /\ At(c, "cancelClose")
    /\ CloseRow(c)
    /\ Return(c)
    /\ UNCHANGED <<issue, audit, clock, past>>

-----------------------------------------------------------------------------
(* get and list: each row is loaded on its own.                            *)

BeginLoad(c, who, i) ==
    /\ At(c, "idle")
    /\ call' = [call EXCEPT ![c] = [Idle EXCEPT !.pc = "load", !.who = who, !.id = i]]
    /\ UNCHANGED <<issue, link, audit, clock, past>>

LoadRow(c) ==
    LET i == call[c].id IN
    /\ At(c, "load")
    /\ IF link[i].kept
       THEN call' = [call EXCEPT ![c].pc = "loadIssue", ![c].closed = link[i].closed]
       ELSE Return(c)
    /\ UNCHANGED <<issue, link, audit, clock, past>>

LoadIssue(c) ==
    /\ At(c, "loadIssue")
    /\ IF issue[call[c].id] \in Final THEN Goto(c, "loadClose") ELSE Return(c)
    /\ UNCHANGED <<issue, link, audit, clock, past>>

LoadClose(c) ==
    /\ At(c, "loadClose")
    /\ CloseRow(c)
    /\ Return(c)
    /\ UNCHANGED <<issue, audit, clock, past>>

\* A rejected promise, or the worker restarts: the call is gone.
Fail(c) ==
    /\ ~At(c, "idle")
    /\ Return(c)
    /\ UNCHANGED <<issue, link, audit, clock, past>>

-----------------------------------------------------------------------------
(* The core: the agent at work, and people on the task's own page.         *)

Reopened == {i \in Ids : past[i].reopened}

Move(i, status) ==
    /\ Exists(i) /\ issue[i] # status
    /\ issue[i] \in Working
    /\ issue[i] = "todo" => past[i].woken \/ status = "cancelled"
    /\ Set(i, status)
    /\ UNCHANGED <<link, audit, call, clock>>

Reopen(i) ==
    /\ issue[i] \in Final /\ Cardinality(Reopened \cup {i}) <= MaxReopened
    /\ issue' = [issue EXCEPT ![i] = "todo"]
    /\ past' = [past EXCEPT ![i].reopened = TRUE]
    /\ UNCHANGED <<link, audit, call, clock>>

Delete(i) ==
    /\ Exists(i)
    /\ issue' = [issue EXCEPT ![i] = "deleted"]
    /\ UNCHANGED <<link, audit, call, clock, past>>

Tick == clock < MaxClock /\ clock' = clock + 1 /\ UNCHANGED <<issue, link, audit, call, past>>

-----------------------------------------------------------------------------
Init ==
    /\ issue = [i \in Ids |-> "none"]
    /\ link = [i \in Ids |-> NoLink]
    /\ audit = {}
    /\ call = [c \in Callers |-> Idle]
    /\ clock = 0
    /\ past = [i \in Ids |-> Untouched]

Begin(c) ==
    \E who \in People :
        \/ "start" \in Methods /\ BeginStart(c, who)
        \/ "cancel" \in Methods /\ \E i \in Ids : BeginCancel(c, who, i)
        \/ "get" \in Methods /\ \E i \in Ids : BeginLoad(c, who, i)

Step(c) ==
    \/ CheckRate(c) \/ ReadOpenRows(c) \/ CountOne(c) \/ CloseCounted(c) \/ CheckOpen(c)
    \/ Create(c) \/ Insert(c) \/ Undo(c) \/ Wake(c) \/ SetReason(c)
    \/ CancelRefused(c) \/ CloseRefused(c) \/ AuditRefused(c)
    \/ Find(c) \/ ReadStatus(c) \/ Conflict(c) \/ Update(c) \/ AuditCancel(c) \/ CloseCancelled(c)
    \/ LoadRow(c) \/ LoadIssue(c) \/ LoadClose(c)

Core ==
    \/ \E i \in Ids : \E status \in Status \ {"none", "todo", "deleted"} : Move(i, status)
    \/ \E i \in Ids : Reopen(i) \/ Delete(i)
    \/ Tick

Next ==
    \/ \E c \in Callers : Begin(c) \/ Step(c) \/ Fail(c)
    \/ Core

Spec == Init /\ [][Next]_vars

-----------------------------------------------------------------------------
(* Correctness.                                                            *)

\* Every variable holds what the code's types and columns allow.
TypeOK ==
    /\ issue \in [Ids -> Status]
    /\ link \in [Ids -> Link]
    /\ audit \subseteq {"app_task_start", "app_task_cancel"} \X Ids
    /\ call \in [Callers -> Call]
    /\ clock \in 0..MaxClock
    /\ past \in [Ids -> Past]

\* No link, no task: the plugin wakes the agent only for a task whose link and
\* audit row have been committed (start).
WokenOnlyWithItsLink ==
    \A i \in Ids : past[i].woken => link[i].kept /\ <<"app_task_start", i>> \in audit

\* The cached flag never hides a task that has not been finished: a row is
\* closed only once its issue has been seen done or cancelled (close).
ClosedHasBeenFinal == \A i \in Ids : link[i].closed => past[i].final

\* A task that a cancel found finished stays as it was: unless somebody set it
\* to work again meanwhile, `cancel` answers conflict (cancel).
CancelSparesTheFinished ==
    \A c \in Callers : At(c, "update") /\ call[c].done => past[call[c].id].reopened

\* However `racing` starts cross each other, each gets at most one task past the
\* limit: an app never has more unfinished tasks than the limit and the others.
NeverFinal == {i \in Ids : link[i].kept /\ IsOpen(i) /\ ~past[i].final}
OvershootIsBounded(racing) == Cardinality(NeverFinal) <= OpenLimit + racing - 1
=============================================================================
