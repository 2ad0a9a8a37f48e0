------------------------------ MODULE AppFrame ------------------------------
(***************************************************************************)
(* `kyoube.tasks.watch`: the callbacks a running app registers through the *)
(* SDK in its frame (packages/kyoube-app-sdk/src/sdk.ts), the messages to  *)
(* the host's bridge and back (ui/apps/bridge.ts), and the host's watcher, *)
(* which polls a task for the frame (ui/apps/task-watch.ts), as the runner *)
(* puts them together (AppRunner.tsx).                                     *)
(*                                                                         *)
(* Messages of a frame arrive in the order they were posted; answers of    *)
(* polls arrive late, and in any order.  Time is not counted: a watch may  *)
(* be polled, and may run out, and a call may time out, at any moment.     *)
(* The other messages of the bridge are not modelled.                      *)
(***************************************************************************)
EXTENDS Integers, Sequences, FiniteSets

CONSTANTS
    Listeners,      \* calls of `tasks.watch`, each with its callback
    Tasks,          \* the ids the app watches
    Slots,          \* APP_BUDGET.watches
    FinalVersion,   \* a task's versions are 1..FinalVersion, the last one final
    MaxWatches,     \* bound: watches the host ever starts
    MaxPosted       \* bound: messages posted and not handled, each way

ASSUME FrameAssumption == Slots \in Nat /\ FinalVersion \in Nat \ {0} /\ MaxWatches \in Nat /\ MaxPosted \in Nat

VARIABLES
    listener,       \* the SDK's taskWatchers and pending calls, per callback
    toHost, toFrame,\* messages posted and not yet handled
    slots,          \* the guard's `watched`
    watches,        \* the watcher's map: task -> its Watch
    watch,          \* the Watch objects, those no longer in the map included
    task,           \* the task's version on the server
    runner          \* [live, and as history: quiet]

frameVars == <<listener, toHost, toFrame, slots, watches, watch, task, runner>>

-----------------------------------------------------------------------------
WatchIds == 1..MaxWatches
NoWatch  == 0
NoPoll   == -1
NoTask   == "none"
Unread   == 0       \* a poll sent that the server has not answered; as `last`: null

\* `member`: in the callbacks of its task.  `call`: its tasks.watch request.
Callback == [task: Tasks \cup {NoTask}, member: BOOLEAN, call: {"unused", "pending", "settled"},
             heard: 0..FinalVersion]
NotWatching == [task |-> NoTask, member |-> FALSE, call |-> "unused", heard |-> 0]
WatchObject == [task: Tasks \cup {NoTask}, last: 0..FinalVersion, poll: NoPoll..FinalVersion]

Members(t) == {l \in Listeners : listener[l].member /\ listener[l].task = t}
Unused     == {w \in WatchIds : \A t \in Tasks : watches[t] # w /\ watch[w].poll = NoPoll}

ToHost(m)  == Len(toHost) < MaxPosted /\ toHost' = Append(toHost, m)
ToFrame(m) == Len(toFrame) < MaxPosted /\ toFrame' = Append(toFrame, m)

-----------------------------------------------------------------------------
(* The frame                                                               *)

WatchCall(l, t) ==
    /\ runner.live /\ listener[l].call = "unused"
    /\ listener' = [listener EXCEPT ![l] = [task |-> t, member |-> TRUE, call |-> "pending",
                                            heard |-> 0]]
    /\ ToHost([on |-> TRUE, task |-> t, by |-> l])
    /\ UNCHANGED <<toFrame, slots, watches, watch, task, runner>>

\* Only the last callback of a task tells the host.
TellsHost(l) == Members(listener[l].task) = {l}

StopCallback(l) ==
    LET t == listener[l].task IN
    /\ runner.live /\ listener[l].member
    /\ listener' = [listener EXCEPT ![l].member = FALSE]
    /\ IF TellsHost(l) THEN ToHost([on |-> FALSE, task |-> t, by |-> l]) ELSE UNCHANGED toHost
    /\ UNCHANGED <<toFrame, slots, watches, watch, task, runner>>

Rejected(l) == [listener EXCEPT ![l].call = "settled", ![l].member = FALSE]

CallTimesOut(l) ==
    /\ runner.live /\ listener[l].call = "pending"
    /\ listener' = Rejected(l)
    /\ UNCHANGED <<toHost, toFrame, slots, watches, watch, task, runner>>

HandleReply ==
    /\ toFrame # <<>> /\ "by" \in DOMAIN Head(toFrame)
    /\ LET m == Head(toFrame) IN
       listener' = IF listener[m.by].call # "pending" THEN listener
                   ELSE IF m.ok THEN [listener EXCEPT ![m.by].call = "settled"]
                   ELSE Rejected(m.by)
    /\ toFrame' = Tail(toFrame)
    /\ UNCHANGED <<toHost, slots, watches, watch, task, runner>>

HandleTaskEvent ==
    /\ toFrame # <<>> /\ "version" \in DOMAIN Head(toFrame)
    /\ LET m == Head(toFrame) IN
       listener' = [l \in Listeners |->
           IF l \in Members(m.task) THEN [listener[l] EXCEPT !.heard = m.version] ELSE listener[l]]
    /\ toFrame' = Tail(toFrame)
    /\ UNCHANGED <<toHost, slots, watches, watch, task, runner>>

-----------------------------------------------------------------------------
(* The host                                                                *)

\* end: out of the map, and its slot free.  `quietly`: at the time limit or a refusal.
EndWatch(t, quietly) ==
    /\ watches' = [watches EXCEPT ![t] = NoWatch]
    /\ slots' = slots \ {t}
    /\ runner' = [runner EXCEPT !.quiet = IF quietly THEN @ \cup {t} ELSE @]

\* A second watch: somebody new has heard nothing yet.
OnlyPolls(w) ==     \* mutant: the new callback waits for the next change
    [watch[w] EXCEPT !.poll = IF @ = NoPoll THEN Unread ELSE @]
Restarted(w) ==
    [watch[w] EXCEPT !.last = Unread, !.poll = IF @ = NoPoll THEN Unread ELSE @]

StartWatch(t) ==
    /\ slots' = slots \cup {t}
    /\ IF watches[t] # NoWatch
       THEN watch' = [watch EXCEPT ![watches[t]] = Restarted(watches[t])] /\ UNCHANGED watches
       ELSE \E w \in Unused :
               /\ \A x \in Unused : w <= x
               /\ watches' = [watches EXCEPT ![t] = w]
               /\ watch' = [watch EXCEPT ![w] = [task |-> t, last |-> Unread, poll |-> Unread]]
    /\ runner' = [runner EXCEPT !.quiet = @ \ {t}]

HasSlot(t) == t \in slots \/ Cardinality(slots) < Slots

HandleWatch ==
    /\ toHost # <<>> /\ Head(toHost).on
    /\ LET m == Head(toHost) IN
       /\ HasSlot(m.task)
       /\ StartWatch(m.task)
       /\ ToFrame([by |-> m.by, ok |-> TRUE])
    /\ toHost' = Tail(toHost)
    /\ UNCHANGED <<listener, task>>

HandleUnwatch ==
    /\ toHost # <<>> /\ ~Head(toHost).on
    /\ EndWatch(Head(toHost).task, FALSE)
    /\ toHost' = Tail(toHost)
    /\ UNCHANGED <<listener, toFrame, watch, task>>

\* Over the request budget (which takes an unwatch too), or no slot is free.
RefuseRequest ==
    /\ toHost # <<>>
    /\ IF Head(toHost).on THEN ToFrame([by |-> Head(toHost).by, ok |-> FALSE]) ELSE UNCHANGED toFrame
    /\ toHost' = Tail(toHost)
    /\ UNCHANGED <<listener, slots, watches, watch, task, runner>>

PollTick(t) ==
    LET w == watches[t] IN
    /\ w # NoWatch /\ watch[w].poll = NoPoll
    /\ watch' = [watch EXCEPT ![w].poll = Unread]
    /\ UNCHANGED <<listener, toHost, toFrame, slots, watches, task, runner>>

\* 30 minutes are over at a poll.
PollFindsTimeUp(t) ==
    /\ watches[t] # NoWatch
    /\ EndWatch(t, TRUE)
    /\ UNCHANGED <<listener, toHost, toFrame, watch, task>>

ServerReadsTask(w) ==
    /\ watch[w].poll = Unread
    /\ watch' = [watch EXCEPT ![w].poll = task[watch[w].task]]
    /\ UNCHANGED <<listener, toHost, toFrame, slots, watches, task, runner>>

\* The map still holds this Watch, not a later one of the same task.
StillWatched(w)   == watches[watch[w].task] # NoWatch     \* mutant: any watch of the task will do
StillThisWatch(w) == watches[watch[w].task] = w

PollAnswered(w) ==
    LET t == watch[w].task  seen == watch[w].poll IN
    /\ seen \notin {NoPoll, Unread}
    /\ IF StillThisWatch(w)
       THEN /\ watch' = [watch EXCEPT ![w].poll = NoPoll, ![w].last = seen]
            /\ IF seen # watch[w].last THEN ToFrame([task |-> t, version |-> seen])
                                       ELSE UNCHANGED toFrame
            /\ IF seen = FinalVersion THEN EndWatch(t, FALSE) ELSE UNCHANGED <<slots, watches, runner>>
       ELSE /\ watch' = [watch EXCEPT ![w].poll = NoPoll]
            /\ UNCHANGED <<toFrame, slots, watches, runner>>
    /\ UNCHANGED <<listener, toHost, task>>

\* An error is waited out; the worker's refusal ends the watch.
PollFails(w) ==
    /\ watch[w].poll # NoPoll
    /\ watch' = [watch EXCEPT ![w].poll = NoPoll]
    /\ \/ UNCHANGED <<slots, watches, runner>>
       \/ StillThisWatch(w) /\ EndWatch(watch[w].task, TRUE)
    /\ UNCHANGED <<listener, toHost, toFrame, task>>

\* The runner stops (budget, nonce, navigation) or unmounts: the frame is gone.
StopRunner ==
    /\ runner.live
    /\ listener' = [l \in Listeners |-> NotWatching]
    /\ runner' = [live |-> FALSE, quiet |-> Tasks]
    /\ watches' = [t \in Tasks |-> NoWatch]
    /\ slots' = {}
    /\ toHost' = <<>> /\ toFrame' = <<>>
    /\ UNCHANGED <<watch, task>>

-----------------------------------------------------------------------------
TaskMovesOn(t) ==
    /\ runner.live /\ task[t] < FinalVersion
    /\ \A u \in Tasks \ {t} : task[u] = 1      \* bound: one task changes
    /\ task' = [task EXCEPT ![t] = @ + 1]
    /\ UNCHANGED <<listener, toHost, toFrame, slots, watches, watch, runner>>

FrameInit ==
    /\ listener = [l \in Listeners |-> NotWatching]
    /\ toHost = <<>> /\ toFrame = <<>>
    /\ slots = {}
    /\ watches = [t \in Tasks |-> NoWatch]
    /\ watch = [w \in WatchIds |-> [task |-> NoTask, last |-> Unread, poll |-> NoPoll]]
    /\ task = [t \in Tasks |-> 1]
    /\ runner = [live |-> TRUE, quiet |-> {}]

FrameNext ==
    \/ \E l \in Listeners : StopCallback(l) \/ CallTimesOut(l) \/ \E t \in Tasks : WatchCall(l, t)
    \/ HandleReply \/ HandleTaskEvent
    \/ HandleWatch \/ HandleUnwatch \/ RefuseRequest
    \/ \E t \in Tasks : PollTick(t) \/ PollFindsTimeUp(t) \/ TaskMovesOn(t)
    \/ \E w \in WatchIds : ServerReadsTask(w) \/ PollAnswered(w) \/ PollFails(w)
    \/ StopRunner

FrameSpec == FrameInit /\ [][FrameNext]_frameVars

-----------------------------------------------------------------------------
FrameTypeOK ==
    /\ listener \in [Listeners -> Callback]
    /\ slots \subseteq Tasks
    /\ watches \in [Tasks -> WatchIds \cup {NoWatch}]
    /\ watch \in [WatchIds -> WatchObject]
    /\ task \in [Tasks -> 1..FinalVersion]
    /\ runner \in [live: BOOLEAN, quiet: SUBSET Tasks]

\* However watches of one task are ended, started again and restarted while
\* polls are in flight, a callback never hears of a version older than one it
\* has heard (task-watch.ts, the check of every answer against the map).
NeverHearsOlder == runner'.live => \A l \in Listeners : listener'[l].heard >= listener[l].heard

\* A callback whose watch was granted knows what the host posted last, also
\* when the host was watching for another callback before; and when the watch
\* has ended at a final status, it has heard that (start, poll, unwatch).
WatchersHearTheNews ==
    \A l \in Listeners :
        LET t == listener[l].task  w == watches[t] IN
        (/\ listener[l].member /\ listener[l].call = "settled"
         /\ \A i \in DOMAIN toFrame : "version" \notin DOMAIN toFrame[i]) =>
            IF w = NoWatch THEN t \in runner.quiet \/ listener[l].heard = FinalVersion
            ELSE watch[w].last \in {Unread, listener[l].heard}

\* The guard's slots are the watches that run: none leaks at a final status, a
\* refusal or the time limit, and none is free while its task is polled.
SlotsAreWatches == slots = {t \in Tasks : watches[t] # NoWatch}
=============================================================================
