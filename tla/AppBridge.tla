----------------------------- MODULE AppBridge -----------------------------
(***************************************************************************)
(* The page that runs an app (ui/apps/AppsPage.tsx, AppRunner.tsx), the    *)
(* bridge that acts on the frame's messages (bridge.ts), the guard that    *)
(* bounds what one frame may ask for, and the saves a person may have to   *)
(* confirm (download.ts), with the app's SDK (packages/kyoube-app-sdk) at  *)
(* the other end.                                                          *)
(*                                                                         *)
(* A tick is 5 s: the guard's window is two ticks, a save waits for five   *)
(* and a call for six.  Time passes only when no message waits and no      *)
(* timer is due.  An answer reaches the app as soon as it is posted.       *)
(* Watches of tasks are in AppFrame; leaving the page is, for a frame,     *)
(* what a reload is.                                                       *)
(***************************************************************************)
EXTENDS Integers, Sequences, FiniteSets

CONSTANTS
    Calls,           \* calls an app makes through the SDK, used again once settled
    Links,          \* the connections the app's manifest declares
    Allowance,        \* SPEND_MAX
    Span,           \* APP_BUDGET.windowMs, and openMs
    LimitedWindows, \* APP_BUDGET.limitedWindows
    Mismatches,     \* MAX_NONCE_MISMATCHES
    SaveWait,       \* DOWNLOAD_PROMPT_MS
    CallWait,       \* the SDK's patience with a call
    LastVersion,    \* bound: versions of the app published
    MaxTick,        \* bound: the time
    MaxMounts,      \* bound: frames the page ever shows
    MaxPosts        \* bound: messages waiting at once


VARIABLES
    tick,
    page,       \* the version published, answers of apps.runtime under way, the version shown
    mount,      \* the frame: its document, and the runner's refs
    guard,      \* createAppGuard's state of this mount
    posts,      \* messages posted to the page and not handled
    ask,        \* the calls: where the host is with each, what the SDK's promise settled with
    save,       \* the controller's `waiting`, and the bar the person sees
    diary       \* history of this mount

bridgeVars == <<tick, page, mount, guard, posts, ask, save, diary>>

-----------------------------------------------------------------------------
Never  == -(2 * Span)   \* further back than two windows
Nobody_ == "nobody"
Hello  == "hello"
Rates  == {"request", "toast", "decision", "connection", "download"}  \* `decision`: task starts too

ASSUME BridgeAssumption ==
    /\ {Span, LimitedWindows, Mismatches, LastVersion} \subseteq Nat \ {0}
    /\ {SaveWait, CallWait, MaxTick, MaxMounts, MaxPosts} \subseteq Nat /\ SaveWait < CallWait
    /\ Allowance \in [Rates -> Nat]
    /\ {Nobody_, Hello} \cap Calls = {}

Kinds  == (Rates \ {"request"}) \cup {"data", "open", "invalid"}      \* `data`: outcomes, task reads

NewGuard == [misses |-> 0, reason |-> "none", spent |-> [k \in Rates |-> <<>>],
             disabled |-> {}, opened |-> Never, limitedAt |-> Never, run |-> 0]
\* ran: when each kind was carried out.  late: something was, after the stop.
NewDiary == [ran |-> [k \in Rates \cup {"open"} |-> <<>>], refusals |-> {}, warned |-> <<>>,
             left |-> FALSE, late |-> FALSE]
NoFrame  == [id |-> 0, live |-> FALSE, built |-> 0, heard |-> 0, loads |-> 0, due |-> 0, doc |-> "none"]
NoSave   == [waiting |-> Nobody_, until |-> 0, bar |-> Nobody_]
Unasked  == [at |-> "idle", kind |-> "data", name |-> Nobody_, mount |-> 0, since |-> 0,
             told |-> "none", saved |-> FALSE]

-----------------------------------------------------------------------------
(* The guard                                                               *)

\* What a window has passed since is shifted off the front.
IsFront(times, n) == /\ \A i \in 1..n : tick - times[i] >= Span
                     /\ n < Len(times) => tick - times[n + 1] < Span
Passed(times) == CHOOSE n \in 0..Len(times) : IsFront(times, n)
InSpan(g, k)     == SubSeq(g.spent[k], Passed(g.spent[k]) + 1, Len(g.spent[k]))
Affordable(g, k) == Len(InSpan(g, k)) < Allowance[k]

\* Refusals inside one window count once, and a clear window between two ends the run.
Refused(g) ==
    IF tick - g.limitedAt < Span THEN g
    ELSE LET run == IF tick - g.limitedAt < 2 * Span THEN g.run + 1 ELSE 1 IN
         [g EXCEPT !.run = run, !.limitedAt = tick,
                   !.reason = IF run >= LimitedWindows /\ @ = "none" THEN "budget" ELSE @]

Charged(g, k) ==
    IF k \notin Rates THEN g
    ELSE IF Affordable(g, k) THEN [g EXCEPT !.spent[k] = Append(InSpan(g, k), tick)]
    ELSE Refused([g EXCEPT !.spent[k] = InSpan(g, k)])

Mismatched(g) ==
    [g EXCEPT !.misses = @ + 1,
              !.reason = IF g.misses + 1 >= Mismatches /\ @ = "none" THEN "nonce" ELSE @]

StoppedAs(g, why) == IF g.reason = "none" THEN [g EXCEPT !.reason = why] ELSE g

OpenAllowed(g) == tick - g.opened >= Span

\* What a kind may still be refused for once its request is charged.
Allowed(g, k) == IF k = "open" THEN OpenAllowed(g) ELSE k \in Rates => Affordable(g, k)
Spent(g, k)   == IF k = "open" /\ OpenAllowed(g) THEN [g EXCEPT !.opened = tick] ELSE Charged(g, k)

-----------------------------------------------------------------------------
(* The runner's stop and unmount, and its answers                          *)

LiveUntilRendered(g) == mount.live      \* mutant: left to the effect's cleanup
LiveAfter(g) == mount.live /\ g.reason = "none"

\* reply: only while this mount is live, and only its own document's promise hears it.
Hears(m, a, told) ==
    [a EXCEPT !.at = "idle",
              !.told = IF a.mount = m.id /\ m.live /\ m.doc = "app" /\ @ = "pending" THEN told ELSE @]

\* downloads.dispose: the waiting save ends, its answer dropped with the runner.
Disposed(asks) ==
    [c \in Calls |-> IF c = save.waiting THEN [asks[c] EXCEPT !.at = "idle"] ELSE asks[c]]
DisposedSave == [save EXCEPT !.waiting = Nobody_]

\* The guard is now `g`, and the runner stopped if it says so.
Guarded(g, asks, saving) ==
    /\ guard' = g
    /\ mount' = [mount EXCEPT !.live = LiveAfter(g)]
    /\ ask'  = IF g.reason = "none" THEN asks ELSE Disposed(asks)
    /\ save' = IF g.reason = "none" THEN saving ELSE DisposedSave

Ran(k) == [diary EXCEPT !.ran[k] = Append(@, tick), !.late = @ \/ guard.reason # "none"]

-----------------------------------------------------------------------------
(* The page                                                                *)

MountKey(v)     == v            \* slug@version; the page's slug is fixed

Publish ==
    /\ page.published < LastVersion
    /\ page' = [page EXCEPT !.published = @ + 1]
    /\ UNCHANGED <<tick, mount, guard, posts, ask, save, diary>>

Unmounted == mount' = NoFrame /\ ask' = Disposed(ask) /\ save' = NoSave

Reload ==
    /\ page' = [page EXCEPT !.shown = 0, !.loading = @ \cup {page.published}]
    /\ Unmounted
    /\ UNCHANGED <<tick, guard, posts, diary>>

\* Loads are answered in any order, an older one over a newer.
RuntimeAnswers(v) ==
    /\ v \in page.loading
    /\ IF mount.id # 0 /\ MountKey(v) = MountKey(page.shown)
       THEN /\ page' = [page EXCEPT !.loading = @ \ {v}, !.shown = v]
            /\ mount' = IF v = page.shown THEN mount
                        ELSE [mount EXCEPT !.built = v, !.heard = 0, !.due = @ + 1]
            /\ UNCHANGED <<guard, ask, save, diary>>
       ELSE /\ page.mounts < MaxMounts
            /\ page' = [page EXCEPT !.loading = @ \ {v}, !.shown = v, !.mounts = @ + 1]
            /\ mount' = [id |-> page.mounts + 1, live |-> TRUE, built |-> v, heard |-> 0,
                         loads |-> 0, due |-> 1, doc |-> "app"]
            /\ guard' = NewGuard /\ diary' = NewDiary
            /\ ask' = Disposed(ask) /\ save' = NoSave
    /\ UNCHANGED <<tick, posts>>

RuntimeFails(v) ==
    /\ v \in page.loading
    /\ page' = [page EXCEPT !.loading = @ \ {v}]
    /\ UNCHANGED <<tick, mount, guard, posts, ask, save, diary>>

\* onLoad counts: the first is the srcdoc's, or of the document the app went to before it.
FrameLoads ==
    /\ mount.due > 0
    /\ LET g == IF mount.loads > 0 THEN StoppedAs(guard, "navigated") ELSE guard IN
       /\ guard' = g
       /\ mount' = [mount EXCEPT !.due = @ - 1, !.loads = @ + 1, !.live = LiveAfter(g)]
       /\ ask'  = IF g.reason = "none" THEN ask ELSE Disposed(ask)
       /\ save' = IF g.reason = "none" THEN save ELSE DisposedSave
    /\ UNCHANGED <<tick, page, posts, diary>>

-----------------------------------------------------------------------------
(* The frame                                                               *)

Posted(m) == Len(posts) < MaxPosts /\ posts' = Append(posts, m)

Navigates ==
    /\ mount.live /\ mount.doc = "app"
    /\ mount' = [mount EXCEPT !.doc = "other", !.due = IF mount.loads = 0 THEN @ ELSE @ + 1]
    /\ diary' = [diary EXCEPT !.left = TRUE]
    /\ UNCHANGED <<tick, page, guard, posts, ask, save>>

\* Whatever document is in the frame, without the SDK.
PostsBare ==
    /\ mount.live
    /\ Posted([mount |-> mount.id, nonce |-> 0, call |-> Hello])
    /\ UNCHANGED <<tick, page, mount, guard, ask, save, diary>>

\* The SDK repeats its hello until the context comes.
PostsHello ==
    /\ mount.live /\ mount.doc = "app" /\ mount.heard = 0
    /\ Posted([mount |-> mount.id, nonce |-> mount.id, call |-> Hello])
    /\ UNCHANGED <<tick, page, mount, guard, ask, save, diary>>

SdkCall(c, k, n) ==
    /\ mount.live /\ mount.doc = "app"
    /\ ask[c].at = "idle" /\ ask[c].told # "pending" /\ save.bar # c
    /\ (k = "connection") = (n # Nobody_)
    /\ ask' = [ask EXCEPT ![c] = [at |-> "posted", kind |-> k, name |-> n, mount |-> mount.id,
                                  since |-> tick, told |-> "pending", saved |-> FALSE]]
    /\ Posted([mount |-> mount.id, nonce |-> mount.id, call |-> c])
    /\ UNCHANGED <<tick, page, mount, guard, save, diary>>

StillWaits(c) == ask[c].told = "pending" /\ ask[c].mount = mount.id /\ mount.live /\ mount.doc = "app"

CallTimesOut(c) ==
    /\ StillWaits(c) /\ tick - ask[c].since >= CallWait
    /\ ask' = [ask EXCEPT ![c].told = "timeout"]
    /\ UNCHANGED <<tick, page, mount, guard, posts, save, diary>>

-----------------------------------------------------------------------------
(* handleAppMessage                                                        *)

Heard(m) == m.mount = mount.id /\ mount.live
IsCall(m) == m.call # Hello

\* Another frame's, or after the stop: no callback and no answer.
DropsPost ==
    /\ posts # <<>> /\ ~Heard(Head(posts))
    /\ posts' = Tail(posts)
    /\ ask' = IF IsCall(Head(posts)) THEN [ask EXCEPT ![Head(posts).call].at = "idle"] ELSE ask
    /\ UNCHANGED <<tick, page, mount, guard, save, diary>>

MistrustsPost ==
    /\ posts # <<>> /\ Heard(Head(posts)) /\ Head(posts).nonce # mount.id
    /\ posts' = Tail(posts)
    /\ Guarded(Mismatched(guard), ask, save)
    /\ UNCHANGED <<tick, page, diary>>

\* The handshake costs nothing, and is the only thing that announces the context.
AnswersHello ==
    /\ posts # <<>> /\ Heard(Head(posts)) /\ Head(posts).nonce = mount.id /\ ~IsCall(Head(posts))
    /\ posts' = Tail(posts)
    /\ mount' = IF mount.doc = "app" THEN [mount EXCEPT !.heard = page.shown] ELSE mount
    /\ diary' = [diary EXCEPT !.late = @ \/ guard.reason # "none"]
    /\ UNCHANGED <<tick, page, guard, ask, save>>

NextCall(c) ==
    /\ posts # <<>> /\ Heard(Head(posts)) /\ Head(posts).call = c
    /\ posts' = Tail(posts)
    /\ UNCHANGED <<tick, page>>

\* Answered at once, the guard now `g`: a runner that stopped over it answers nothing.
Replies(c, g, told) ==
    Guarded(g, [ask EXCEPT ![c] = Hears([mount EXCEPT !.live = LiveAfter(g)], @, told)], save)

RefusesCall(c) ==
    /\ NextCall(c) /\ ~Affordable(guard, "request")
    /\ Replies(c, Charged(guard, "request"), "limit")
    /\ diary' = [diary EXCEPT !.refusals = @ \cup {tick}]

AsRequest == Charged(guard, "request")
Routed(c) == NextCall(c) /\ Affordable(guard, "request")

\* A toast over its own ceiling is answered all the same.
RefusesKind(c) ==
    LET k == ask[c].kind IN
    /\ Routed(c) /\ ~Allowed(AsRequest, k)
    /\ Replies(c, Spent(AsRequest, k), IF k = "toast" THEN "ok" ELSE "limit")
    /\ diary' = [Ran("request") EXCEPT !.refusals = IF k = "open" THEN @ ELSE @ \cup {tick}]

RanKind(k) == IF k \in DOMAIN diary.ran THEN [Ran("request") EXCEPT !.ran[k] = Append(@, tick)]
                                        ELSE Ran("request")

ActsAtOnce(c) ==
    LET k == ask[c].kind IN
    /\ k \in {"invalid", "toast"} /\ Routed(c) /\ Allowed(AsRequest, k)
    /\ Replies(c, Spent(AsRequest, k), IF k = "invalid" THEN "invalid" ELSE "ok")
    /\ diary' = RanKind(k)

StartsWork(c) ==
    LET k == ask[c].kind IN
    /\ k \in {"data", "open", "decision", "connection"} /\ Routed(c) /\ Allowed(AsRequest, k)
    /\ Guarded(Spent(AsRequest, k), [ask EXCEPT ![c].at = "working"], save)
    /\ diary' = RanKind(k)

\* One save waits at a time; a person who has just clicked is not asked.
Downloads(c) ==
    LET g == Spent(AsRequest, "download") IN
    /\ ask[c].kind = "download" /\ Routed(c) /\ Allowed(AsRequest, "download")
    /\ \/ save.waiting # Nobody_ /\ Replies(c, g, "limit")
       \/ save.waiting = Nobody_ /\ Replies(c, g, "error")
       \/ /\ save.waiting = Nobody_
          /\ Guarded(g, [ask EXCEPT ![c] = [Hears(mount, @, "ok") EXCEPT !.saved = TRUE]], save)
       \/ /\ save.waiting = Nobody_
          /\ Guarded(g, [ask EXCEPT ![c].at = "waiting"],
                     [save EXCEPT !.waiting = c, !.until = tick + SaveWait])
    /\ diary' = RanKind("download")

\* A frame's work may end after it: then nobody is told.
WorkEnds(c) ==
    /\ ask[c].at = "working"
    /\ \E told \in {"ok", "error"} : ask' = [ask EXCEPT ![c] = Hears(mount, @, told)]
    /\ diary' = [diary EXCEPT !.late = @ \/ (guard.reason # "none" /\ ask'[c].told # ask[c].told)]
    /\ UNCHANGED <<tick, page, mount, guard, posts, save>>

FirstDisabled(n) == n \notin guard.disabled
ConnectionIsOff(c) ==
    LET n == ask[c].name IN
    /\ ask[c].at = "working" /\ ask[c].kind = "connection" /\ ask[c].mount = mount.id
    /\ ask' = [ask EXCEPT ![c] = Hears(mount, @, "disabled")]
    /\ guard' = [guard EXCEPT !.disabled = @ \cup {n}]
    /\ diary' = IF FirstDisabled(n) THEN [diary EXCEPT !.warned = Append(@, n)] ELSE diary
    /\ UNCHANGED <<tick, page, mount, posts, save>>

-----------------------------------------------------------------------------
(* The save a person confirms                                              *)

BarRenders ==
    /\ save.bar # save.waiting
    /\ save' = [save EXCEPT !.bar = save.waiting]
    /\ UNCHANGED <<tick, page, mount, guard, posts, ask, diary>>

SettledSave == IF save.waiting = save.bar THEN DisposedSave ELSE save

\* A bar not yet taken away is for a save that is gone, and does nothing.
Pressed(c) == save.waiting = c
SaveClicked ==
    LET c == save.bar IN
    /\ c # Nobody_ /\ Pressed(c)
    /\ save' = SettledSave
    /\ \/ ask' = [ask EXCEPT ![c] = [Hears(mount, @, "ok") EXCEPT !.saved = TRUE]]
       \/ ask' = [ask EXCEPT ![c] = Hears(mount, @, "error")]
    /\ UNCHANGED <<tick, page, mount, guard, posts, diary>>

SaveDismissed ==
    /\ save.bar # Nobody_ /\ save.waiting = save.bar
    /\ save' = DisposedSave
    /\ ask' = [ask EXCEPT ![save.bar] = Hears(mount, @, "declined")]
    /\ UNCHANGED <<tick, page, mount, guard, posts, diary>>

SaveTimesOut ==
    /\ save.waiting # Nobody_ /\ tick >= save.until
    /\ save' = DisposedSave
    /\ ask' = [ask EXCEPT ![save.waiting] = Hears(mount, @, "declined")]
    /\ UNCHANGED <<tick, page, mount, guard, posts, diary>>

TickPasses ==
    /\ tick < MaxTick /\ posts = <<>>
    /\ save.waiting # Nobody_ => tick < save.until
    /\ \A c \in Calls : StillWaits(c) => tick - ask[c].since < CallWait
    /\ tick' = tick + 1
    /\ UNCHANGED <<page, mount, guard, posts, ask, save, diary>>

-----------------------------------------------------------------------------
BridgeInit ==
    /\ tick = 0 /\ posts = <<>>
    /\ page = [published |-> 1, loading |-> {1}, shown |-> 0, mounts |-> 0]
    /\ mount = NoFrame /\ guard = NewGuard /\ diary = NewDiary
    /\ ask = [c \in Calls |-> Unasked] /\ save = NoSave

Runtime == \E v \in page.loading : RuntimeAnswers(v) \/ RuntimeFails(v)

PageNext == Publish \/ Reload \/ Runtime \/ FrameLoads \/ Navigates \/ PostsBare \/ PostsHello

HandlesPost ==
    \/ DropsPost \/ MistrustsPost \/ AnswersHello
    \/ \E c \in Calls : RefusesCall(c) \/ RefusesKind(c) \/ ActsAtOnce(c) \/ StartsWork(c) \/ Downloads(c)

CallNext == \E c \in Calls : CallTimesOut(c) \/ WorkEnds(c) \/ ConnectionIsOff(c)

SaveNext == BarRenders \/ SaveClicked \/ SaveDismissed \/ SaveTimesOut

BridgeNext ==
    \/ PageNext \/ HandlesPost \/ CallNext \/ SaveNext \/ TickPasses
    \/ \E c \in Calls, k \in Kinds, n \in Links \cup {Nobody_} : SdkCall(c, k, n)

BridgeSpec == BridgeInit /\ [][BridgeNext]_bridgeVars

-----------------------------------------------------------------------------
\* Types.
BridgeTypeOK ==
    /\ tick \in 0..MaxTick
    /\ page \in [published : 1..LastVersion, loading : SUBSET (1..LastVersion),
                 shown : 0..LastVersion, mounts : 0..MaxMounts]
    /\ mount \in [id : 0..MaxMounts, live : BOOLEAN, built : 0..LastVersion, heard : 0..LastVersion,
                  loads : 0..3, due : 0..3, doc : {"none", "app", "other"}]
    /\ guard.reason \in {"none", "navigated", "nonce", "budget"}
    /\ \A c \in Calls : /\ ask[c].at \in {"idle", "posted", "working", "waiting"}
                       /\ ask[c].kind \in Kinds
    /\ save.waiting \in Calls \cup {Nobody_} /\ save.bar \in Calls \cup {Nobody_}

\* In no window of time does a frame get more of a kind carried out than its ceiling, and
\* no two tasks are opened closer than the gap (APP_BUDGET, createAppGuard).
RatesAreKept ==
    /\ \A k \in Rates : LET ran == diary.ran[k] IN
          \A i \in 1..(Len(ran) - Allowance[k]) : ran[i + Allowance[k]] - ran[i] >= Span
    /\ \A i \in 1..(Len(diary.ran["open"]) - 1) : diary.ran["open"][i + 1] - diary.ran["open"][i] >= Span

\* A frame is stopped for its requests only after being refused again and again, without two
\* windows' pause, from the first refusal counted to the last; and it is, once every window had
\* a refusal for as long as the counted ones, each up to two windows after the last, can take.
RefusedBetween(from, to) == \E at \in diary.refusals : from <= at /\ at < to
Reach == (LimitedWindows - 1) * (2 * Span - 1)
StoppedWhenLooping ==
    /\ guard.reason = "budget" =>
          \E first, last \in diary.refusals :
             /\ last - first >= (LimitedWindows - 1) * Span
             /\ \A t \in first..last : t + 2 * Span <= last => RefusedBetween(t, t + 2 * Span)
    /\ mount.id # 0 /\ guard.reason = "none" =>
          \A t \in 0..(tick - Reach - Span) : \E from \in t..(t + Reach) : ~RefusedBetween(from, from + Span)

\* Once a runner has stopped nothing is carried out and nothing announced, and only an app
\* that left its document is stopped for that (AppRunner.tsx, stop and onLoad).
StopIsFinal == ~diary.late /\ (guard.reason = "navigated" => diary.left)

\* The document in the frame is of the version the page shows, and hears that version's
\* context or none (appMountKey, postAppReady).
ContextIsItsOwn ==
    mount.id # 0 => /\ mount.built = page.shown
                    /\ mount.heard \in {0, mount.built}

\* An app hears that a file was saved exactly when it was: never saved after a refusal, and
\* never a time-out for what the person saved; and no save outlives its frame (download.ts).
SavesAreTold ==
    /\ \A c \in Calls :
          /\ ask[c].told = "ok" /\ ask[c].kind = "download" => ask[c].saved
          /\ ask[c].saved => /\ ask[c].told \notin {"declined", "limit", "error", "timeout"}
                             /\ StillWaits(c) => ask[c].at # "idle"
    /\ save.waiting # Nobody_ => mount.live /\ ask[save.waiting].mount = mount.id

\* A person hears once per frame that a connection is off (firstDisabled).
WarnedOnce == \A i, j \in DOMAIN diary.warned : diary.warned[i] = diary.warned[j] => i = j
=============================================================================
