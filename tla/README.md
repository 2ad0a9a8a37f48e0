# A TLA+ model of KyoubeAI

KyoubeAI is a set of plugins and tools around a core that manages issues
(tasks), agents and people. The plugins add what the core lacks: company data,
apps made by agents, typed decisions by a model, a guardrail on risky agent
actions, notifications, project files and a terminal; a bootstrap command line
and shell scripts install and update all of it. This directory holds TLA+
modules for the parts where ordering, failure and concurrency decide whether the
program is right, the TLC configurations that check them, and TLAPS proofs.

Run from this directory:

    tlc -workers 2 -config MCGuardrailRaces.cfg MCGuardedAccess
    tlapm PlatformProofs.tla

`PROJECT.json` lists the runs, which lines each definition stands for, the
mutation each property detects, the hazards and the theorems.

## Inventory

| Part | State it keeps | Operations | What makes it correct |
|---|---|---|---|
| Guardrail (`kyoube-apps/src/decisions/guardrail*.ts`, `holds.ts`) | `guardrail_holds`; cards live in the core | `check`, nightly purge | a person's answer runs one action, the one shown, once; the model never releases a held action |
| Terminal sessions (`kyoube-terminal/src/sessions.ts`) | sessions, scrollback, parked polls (memory) | open, attach, wait, input, close, kill, sweep, shutdown; PTY callbacks and timers | output whole and in order, bounded memory, one exit and last, no reader asleep on news |
| Terminal page (`ui/TerminalPage.tsx`, `output-loop.ts`, `session-stream.ts`) | generation, high-water mark, loop state | start, resume, end, poll | one session on the screen, every loss marked, the end noticed |
| App tasks (`tasks/service.ts`, `store.ts`) | `app_tasks` link rows; issues live in the core | start, cancel, get, list | no agent is woken without a link, limits, a finished task is left alone |
| AI columns (`decisions/columns.ts`, `cells.ts`) | watermark, and cell per column and row | fill job, background fill, row bookkeeping, refill, purge | a person's value is never overwritten; no changed row is left behind the watermark |
| Typed decisions (`decisions/service.ts`, `store.ts`, `client.ts`) | daily usage, decision log | decide, decideRows, outcomes | the daily cap holds; a failed call costs nothing |
| App lifecycle (`apps/service.ts`, `store.ts`) | apps, versions, current version, status | create, update, publish, roll back, archive; open, decide, call, start | nothing goes out through an app that a person has not confirmed for its current version |
| App page, bridge and SDK (`ui/apps/*`, `packages/kyoube-app-sdk`) | frame, rate windows, outstanding requests, saves | mount, request, answer, handshake, save, stop | rates, one answer per request, a stop is final, a document hears its own context |
| Task watcher (`ui/apps/task-watch.ts`) | watches, last status | watch, unwatch, poll | whoever watches hears the news, and never older after newer |
| Tables (`data/schema-service.ts`) | catalog, the company's Postgres schema, trash | create, change, rename, drop, purge | the catalog tells of the tables as they are |
| Rows (`data/records-service.ts`, `db/company-scope.ts`, `data/audit.ts`) | pooled connections, company rows, audit | insert, update, delete, provisioning | a change and its audit row commit together; no connection goes back dirty |
| Access to data (`data/service.ts`, `data/grants.ts`, `roles.ts`, `groups/*`) | grants, default level, groups, role cache | levels, grants, groups, prune | nobody passes at a level that was not his within the cache's time |
| Connections, secret cache (`connections/service.ts`, `secrets/cache.ts`) | cached secrets, failures, generation | call, check, invalidate | no stale secret after a save; a broken secret is left alone |
| Agent rules (`kyoube-agent-rules`, `docker/bootstrap/src/agent-rules`) | assignment policies, grants, the records of what was replaced | reconcile, revert, groups pass, governance pass | what is undone is what was done, and no more |
| Notifications (`kyoube-notify`) | devices, claims, previous states | register, preferences, events | a device rings for its one person; every move is told once |
| Project files (`kyoube-files`) | the folder; the page's view | list, open, save, create, rename, delete, poll | nothing is overwritten unseen; the page shows what it names |
| Licence and accounts (`packages/license`, `kyoube-licensing`, `users.ts`) | licence key, seats, users, board key | install, remove, sign up, remove people | seats as licensed, the last admin stays |
| Bootstrap (`docker/bootstrap`) | board key, rules token, plugins, sign-in copy | setup, watcher, agent-rules, connect | commands end well only on the image's plugins; one token; no copy stays |
| Update (`update.sh`, `scripts/backup.sh`, `restore.sh`) | update state, backups, image, checkout | update, resume, roll back | no older code on newer data; nothing half restored starts |
| Studio, theme, rebrand, core patches, PWA, doctor | none or derived | | see "Not modelled" |

How the parts meet. A plugin's worker is one JavaScript thread: a synchronous
method is atomic, and every `await` lets any other request, timer or callback
in. Parts share state through PostgreSQL (one statement or one transaction is
atomic; nothing spans two of them) and through calls to the core, which is a
separate process with its own state and may fail or answer late. The data
service asks the guardrail before a risky change; the guardrail asks the typed
decisions and raises cards in the core; app tasks create issues in the core and
wake agents; the fill job reads and writes rows through the data service; an
app's frame reaches the services only through the bridge; the terminal page
talks to the session manager by requests that can be lost; the bootstrap
commands and update.sh are processes that share files and may be killed.

What is hard here: check-then-act across an `await`; a decision on a value that
has since changed; two systems (database and core) that cannot commit together;
retries of what may already have been done; readers that fall behind a bounded
buffer; late answers for something the page has left. `PROJECT.json`
("hazards") names each at its line, with the properties that watch it.

## Modules

| Module | Models | How state and actions correspond to the code |
|---|---|---|
| `Guardrail` | `Guardrail.check`, the queries of `holds.ts`, the purge job | `holds` is the table, `call[c]` the locals of one request; one action per `await` of `check`, `namedHold`, `settle`, `checkOrHold`, `askAgain`. `cards` and `Resolve` are the core, `SetRows` everybody else who writes rows. `Fail` is a rejected promise or a restart anywhere. |
| `Approvals` | nothing in particular: what a confirmation card promises | the abstract specification `Guardrail` implements: cards are asked, allowed, and spent at most once |
| `TerminalSessions` | `SessionManager` and the plugin handlers that call it | a session record is `SessionState`; a method, timer or PTY callback is one action, with every flush, push and waiter answer it makes. Output is counted in units; `at` remembers where an event's text starts in all output. |
| `TerminalPage` | the page, its loop and its stream, EXTENDS `TerminalSessions` | `page` is the stream and what is on the screen, `loop` the output loop, `req` which call belongs to whom. Each `await` of the page splits an action in two; `Lose` fails a request on its way while the worker's call stays parked. |
| `AppTasks` | `TaskService` and `AppTaskStore` for one app | `issue` is the core's status, `link` the table row, `call[c]` the locals; one action per query or core call, each of which may fail. |
| `AiColumns` | `AiColumnService` for one column, and the row writes of the data service | `row`, `cell` and `mark` are the table, `decision_cells` and `decision_columns`; `fill` holds the locals of one run, an action per await; `runner` is `running` and `again`; `writer[w]` is a transaction and then its bookkeeping. |
| `AppLifecycle` | `AppService` and `AppStore` for the apps that share a slug | `app` and `version` are the two tables, `edit[c]` the locals of a method that changes them, `view[d]` of a running app's call. A manifest is what the three confirmations compare. |
| `Connections` | `ConnectionService` up to the request's leaving, `SecretCache` | `setting` and `secret` are the core's; `cached`, `inflight`, `failure`, `generation` the worker's memory; `request[r]` and `lookup[l]` the calls under way. |
| `DecisionBudget` | `decideOne`, `decideRows`, the reservations of `store.ts`, the client's retries | `used` is the usage table by day, `asker` the locals, `batch` the pool's shared index and results. |
| `AppFrame` | `tasks.watch` from the SDK to the host's watcher | `toHost` and `toFrame` are posted messages, `watch` the Watch objects, those the map has let go of included. |
| `AppBridge` | the runner's mounts, the bridge's messages and gates, saves | `guard` is `createAppGuard`'s state, `ask` a call at both ends, `save` the controller's waiting save and its bar. |
| `DataTables` | `SchemaService` | `catalog` beside `table`, the schema's own tables; a transaction that changes a table is one step, the reads before it another. |
| `CompanyRows` | `withCompany`, `withMeta`, `ensureCompany`, the row calls | `connection` is the pool, each with its role, transaction and locks; statements and COMMITs may fail or lose their answer. |
| `DataAccess` | roles, levels, grants, groups | `roleCache` is `RoleResolver`'s; `asking` the calls; `standing` the core's member list. |
| `AgentProtection`, `PersonGrants`, `RulesGovernance` | the manager rule and group restrictions; people's scoped grants; the people-only setting | the policies and grants are the core's, each record is the plugin's or the loop's; every core call may fail with or without effect |
| `Notify` | `NotifyStore` and `Notifier` | `listed` and `owner` are plugin state, `errand` a request or handler, `news` the core's events, delivered at least once |
| `Files` | `fs-service.ts`, `auth.ts`, the files page | `disk` is the folder agents write too; `visit` a request's locals; `viewer` and `browser` the page |
| `Bootstrap` | `ensure-plugins --watch`, `setup`, the rules token, `connect claude` | processes that share files and the core, killed or failing anywhere |
| `Accounts` | seats, licence keys, `users remove` | the core's `account`, the files of `licence` and `boardKey`, one `job` per command |
| `HostUpdate` | `update.sh` in all its modes, with backup and restore | `script` is the run; the rest is what it leaves on disk, in git, in Docker and in the databases |
| `GuardrailProofs` | | the theorems about `Guardrail`, about `DataAccess` in `MCGuardedAccess`, and about `AppBridge` in `MCGuardedBridge` |
| `AppTasksProofs` | | about `AppTasks` |
| `AppProofs` | | about `AppLifecycle`, `AppFrame`, `Connections`, `DecisionBudget` and `DataTables` |
| `TerminalSessionsProofs` | | about `TerminalSessions` |
| `TerminalPageProofs` | | about `TerminalPage`, on top of those |
| `DataPartsProofs` | | about `Accounts`, `CompanyRows` and `AiColumns`, in `MCDataParts` |
| `ServicePartsProofs` | | about `Bootstrap`, `Files` and `Notify`, and with the terminal's sessions, in `MCServices` |
| `PlatformProofs` | | about `RulesGovernance`, `PersonGrants`, `AgentProtection` and `HostUpdate`, and about `MCPlatform`: a part's inductive invariant holds in every behaviour about it |
| `MC*` | | small constant values for TLC, and the compositions |

Each module's bounds are constants whose comment begins "bound:". They cap how
often the environment acts (cards ever raised, output ever written, issues ever
created, the clock) and are guards of exactly those actions. The other
constants are the code's own limits.

### Compositions

`TerminalPage` composes the page with the session manager: they share the
sessions and the calls. `AppTasks` carries its own view of the core. The other
compositions put components that share no state side by side in one run:
`MCGuardedAccess`, `MCGuardedBridge`, `MCServices`, `MCDataParts` and
`MCPlatform` have a variable `part` (or `focus`), chosen at the start, and a
behaviour is about that part; the variables of the others are "off". Each
part runs under its own next-state relation as if alone, and each property is
`part = "..." =>` the conjunction of that component's type invariant and
safety invariants. Every conjunct was seen violated by a mutation of its own;
`PROJECT.json` keeps one per property. `MCAppTasks` uses the same form for two
scenes of one component, racing calls of one person and serial calls of two.

`MCGuardedBridge` narrows the bridge to what each focus is about (`Focused`): a
flood of requests ("rates", eight ticks of 5 s), opens of tasks ("opens"),
saves ("saves") and reloads, publishes and stray messages ("page", no time).
A save waits two ticks and a call three there, which keeps the code's order
25 s < 30 s; two mismatched messages stop a frame instead of the code's number.

### Abstractions that carry weight

- An action of the guardrail stands for (agent, fingerprint), as every query
  compares both. Refusals before any state is read are left out.
- Time in `Guardrail` is in hours while a request takes seconds, so a request
  spans at most one tick; `now` is read once per call, as in the code, while a
  new hold's expiry uses the clock of that moment, as in the code.
- A hold that a purge removes keeps its record with status "purged" so that the
  history can be stated; no query sees it.
- In `TerminalSessions` the end of a session and the exit report of its PTY are
  separate, so late output after `terminate` exists and is dropped.
- In `AppTasks` the checks that only read and refuse are one step that passes;
  the limit checks are modelled in full, one core read at a time.
- In `AiColumns` every transaction start is an instant of its own. A write and
  its bookkeeping take at most `WriteLimit` instants. `ConstantsAssumption` asks
  for `WriteLimit <= Lag`, and for twice that when writes overlap: two writes of
  one row may commit in the other order than they began, the row then carries
  the earlier time, and the other's bookkeeping may end a `WriteLimit` later
  than that. Without the factor TLC finds a handed-back row left behind the
  mark. The code's lag is 2 minutes; its writes last seconds.
- In `HostUpdate` a code is the set of changes in its history; the run may be
  killed between any two things it leaves on disk.
- Each module's history variable (`past`, `record`, `told`, `diary`, `ledger`,
  `upset`, `story`, ...) remembers what the properties compare with. Some of
  them mark a window the code really has (an app that a publish for another one
  landed on, a table whose name another call took, a file that was away under
  another name), so that the property says what holds outside it; the windows
  are listed below.

## Runs

All runs finish; no state constraint is used. Bounds are the smallest at which
the interesting case happens, which the mutants confirm: for every property a
plausible bug in a named definition is found under the same bounds.

| Run | Shows | Bounds and why they are enough |
|---|---|---|
| `guardrail_races` | one run per approval, no more rows than shown, a retry raises no second card, refinement of `Approvals`; access to data is right | guardrail: two requests (symmetric), one action, one task, two cards, no clock, as a race needs two, and the second card is the replacement or the double. Access: two calls, two groups of which one is allowed, a cache of two instants and a listing of one, so that a stale and a late listing both happen |
| `guardrail_calls` | types, replacements survive the purge, the model releases nothing held, only what a person allowed runs; frames are bridged | guardrail: one request at a time, two tasks, clock to 3 with a lifetime and grace of 1 so that expiry, grace and purge all happen. Bridge: two calls (symmetric), rates of one or two, two mounts, two versions |
| `guardrail_model_race` | *violation:* a request that looked for holds before a racing request stored one is released by the model | as `guardrail_races` |
| `service_parts` | sessions' output whole, answers wake and tell; notices reach their people; files are kept; the bootstrap commands hold | two sessions of two users, three units of output in events of at most two and a scrollback of three, so that a split, a trim and a partial trim happen, one tick past idle timeout and retention; two devices, one allowed to each person, two events; two names, three writes; two setups beside the watcher, one restart |
| `terminal_page` | the screen shows one session, no silent gap, no false alarm, the loop ends after the exit | two sessions, two generations, two polls (all symmetric), a scrollback of one event, so that falling behind by one loses output |
| `terminal_live` | output and the end arrive at a page that stays | one session, one poll, fairness below |
| `tasks_races` | woken only with its link, a row is closed only after its issue was finished, a cancel spares the finished, the limits | two calls, two issues, every step may fail; serial: two people, one reopening, a clock of one for the rate window |
| `data_parts` | AI columns are filled, row calls are whole, accounts hold | two rows scanned one a page, a budget of one, two writes at a time that overlap, writes begun up to instant 3 and a lag of 2, so that the mark passes rows by instant 5; pools of one and two connections, one fault; three people over two free seats, three licence keys, two commands |
| `ai_asks` | the same of AI columns, and no requested fill lost | one row, two sources and two questions (symmetric), two refills or question changes, one deletion, a lag of 1 |
| `ai_refill` | *violation:* a refill during a fill leaves the rows it discarded behind the mark | one row, one refill |
| `platform_parts` | nine components: lifecycle, connections, budget, watches, tables, the three of agent rules, updates | two callers in each; two apps under one slug, two versions; a cache of two instants; caps at 9 or 10 from 8 used; a final version of 3; two tables under two names; two agents; two releases, three runs of which two are stopped |
| `update_forward` | *violation:* a resumed --edge update starts code that lacks a release the stack has run | as in `platform_parts` |

Deadlock is checked where a behaviour cannot just stop: not in the page runs,
where session ids are bounded and a page whose sessions are all forgotten may
rest, and not in the compositions, where a part stops when its bounds are used
up.

What two cards cannot reach, chains of several replacements and several
actions, is covered by the theorems, which hold for any constants.

### Fairness

`terminal_live` uses `FairSpec`: weak fairness on the flush timer, on the timer
of a parked poll, on answers nobody waits for, on the loop's next poll and on
waking from its back-off, each a timer or a loop iteration the event loop runs
when due. Delivery of an answer has strong fairness: requests may be lost again
and again, but not always. Nothing is assumed of people, of the shell, of
sweeps or of restarts. The two properties allow for what they cannot promise:
the page may leave the session, and output may be trimmed before it is fetched,
which `NoSilentGap` requires to be marked.

## Proofs

Every theorem holds for all values of the constants that the named assumption
of its component allows: any number of callers, agents, tables, releases, any
cap or lifetime. All but a few have the same shape: an inductive invariant, a
lemma that it holds at first, one lemma per action, and the theorem that joins
them. `tlapm` checks each leaf; nothing is assumed but the constants'
assumptions, which TLC evaluates on the runs.

Theorems about what a run checks:

| Module | Theorem | Property |
|---|---|---|
| `GuardrailProofs` | `TypeCorrect` | `TypeOK` |
| | `ApprovalRunsOnce` | `OneRunPerApproval` |
| | `OnlyAllowedCallsRun` | `RunsWhatAPersonAllowed` |
| | `NoMoreRowsThanShown` | `RunsNoMoreRowsThanShown` |
| | `ModelNeverReleasesHeld` | `ModelReleasesNothingHeld` |
| | `ReplacementsStay` | `ReplacementIsKept` |
| | `RetriesRaiseNoCard` | `RetryRaisesNoSecondCard` |
| | `KeepsApprovals` | `ImplementsApprovals` (a refinement) |
| | `AccessStaysRight` | `AccessIsRight` |
| | `FramesStayBridged` | `FramesAreBridged` |
| `AppTasksProofs` | `WokenWithALink` | `WokenOnlyWithItsLink` |
| | `ClosedWereFinal` | `ClosedHasBeenFinal` |
| | `FinishedAreSpared` | `CancelSparesTheFinished` |
| | `LimitsAreHeld` | `LimitsHold` |
| `DataPartsProofs` | `RowCallsStayWhole` | `RowCallsAreWhole` |
| | `AccountsStayRight` | `AccountsHold` |
| | `ColumnsStayFilled` | `ColumnsAreFilled` |
| | `NothingIsLeftBehind` | `NothingLeftBehind` |
| | `RecordedValuesStand` | `RecordedValueStands` |
| | `RequestedFillsHappen` | `RequestedFillHappens` |
| `TerminalPageProofs` | `GapsAreMarked` | `NoSilentGap` |
| | `NoticesAreTrue` | `NoFalseAlarm` |
| | `ScreenIsOneSessions` | `OneSessionOnScreen` |
| | `EndIsShown` | `EndedAfterTheExit` |
| `ServicePartsProofs` | `SessionOutputStaysWhole` | `SessionOutputIsWhole` |
| | `AnswersStayTrue` | `AnswersWakeAndTell` |
| | `BootstrapStays` | `BootstrapHolds` |
| | `FilesStayKept` | `FilesAreKept` |
| | `NoticesReachPeople` | `NoticesReachTheirPeople` |
| `PlatformProofs` | `OnlyConfirmed` | `OnlyConfirmedGoesOut` |
| | `SecretsStayCurrent` | `SecretsAreCurrent` |
| | `BudgetStaysKept` | `BudgetIsKept` |
| | `WatchesStayRight` | `WatchesWork` |
| | `FramesOnlyGoForward` | `FramesGoForward` (an action property) |
| | `TablesStayTold` | `TablesAgree` |
| | `AgentRulesStay` | `AgentRulesHold` |
| | `UpdatesStaySafe` | `UpdatesAreSafe` |

The properties of `MCPlatform` are conjunctions over a component. The
component has a theorem for each conjunct over its own specification
(`PROJECT.json` lists those that say most); `PlatformProofs` carries them over
with `PartSteps`: a behaviour keeps its part, and each step of it is a step of
that part or leaves it alone. `ServicePartsProofs` does the same for
`MCServices`.

**Guardrail** (`ConstantsAssumption`). None of the safety properties is
inductive: whether `Run` is right depends on what the request learnt several
awaits ago. `IInv` (theorem `Invariance`) says what each step of a request
knows: that a hold belongs to the card it was made for and is on the same call
and task; that a request past `ReadCard` stands on a card a person accepted,
which never changes again; that one past `Consume` is the only one standing on
its hold, which is used and not yet counted in `released`; that one past its
recount carries a count within the card's; that the unreleased holds remembered
in `barred` are closed, or were seen by `CheckBarred`. `ReplacementsStay` needs
a chain invariant on top (`ChainInductive`): a replacement's card is younger,
carries more rows and expires no earlier than what it replaces, so the purge
never takes the end of a chain before its start. `RetriesRaiseNoCard` needs
`SeenInv` beside it: in which order the cards were born, and which of them a
request has seen by each of its steps. The refinement follows from
`IInv`: `Raise` asks, `Resolve` by a person allows, `Run` on a person's word
spends, all else stutters.

**Terminal sessions** (`ConstantsAssumption`). `SessionsInv` has a part for one
session at a push (`KeptOK`): its events are numbered on from `dropped`, their
texts abut up to what is pending, and the byte count is the buffer's weight. A
live one holds output alone and has a timer while something is pending
(`LiveOK`), a dead one is closed by its one exit (`DeadOK`). A flush is followed
part by part (`Draining`), the scrollback's cut by the running totals of the
buffer (`Totals`). The part for calls (`CallOK`) is about two moments: a parked
call's session has nothing past what the caller has seen, and what an answer
says stays true of the session as it goes on (`Told`), as its numbers only grow
and end with its end (`Later`). Every step but a restart is shown to leave
calls alone or to answer them (`Moves`), which is all the page's proof needs.

**Terminal page** (`PageAssumption`). `PageInv` is four facts on top of
`SessionsInv`: what the screen shows lies up to the mark, with a notice before
each gap and nowhere else (`ScreenOK`); the mark is one the session has
reached, and past a dead session's last event only with its exit (`MarkOK`);
the loop is of the generation on the screen (`LoopOK`); of the requests of that
generation at most one is under way, and it asks from the mark (`CallsOK`).
The last one is why an answer can be applied as it comes: requests that were
lost or retired may still be answered, and none of them is of this generation.
That a loop never ends before the exit needs all four: an answer that reports
the end without events can only be one from behind the exit.

**App tasks** (`ConstantsAssumption`). `Safe` says what a call knows of its task
at each await: who may close the row has seen the issue finished, who may wake
the agent has committed the link, a cancel that read "finished" stands on an
issue that stays so unless somebody reopened it. What a call knows of the
others' state survives because that state only grows (`Growing`), so one lemma
carries every other call over any step. The limit needs counting: `Counted`
bounds an app's unfinished tasks by what a start has still to count plus what
it has counted plus the starts in flight, with a set of starts for each call
that may slip past it.

**App lifecycle** (`LifecycleAssumption`). `LifecycleInv`: the version a publish
compared with, the confirmations it asked for and the version it is about to
set current fit together at each await, and what a version lets an app reach
was confirmed for it or for the version it was compared with. The windows the
README names below (another app under the slug) are in the invariant as marks.

**Task watches** (`FrameAssumption`). `FrameInv` follows a version along the
whole way: what the host's watch has seen, the news posted and not yet handled
in their order (`NewsInOrder`), and what the callback has heard. The callback
hears the latest because the last message on its way carries it
(`NewsReaches`), and never goes back because versions are posted in order and
an unwatch empties what an older watch may still post.

**Bridge** (`BridgeAssumption`: counts and lengths are numbers, a window is not
empty, and the SDK waits longer for a call than the page for a save). `BridgeInv`
has three parts. `BooksKept` ties the guard's state to what its frame has done:
what it still counts of a kind is the end of what was carried out, and all of it
that is not a window old (`Ledger`); behind its run of refused windows there is a
chain of refusals without two windows' pause (`Chain`), and before the chain a
window without one, not long ago (`Fresh`), from which both halves of
`StoppedWhenLooping` follow. `FrameOK` says that an app's document has at most
its own load to come, so that a second load is a navigation, and that a runner
that runs has not been stopped. `FrameCallsOK` follows a call at both ends: a
message not handled yet is of a call made in this instant and not given up, and
the save that waits is the running frame's and younger than the SDK's patience.

**Connections** (`ConnectionsAssumption`: a retry and a request's deadline are
shorter than a value's lifetime). `ConnectionsInv` says for the cache, each
lookup and each waiting call how old its value may be: `FloorOK` is the moment
before which nothing served can have been current.

**Decision budget** (`BudgetAssumption`). `BudgetInv`: what the usage table says
of a day is what calls on that day have used, plus the reservations under way
(`OwedOK`), so a failed call gives back on the day it took; the pool's shared
index and the results tell which row each worker is at.

**Agent rules** (`ProtectionAssumption`, `GovernanceAssumption`). For the manager rule and the groups, "undoing the record
gives each agent what its people have set" has to hold in the middle of a call,
between the core's change and the record's and after any failure of either:
`ProtectionInv` carries it for each step (`GrantStepOK`, `PolicyStepOK`) with
the function `Undone` and lemmas on what each change does to it.
`GovernanceInv` says that all passes that overlap have read, or will write, the
first value replaced; `GrantsInv` says which row and which record entry a
scoped grant may have while a pass is between its reads and its writes.

**Access to data** (`DataAccessAssumption`). `AccessInv` says what a call's role
is worth: one held since the call began, or for a joined call since the listing
it joined was read (`RoleOK`, `JoinOK`); what its level is worth: of the role and
the groups, the one that has not moved since the call read it is as read
(`LevelOK`); and that a cached role is no older than its entry's age and one
listing (`RolesOK`). `GroupsOK` counts the groups that exist and the calls about
to create one together, which is what makes the bound inductive; `PassOK` says
of a pass whom it may still prune. `AccessStaysRight` carries the four
properties over to the composition with the guardrail.

**Tables** (`TablesAssumption`). `TablesInv`: the catalog tells of each table
what it is (`ToldTable`, `ToldChecks`), a table nobody has made is blank, and a
call that read a row holds an id that was made. Tables another call's name
landed on (`upset`) are left out of the telling, as in the property.

**Row calls** (`CompanyRowsAssumption`). `RowsInv`: a call at work has a
connection that is nobody else's, and `Carries` says what that connection may
still have on it at each step (the assumed role, the lock, the transaction's
role and path); `MadeBefore` says what of a company is made when its
provisioning comes to a step; `NumbersOK` that nothing is on record of a call
under way, unless it lost the answer to its COMMIT; `RowsOK` that two open
transactions of one company never touch a row and each has seen what it
changes. That calls never all wait (`OneAlwaysGoesOn`) follows by cases: for a
row one waits for a call that has written, for the lock for one that
provisions, for a connection for one that has one.

**Accounts** (`AccountsAssumption`). `AccountsInv`: the seats taken or promised
to sign-ups under way (`SeatsOK`, which counts how many overlap), what the keys
in use and those about to be stored can open (`LimitsOK`, `KeysOK`), and, for a
removal that nobody raced, that what it has looked at still holds
(`RemovalOK`).

**AI columns** (`ConstantsAssumption` of `AiColumns`). `ColumnsInv` says why the
mark may go where it goes. It stays before `Horizon`, the clock less the lag
(`NotPast`), and so does a run's ceiling. A write under way is young
(`WriterOK`): it began within the write limit, and its row's time lies before
its own by at most `Slack`, the write limit again when several writes can
overlap. Both together fit in the lag, so no row that a write or its
bookkeeping still touches is behind the mark (`WritersAreYoung`). `ScanOK` says
what a run owes: of the rows nobody has written since its ceiling was read,
each one it has passed is told of, was dropped, or waits among its candidates
as it still is (`Waiting`), and after the batch the mark stops before the first
candidate without an answer. A row a person's value is recorded on is in no
batch that is being written and in no bookkeeping that is still to come
(`SureOK`).

**Setup commands** (`BootstrapAssumption`). `BootInv` ties what a pass over the
plugins still does to the row it has listed (`PassOK`), and the row to the
watcher: once the watcher is done it is in place, or a setup is about to put it
back (`RowsOK`). Whoever holds an approved key has a live one, and the key file
is torn only while somebody writes it (`KeysOK`); whoever is done with the
rules token holds it (`TokenOK`); a sign-in that is over has no copy of the
folder (`SignInOK`).

**Files** (`FilesAssumption`). For the roles, `RoleVisitOK` says since when a
role that is being listed has been held, and that whoever joined a fetch joined
one that runs. For the files, `Says` is what the page, a read and a save know
of the disk: an entry with that time stamp, not moved and not written within
another operation, has that text. It is inductive as every write gets a new
time stamp (`DiskOK` and the bounds of `FileVisitOK`). `SaveOK` says that what
a save may replace has been seen, `NewOK` that nothing stands where a new entry
goes but what came there since the look. For the folder shown, `ListVisitOK`
says that the newest listing is of that folder.

**Notifications** (`NotifyAssumption`: nobody is called what stands for no
owner). `NotifyInv` has one part for the devices and three for the events.
`DevicesOK`: a device on a list is its owner's, and `ErrandFits` says what a
section of the store knows where it stands: whom a device about to change hands
has left, that a list about to be written is still as it was read, that a
device about to be let go is on no list of its person. `MovesOK` gives the
counting property its reason: a history of the task's statuses and, per status,
the set of moves that were told, each told by a handler that read the task
after that move and before the next; two handlers never hold the same move.
`AsksOK` and `FailuresOK` say the same of a question's claim and of the hours
failures were claimed at. `WithoutIs` and `CutIs` are what a change of a list
does, by induction over its length.

**Updates** (`HostAssumption`). `HostInv` has a part for each stretch of the
script: `EarlyOK` before there is a state, `LateOK` for the rest of an update,
`UndoOK` for a rollback, each saying what its steps have already done; and
parts that hold while no run is under way, when a killed run has left things
anywhere: `PointOK` (the rollback point is whole), `StateOK` (what the state
says), `DataOK` (which code the data is of, and when the app may be up) and
`SettledOK` (with no update half done the settings name what runs). A stop
needs no argument of its own: these parts say nothing of the script's place
that the next run does not read from the state.

What the proofs taught: a new device pushed older ones out by `SubSeq` from
`Len - MaxDevices`, a place before the list's start while the list is short
and the limit above 1, where JavaScript's `slice(-20)` takes all of it; the
instance (one device a person) could not show that, the proof did, and `Saved`
now says where the cut is. `ChoicesAreChecked` is about nothing when there are no
fields, and the typing of a relation needs one, so `TablesAssumption` asks for
one; the bounds of `HostUpdate` had to be said to be numbers. `DataAccess` needs
a cache that serves at all (`CacheMs` of at least 1; the code has 30 seconds):
with none, a call could join a listing that answers with a role too old to
count. And it needs finitely many calls, at least one, since the bound on the
groups counts them. `Accounts` needs finitely many people, none of them called
what stands for an unknown owner, and `CompanyRows` finitely many row ids and
no company or caller with the name of a placeholder. `AiColumns` needs finitely
many writers: whether two can overlap decides how long the lag must be.
`Bootstrap` needs setups that are not called what stands for the watcher, no
key, a torn or a blank file; `Files` a role cache that serves at all, like
`DataAccess`. The proof about the bridge corrected three things that the
instance could not show. The time before a guard's first refusal, `Never`, was a
number too near for windows of more than five ticks. `StoppedWhenLooping` allowed
a loop `LimitedWindows` windows before it is stopped, which is too few from
windows of three ticks on: a refusal joins the run up to two windows after the
last, less a tick, so the bound is now `Reach`, and TLC finds it exceeded with
one tick less. And the places of posts, mounts and calls had to be said to be
numbers, and no call named like the handshake.

What the sessions' buffer computes (its weight, a flush in parts, the events
past a number) is defined by recursion over a sequence. The library's induction
theorems take an operator; `LeastNumber` and `AllNumbers` state induction for a
set of numbers instead, from the well-foundedness of `<`, and the sums and the
parts are then reasoned about with that. `TerminalSessions` needs somebody who
can call (`Users` and `Companies` not empty), since a blank session has an
owner.

Only model-checked, and why:

- liveness (`OutputArrives` and `EndArrives` of the terminal page): it is out of
  the prover's reach, as is ENABLED;
- the three properties the code does not have, below.

## Where code and documentation part

- `guardrail_model_race`: docs/decisions.md:110-112 says the model never
  re-checks a held action. The look for earlier holds and the question to the
  model are separate awaits (guardrail-service.ts:170 and 174).
  `ModelReleasesNothingHeld` states what does hold: nothing that was held when
  the call began.
- `ai_refill`: docs/decisions.md:232 says a refill discards the cells and asks
  again. A fill that was running moves the watermark back to where its own scan
  ended (columns.ts:342) after the refill reset it (columns.ts:150), and the
  discarded rows behind it are not asked again. `NothingLeftBehind` states what
  does hold: nothing else is left behind.
- `update_forward`: update.sh:303-304 says the code the stack runs has to be
  part of the history of the code an update moves to. A resumed update checks
  only that HEAD contains the commit it started from (469-471), so an --edge
  update resumed after somebody committed builds code that lacks a release the
  databases have seen.

More windows are noted without a run of their own. By component:

- Guardrail, tasks: rows that appear between the guardrail's recount and the
  change itself, and an agent that finishes between a cancel's status read and
  its update (tasks/service.ts:238, 245), both by design. When the cancel after
  a refused wake-up fails, the person is still told that the task was cancelled
  (tasks/service.ts:203-204, 269-273; docs/app-tasks.md:141-143). Starts that
  run at once each pass the open-task count (tasks/service.ts:164), so the 25
  of docs/app-tasks.md:156 can be passed; `OvershootIsBounded` says by how
  much.
- AI columns: a person's value written before a row is read, whose bookkeeping
  lands between the batch's check and its write (columns.ts:414-422), is
  overwritten. A question changed and changed back before a fill has seen the
  change leaves the rows the first change emptied empty
  (schema-service.ts:224-230, cells.ts:101). Two edits of one cell whose
  bookkeeping crosses can leave a manual cell on an empty value
  (data/service.ts:497).
- Terminal page: `endSession`'s continuation drops whatever session the page
  shows by then (TerminalPage.tsx:249).
- Task watches: "never two in flight for the same id" (task-watch.ts:6) does
  not hold after an unwatch and a watch; a `tasks.watch` call that times out
  drops its listener without an unwatch (sdk.ts:54-55, 107, 141-146).
- App lifecycle: what a person allowed under a slug is followed by another app
  that takes the slug (apps/service.ts:353-356), and archiving is not final: a
  publish under way may set an archived app current (store.ts:62), and the
  status is set by slug (service.ts:358).
- Tables: overlapping `updateField` calls overwrite each other's options;
  `renameTable` reads its fields before its transaction (324-326);
  `removeField` checks AI sources outside it (268); `dropTable` drops by name
  what the guardrail checked by id; a relation may commit while its target is
  dropped (296-299).
- Agent rules: `off` followed by deleting the groups can leave a protection
  nothing asks for (groups.ts:106-115), and may leave the people-only entry
  (commands/agent-rules.ts:125-127); the merge in `runAgentRules` is a read and
  a write. A protected agent's earlier `assignmentPolicy.mode`, if it had one,
  is written over and not on record, so lifting the protection leaves none
  (policy.ts:85-101): `open` in `AgentProtection` is every mode but protected, and
  what the revert restores is that the agent is not protected.
- Updates: commits made while an --edge update is unfinished are dropped by its
  rollback (update.sh:578); .env edited between two runs of a rollback
  overwrites env.before-rollback (547-552; docs/upgrading.md:407-411).
- Connections: a value and its lookup are kept by the connection's name while
  its settings change (cache.ts:58).
- Notifications: store.ts:101-102 is not so for a delivery in flight; status
  swaps that cross raise a second "done" notice (notifier.ts:158-175); a
  question claimed when there is nobody to tell is never told later.
- Files: the stat after a save may take an agent's time stamp, after which the
  page never learns of that write (fs-service.ts:183-184 against
  ProjectFiles.tsx:313-316); a write between check and write is overwritten
  (171-183, also 198 and create); a quiet reload in flight replaces text typed
  meanwhile (ProjectFiles.tsx:343-348, 362-374); a failed audit reports a save
  that happened as failed; after a listing's error the old entries stay under
  the new folder's name (147, 239).
- Bootstrap: two first runs do not agree on a token when the file is blank
  (`ensureRulesToken`); a plugin skipped as installed at an old version ends
  the watcher until the container restarts (plugins.ts:65-72), and one in error
  at an old version makes it loop; an approval after setup's last poll leaves a
  live key nobody holds (setup.ts:62-92); a killed write leaves a torn key
  file; connect.ts:68 "still counts" only if the program exits 0.
- Accounts: when `whoAmI` fails the key is stored without its owner, who can
  then be removed (docs/licensing.md:75-87); the guards of `users remove` are
  read before the confirmation; sign-ups that overlap pass the seats by one
  less than their number.
- Access: levels are read in two steps (role, then groups; own grant, then the
  default), and each may change between them; a pass prunes with the listing it
  began with; the 30 s of a cached role count from the listing's arrival; the
  number of groups is counted outside the transaction (groups/service.ts:54).
- Rows: `withMeta` hands a connection back without an error even if ROLLBACK
  failed (audit.ts:61-66), harmless as the pool drops a broken connection;
  SQLSTATEs 22003 and 22008 are unmapped.
- Bridge: after a stop or an unmount, a task's opening that was already awaited
  still navigates, and a connection answered `disabled` may still raise its
  toast (bridge.ts:663), against "nothing runs after that"; of two
  `apps.runtime` loads under way the later answer wins, even if older
  (AppsPage.tsx:108-116).

## Plan

1. The rest of the connection call (URL, deadline, audit), the runtime gates of
   apps, answers of decisions, field kinds and filters, manifest rules.
2. `AiColumns`: an abstract column (a value is empty, a person's or the model's
   about known sources) that it implements; a row handed back is asked again
   while the job runs.

## Not modelled

- Wording of cards, questions, activity lines and errors; parsing and
  validation of inputs; field kinds, filters, SQL queries and indexes of the
  data service; manifests, builds and templates of apps.
- The HTTP exchange of a connection call, its URL and its audit row.
- Terminal keystroke batching, resizing and the session list; the height of an
  app's frame; who reads a reply after the frame navigated; clocks that go
  backwards.
- Doctor and harness commands of the bootstrap (read-only checks, links);
  install.sh and the migration from 0.1; source builds without a record and
  other installs that build the same tag, about which update.sh guesses; smoke
  scripts.
- Studio pages, theme, rebrand, core patches and PWA: presentation or text
  patches. The licence page's own snapshot of users.
