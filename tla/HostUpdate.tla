----------------------------- MODULE HostUpdate -----------------------------
(***************************************************************************)
(* Updating an install and taking the update back: update.sh with          *)
(* scripts/backup.sh, scripts/restore.sh and scripts/lib/host.sh.          *)
(*                                                                         *)
(* The script's memory is what it leaves on disk: .kyoube/update-state,    *)
(* the copies of .env, .kyoube/built-commit, the checkout, the image tag   *)
(* and the app's container.  It may be killed, or a command of it fail,    *)
(* between any two of these, and be run again; between runs people commit, *)
(* check out and edit settings, and the app writes.                        *)
(*                                                                         *)
(* A code is the set of the changes in its history, so that "is part of    *)
(* the history of" is \subseteq.  The stack's own source image is found by *)
(* its build record; where there is none update.sh guesses, which is not   *)
(* modelled, nor is another install that builds the same tag.  The keys    *)
(* that merge_settings adds to .env go with the .env they are added to.    *)
(***************************************************************************)
EXTENDS Integers, FiniteSets

CONSTANTS
    Newest,         \* bound: changes ever made upstream
    Tagged,         \* which of them are tagged
    MaxRuns,        \* bound: runs of update.sh
    MaxStops,       \* bound: runs that are killed or die
    MaxOwn,         \* bound: commits made in this checkout
    MaxDeeds        \* bound: other things people do between runs

ASSUME HostAssumption ==
    /\ Newest \in Nat \ {0} /\ Tagged \subseteq 1..Newest
    /\ MaxRuns \in Nat /\ MaxStops \in Nat /\ MaxOwn \in Nat /\ MaxDeeds \in Nat

VARIABLES
    origin,         \* upstream's newest change
    repo,           \* the checkout: branch, HEAD, what was fetched
    env,            \* .env
    saved,          \* .kyoube/update-state, env.before-update, env.before-rollback
    source,         \* the source image's tag, and .kyoube/built-commit
    container,      \* the app's container
    data,           \* the two databases and the home volume
    backup,         \* backups/<stamp>, by the run that took it
    script,         \* the run of update.sh
    ledger          \* history, and the bounds' counters

hostVars == <<origin, repo, env, saved, source, container, data, backup, script, ledger>>

-----------------------------------------------------------------------------
AllChanges == 1..Newest + MaxOwn
Code  == SUBSET AllChanges
NoCode == {}
Up(k) == 1..k                     \* upstream's commit, and release k

Parts == {"core", "kyoube", "home"}
Runs  == 1..MaxRuns
NoRun == 0

\* runs_source_build, image_ref: KYOUBE_IMAGE is local, KYOUBE_VERSION a release or 0 for dev.
Env     == [local: BOOLEAN, version: 0..Newest, own: Nat]
NoEnv   == [local |-> FALSE, version |-> 0, own |-> -1]
BuildsSource(e) == e.local /\ e.version = 0
ImageOf(e) == IF BuildsSource(e) THEN source.image
              ELSE IF ~e.local /\ e.version \in Tagged THEN Up(e.version) ELSE NoCode

\* save_state's fields; `of` is the run that wrote them, of the copy of .env too.
NoState == [of |-> NoRun, mode |-> "none", to |-> 0, done |-> FALSE, ref |-> NoCode, head |-> NoCode,
            after |-> NoCode, backup |-> NoRun, rollback |-> FALSE, replaced |-> FALSE]
NoCopy  == [of |-> NoRun, env |-> NoEnv]

Part   == [schema: Code, put: 0..MaxRuns]   \* put: by the restore of which backup
NoData == [p \in Parts |-> [schema |-> NoCode, put |-> 0]]

NoScript == [at |-> "rest", mode |-> "none", to |-> 0, pos |-> NoCode, id |-> NoRun]

Reached(step)   == script.at = step
Goto(step) == script' = [script EXCEPT !.at = step]
Selected   == ImageOf(env)
Unfinished == saved.state # NoState /\ ~saved.state.done

Checkout(code) == repo' = [repo EXCEPT !.head = code, !.on = FALSE]

-----------------------------------------------------------------------------
(* A run begins: everything update.sh reads, and may die of, first.        *)

MayBegin == Reached("rest") /\ ledger.runs < MaxRuns /\ ~saved.state.rollback
Run(mode, to, pos, step) ==
    /\ script' = [at |-> step, mode |-> mode, to |-> to, pos |-> pos, id |-> ledger.runs + 1]
    /\ ledger' = [ledger EXCEPT !.runs = @ + 1]

\* stack_position: a release's tag, or the commit the container's image was recorded as built from.
Position ==
    IF ~BuildsSource(env) /\ env.version \in Tagged THEN Up(env.version)
    ELSE IF BuildsSource(env) /\ source.built = container.code THEN source.built ELSE NoCode

IsAncestorOfAny(a, b) == a # NoCode         \* mutant: require_forward is forgotten
IsForward(a, b)       == a # NoCode /\ a \subseteq b

Tags == {k \in Tagged : k <= origin}
HeadTags == {k \in Tags : repo.head = Up(k)}

\* update_release, to the newest release or the one asked for.
UpdateRelease(to) ==
    /\ MayBegin /\ ~Unfinished /\ to \in Tags
    /\ IF HeadTags # {} THEN \A k \in HeadTags : k <= to ELSE repo.head \subseteq Up(to)
    /\ env.version <= to
    /\ IsForward(Position, Up(to))
    /\ IF Position = Up(to)
       THEN Checkout(Up(to)) /\ repo' # repo /\ UNCHANGED <<script, ledger, saved>>
       ELSE /\ repo' = [repo EXCEPT !.seen = origin]
            /\ Run("release", to, Position, "backup")
            /\ UNCHANGED saved
    /\ UNCHANGED <<origin, env, source, container, data, backup>>

\* update_edge, on a branch: up to date, or something to pull or to build.
UpdateEdge ==
    LET behind  == Up(origin) \ repo.head
        newcode == IF behind # {} THEN Up(origin) ELSE repo.head IN
    /\ MayBegin /\ ~Unfinished /\ repo.on
    /\ repo' = [repo EXCEPT !.seen = origin]
    /\ behind # {} => repo.head \subseteq Up(origin)
    /\ behind = {} /\ BuildsSource(env) => Position # newcode \/ source.image # container.code
    /\ IsForward(Position, newcode)
    /\ Run("edge", 0, Position, "backup")
    /\ UNCHANGED <<origin, env, saved, source, container, data, backup>>

\* resume_update: the same command again, without a second backup.
Resume(mode, to) ==
    /\ MayBegin /\ Unfinished
    /\ saved.state.mode = mode /\ saved.state.to = to
    /\ mode = "edge" => saved.state.head \subseteq repo.head
    /\ Run(mode, saved.state.to, saved.state.ref, IF mode = "edge" THEN "merge" ELSE "checkout")
    /\ UNCHANGED <<origin, repo, env, saved, source, container, data, backup>>

-----------------------------------------------------------------------------
(* The backup and the rollback point.                                      *)

\* scripts/backup.sh; a directory without its checksums is no backup.
Backup ==
    /\ Reached("backup") /\ Goto("forget")
    /\ backup' = [backup EXCEPT ![script.id] = data]
    /\ ledger' = [ledger EXCEPT !.ran[script.id] = [code |-> container.code, env |-> env]]
    /\ UNCHANGED <<origin, repo, env, saved, source, container, data>>

StateOf(id) == [NoState EXCEPT !.of = id, !.mode = script.mode, !.to = script.to, !.ref = script.pos,
                               !.head = repo.head, !.backup = id]

\* save_state: the old state goes before the new pair is renamed into place.
Forget        == Reached("forget") /\ Goto("keepEnv") /\ saved' = [saved EXCEPT !.state = NoState]
KeepEnv       == Reached("keepEnv") /\ Goto("keepState")
                 /\ saved' = [saved EXCEPT !.before = [of |-> script.id, env |-> env]]
KeepState     == Reached("keepState") /\ Goto(IF script.mode = "edge" THEN "merge" ELSE "checkout")
                 /\ saved' = [saved EXCEPT !.state = StateOf(script.id)]

SaveState ==
    /\ Forget \/ KeepEnv \/ KeepState
    /\ UNCHANGED <<origin, repo, env, source, container, data, backup, ledger>>

-----------------------------------------------------------------------------
(* release_apply and edge_apply: each step may be made a second time.      *)

SwitchCheckout ==
    /\ Reached("checkout") /\ Goto("image")
    /\ IF repo.head = Up(script.to) THEN UNCHANGED repo ELSE Checkout(Up(script.to))
    /\ UNCHANGED <<origin, env, saved, source, container, data, backup, ledger>>

\* The fast-forward, while the branch is where the update started.
Merge ==
    LET pending == Up(repo.seen) \ repo.head IN
    /\ Reached("merge") /\ Goto("after")
    /\ IF repo.head = saved.state.head /\ pending # {}
       THEN /\ repo.on /\ repo.head \subseteq Up(repo.seen)
            /\ repo' = [repo EXCEPT !.head = Up(repo.seen), !.tip = Up(repo.seen)]
       ELSE UNCHANGED repo
    /\ UNCHANGED <<origin, env, saved, source, container, data, backup, ledger>>

After ==
    /\ Reached("after") /\ Goto(IF BuildsSource(env) THEN "build" ELSE "image")
    /\ saved' = IF saved.state.after = NoCode THEN [saved EXCEPT !.state.after = repo.head] ELSE saved
    /\ UNCHANGED <<origin, repo, env, source, container, data, backup, ledger>>

\* KYOUBE_IMAGE, then KYOUBE_VERSION.
SetImage ==
    /\ Reached("image") /\ Goto("version")
    /\ env' = [env EXCEPT !.local = script.mode = "edge"]
    /\ UNCHANGED <<origin, repo, saved, source, container, data, backup, ledger>>

SetVersion ==
    /\ Reached("version") /\ Goto(IF script.mode = "edge" THEN "build" ELSE "up")
    /\ env' = [env EXCEPT !.version = script.to]
    /\ UNCHANGED <<origin, repo, saved, source, container, data, backup, ledger>>

\* docker compose build of what is checked out; then record_source_build.
Build(here, next) ==
    /\ Reached(here) /\ Goto(next)
    /\ source' = [source EXCEPT !.image = repo.head]
    /\ UNCHANGED <<origin, repo, env, saved, container, data, backup, ledger>>

Record(here, next) ==
    /\ Reached(here) /\ Goto(next)
    /\ source' = [source EXCEPT !.built = repo.head]
    /\ UNCHANGED <<origin, repo, env, saved, container, data, backup, ledger>>

\* The databases migrate as the app starts, whether it comes up healthy or not.
Starts(code) ==
    /\ container' = [code |-> code, up |-> TRUE]
    /\ data' = [p \in Parts |-> IF p = "home" THEN data[p]
                                ELSE [data[p] EXCEPT !.schema = @ \cup code]]

Restart ==
    /\ Reached("up") /\ Selected # NoCode /\ Starts(Selected)
    /\ Goto("done")
    /\ UNCHANGED <<origin, repo, env, saved, source, backup, ledger>>

Done ==
    /\ Reached("done") /\ script' = NoScript
    /\ saved' = [saved EXCEPT !.state.done = TRUE]
    /\ UNCHANGED <<origin, repo, env, source, container, data, backup, ledger>>

-----------------------------------------------------------------------------
(* do_rollback, after its checks; each step may be made a second time.     *)

BeginRollback ==
    /\ Reached("rest") /\ ledger.runs < MaxRuns
    /\ saved.state # NoState /\ saved.before # NoCopy
    /\ backup[saved.state.backup] # NoData
    /\ Run("rollback", saved.state.to, saved.state.ref, "stop")
    /\ saved' = [saved EXCEPT !.state.rollback = TRUE]
    /\ UNCHANGED <<origin, repo, env, source, container, data, backup>>

StopApp ==
    /\ Reached("stop") /\ Goto("back")
    /\ container' = [container EXCEPT !.up = FALSE]
    /\ UNCHANGED <<origin, repo, env, saved, source, data, backup, ledger>>

\* rollback_branch: the branch goes back only while the update left it there.
TipIsOurs == repo.tip \in {saved.state.head, saved.state.after}

Back ==
    LET tip == IF TipIsOurs THEN saved.state.head ELSE repo.tip IN
    /\ Reached("back") /\ Goto("replaced")
    /\ repo' = IF saved.state.mode = "edge"
               THEN [repo EXCEPT !.tip = tip, !.head = script.pos,
                                 !.on = TipIsOurs /\ script.pos = saved.state.head]
               ELSE [repo EXCEPT !.head = script.pos, !.on = FALSE]
    /\ UNCHANGED <<origin, env, saved, source, container, data, backup, ledger>>

\* The .env that is replaced is kept, unless it is the one to go back to.
KeepReplaced ==
    /\ Reached("replaced") /\ Goto("env")
    /\ saved' = IF env = saved.before.env THEN saved
                ELSE [saved EXCEPT !.replaced = env, !.state.replaced = TRUE]
    /\ UNCHANGED <<origin, repo, env, source, container, data, backup, ledger>>

RestoreEnv ==
    /\ Reached("env")
    /\ env' = saved.before.env
    /\ Goto(IF saved.state.mode = "edge" /\ BuildsSource(env') THEN "rebuild" ELSE "recreate")
    /\ UNCHANGED <<origin, repo, saved, source, container, data, backup, ledger>>

\* The container on the old image, not started: `--no-start`.
Recreate ==
    /\ Reached("recreate") /\ Selected # NoCode
    /\ container' = [code |-> Selected, up |-> FALSE]
    /\ Goto("core")
    /\ UNCHANGED <<origin, repo, env, saved, source, data, backup, ledger>>

\* restore.sh: each database is restored aside and swapped in, then the home
\* volume is emptied and filled.
RestorePart(p, here, next) ==
    /\ Reached(here) /\ Goto(next)
    /\ data' = [data EXCEPT ![p] = [backup[saved.state.backup][p] EXCEPT !.put = saved.state.backup]]
    /\ UNCHANGED <<origin, repo, env, saved, source, container, backup, ledger>>

EmptyHome ==
    /\ Reached("home") /\ Goto("fill")
    /\ data' = [data EXCEPT !.home = NoData.home]
    /\ UNCHANGED <<origin, repo, env, saved, source, container, backup, ledger>>

StartRestored ==
    /\ Reached("start") /\ Starts(container.code)
    /\ Goto("clear")
    /\ UNCHANGED <<origin, repo, env, saved, source, backup, ledger>>

\* rm -f STATE ENV_BEFORE, in that order.
ClearState == Reached("clear") /\ Goto("clearEnv") /\ saved' = [saved EXCEPT !.state = NoState]
ClearEnv   == Reached("clearEnv") /\ script' = NoScript /\ saved' = [saved EXCEPT !.before = NoCopy]
Clears ==
    /\ ClearState \/ ClearEnv
    /\ UNCHANGED <<origin, repo, env, source, container, data, backup, ledger>>

Rollback ==
    \/ StopApp \/ Back \/ KeepReplaced \/ RestoreEnv
    \/ Build("rebuild", "rerecord") \/ Record("rerecord", "recreate") \/ Recreate
    \/ RestorePart("core", "core", "kyoube") \/ RestorePart("kyoube", "kyoube", "home")
    \/ EmptyHome \/ RestorePart("home", "fill", "start") \/ StartRestored \/ Clears

Update ==
    \/ Backup \/ SaveState \/ SwitchCheckout \/ Merge \/ After \/ SetImage \/ SetVersion
    \/ Build("build", "record") \/ Record("record", "up") \/ Restart \/ Done

-----------------------------------------------------------------------------
(* What happens to a run, and between runs.                                *)

Stops ==
    /\ ~Reached("rest") /\ ledger.stops < MaxStops
    /\ script' = NoScript
    /\ ledger' = [ledger EXCEPT !.stops = @ + 1]
    /\ UNCHANGED <<origin, repo, env, saved, source, container, data, backup>>

\* Upstream moves; a person commits on the branch, checks something out, or edits a setting.
Between == Reached("rest") /\ ledger.deeds < MaxDeeds
Deed    == ledger' = [ledger EXCEPT !.deeds = @ + 1]

OriginAdvances ==
    /\ origin < Newest /\ origin' = origin + 1
    /\ UNCHANGED <<repo, env, saved, source, container, data, backup, script, ledger>>

Strays == ledger.strayed \/ (Unfinished /\ saved.state.mode = "edge")

Commits ==
    /\ Reached("rest") /\ repo.on /\ Cardinality(ledger.own) < MaxOwn
    /\ LET new == Newest + Cardinality(ledger.own) + 1 IN
       /\ repo' = [repo EXCEPT !.head = @ \cup {new}, !.tip = @ \cup {new}]
       /\ ledger' = [ledger EXCEPT !.own = @ \cup {new}, !.strayed = Strays]
    /\ UNCHANGED <<origin, env, saved, source, container, data, backup, script>>

ChecksOut ==
    /\ Between
    /\ \/ repo' = [repo EXCEPT !.head = repo.tip, !.on = TRUE]
       \/ \E k \in Tags : repo' = [repo EXCEPT !.head = Up(k), !.on = FALSE]
    /\ repo' # repo
    /\ ledger' = [ledger EXCEPT !.deeds = @ + 1, !.strayed = Strays]
    /\ UNCHANGED <<origin, env, saved, source, container, data, backup, script>>

EditsEnv ==
    /\ Between /\ Deed
    /\ env' = [env EXCEPT !.own = @ + 1]
    /\ UNCHANGED <<origin, repo, saved, source, container, data, backup, script>>

-----------------------------------------------------------------------------
\* An install of a release or of the branch; the checkout may be elsewhere.
HostInit ==
    /\ origin \in 1..Newest
    /\ \E t \in 1..origin, r \in {0} \cup Tagged :
          LET runs == IF r = 0 THEN Up(t) ELSE Up(r) IN
          /\ repo = [tip |-> Up(t), head |-> Up(t), on |-> TRUE, seen |-> origin]
          /\ env = [local |-> r = 0, version |-> r, own |-> 0]
          /\ LET built == IF r = 0 THEN Up(t) ELSE NoCode IN source = [image |-> built, built |-> built]
          /\ container = [code |-> runs, up |-> TRUE]
          /\ data = [p \in Parts |-> [schema |-> IF p = "home" THEN NoCode ELSE runs, put |-> 0]]
    /\ saved = [state |-> NoState, before |-> NoCopy, replaced |-> NoEnv]
    /\ backup = [b \in Runs |-> NoData]
    /\ script = NoScript
    /\ ledger = [runs |-> 0, stops |-> 0, deeds |-> 0, own |-> {}, strayed |-> FALSE,
               ran |-> [b \in Runs |-> [code |-> NoCode, env |-> NoEnv]]]

HostNext ==
    \/ \E k \in Tagged : UpdateRelease(k) \/ Resume("release", k)
    \/ UpdateEdge \/ Resume("edge", 0) \/ BeginRollback
    \/ Update \/ Rollback \/ Stops
    \/ OriginAdvances \/ Commits \/ ChecksOut \/ EditsEnv

HostSpec == HostInit /\ [][HostNext]_hostVars

-----------------------------------------------------------------------------
HostTypeOK ==
    /\ origin \in 1..Newest
    /\ repo \in [tip: Code, head: Code, on: BOOLEAN, seen: 1..Newest]
    /\ env \in Env /\ saved.replaced \in Env \cup {NoEnv}
    /\ source \in [image: Code, built: Code]
    /\ container \in [code: Code, up: BOOLEAN]
    /\ data \in [Parts -> Part] /\ backup \in [Runs -> [Parts -> Part]]

\* "Databases migrate forward only": no code ever starts on data that code it
\* does not contain has migrated, however updates stop, are resumed and rolled
\* back (require_forward, is_ancestor, do_rollback's order), unless a person
\* moved the checkout under an unfinished --edge update.
NeverOlderCodeOnNewerData ==
    container.up /\ ~ledger.strayed => \A p \in Parts : data[p].schema \subseteq container.code

\* A half-restored mix of the parts is never started (the rollback mark).
HalfRestoredNeverStarts == container.up => \A p, q \in Parts : data[p].put = data[q].put

\* save_state: "no state that pairs one update's rollback point with another's
\* .env"; and while there is a state, what --rollback needs is there with it:
\* the settings and the code of that update's beginning, and its backup.
RollbackPointIsWhole ==
    LET s == saved.state IN
    s # NoState => /\ saved.before.of = s.of /\ saved.before.env = ledger.ran[s.of].env
                   /\ backup[s.backup] # NoData
                   /\ s.ref = ledger.ran[s.of].code

\* A rollback that comes to its end has put back the code, the settings and all
\* the data of the update's beginning, however often it was stopped before.
RollbackReturns ==
    Reached("clear") => /\ container.up /\ container.code = ledger.ran[saved.state.of].code
                        /\ env = ledger.ran[saved.state.of].env
                        /\ \A p \in Parts : data[p].put = saved.state.backup

\* rollback_branch: commits made on the branch are never dropped from it.
OwnCommitsStay == ~ledger.strayed => ledger.own \subseteq repo.tip

\* update.sh: older or unrelated code is never put on data newer code migrated.
OnlyForward == container.up => \A p \in Parts : data[p].schema \subseteq container.code
=============================================================================
