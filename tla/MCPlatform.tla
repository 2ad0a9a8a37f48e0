----------------------------- MODULE MCPlatform -----------------------------
(***************************************************************************)
(* The parts of the platform that share no state, side by side: a          *)
(* behaviour is about one of them, and the variables of the others are     *)
(* off.  Every part has its own specification, and is checked as if alone. *)
(***************************************************************************)
EXTENDS AppLifecycle, Connections, DecisionBudget, AppFrame, DataTables,
        AgentProtection, PersonGrants, RulesGovernance, HostUpdate, TLC

VARIABLE part       \* what this behaviour is about

partVars == <<lifecycleVars, connectionVars, budgetVars, frameVars, tablesVars,
              protectionVars, grantVars, governanceVars, hostVars>>

Off == "off"

LifecycleOff   == app = Off /\ version = Off /\ edit = Off /\ view = Off /\ record = Off
ConnectionsOff == /\ setting = Off /\ secret = Off /\ cached = Off /\ inflight = Off /\ lookup = Off
                  /\ failure = Off /\ generation = Off /\ request = Off /\ time = Off /\ served = Off
BudgetOff      == /\ cap = Off /\ used = Off /\ today = Off /\ instant = Off /\ batch = Off
                  /\ asker = Off /\ tally = Off
FrameOff       == /\ listener = Off /\ toHost = Off /\ toFrame = Off /\ slots = Off /\ watches = Off
                  /\ watch = Off /\ task = Off /\ runner = Off
TablesOff      == catalog = Off /\ table = Off /\ work = Off /\ day = Off /\ upset = Off
ProtectionOff  == /\ team = Off /\ policy = Off /\ held = Off /\ guardRecord = Off /\ groupRecord = Off
                  /\ restricted = Off /\ rulesCall = Off /\ wanted = Off
GrantsOff      == /\ row = Off /\ entry = Off /\ person = Off /\ groups = Off /\ hired = Off
                  /\ pass = Off /\ story = Off
GovernanceOff  == governance = Off /\ file = Off /\ process = Off /\ past = Off
HostOff        == /\ origin = Off /\ repo = Off /\ env = Off /\ saved = Off /\ source = Off
                  /\ container = Off /\ data = Off /\ backup = Off /\ script = Off /\ ledger = Off

PlatformInit ==
    /\ part \in {"lifecycle", "connections", "budget", "frame", "tables",
                 "protection", "grants", "governance", "host"}
    /\ IF part = "lifecycle" THEN LifecycleInit ELSE LifecycleOff
    /\ IF part = "connections" THEN ConnectionsInit ELSE ConnectionsOff
    /\ IF part = "budget" THEN BudgetInit ELSE BudgetOff
    /\ IF part = "frame" THEN FrameInit ELSE FrameOff
    /\ IF part = "tables" THEN TablesInit ELSE TablesOff
    /\ IF part = "protection" THEN ProtectionInit ELSE ProtectionOff
    /\ IF part = "grants" THEN GrantsInit ELSE GrantsOff
    /\ IF part = "governance" THEN GovernanceInit ELSE GovernanceOff
    /\ IF part = "host" THEN HostInit ELSE HostOff

PlatformNext ==
    /\ UNCHANGED part
    /\ \/ part = "lifecycle" /\ LifecycleNext
          /\ UNCHANGED <<connectionVars, budgetVars, frameVars, tablesVars,
                         protectionVars, grantVars, governanceVars, hostVars>>
       \/ part = "connections" /\ ConnectionsNext
          /\ UNCHANGED <<lifecycleVars, budgetVars, frameVars, tablesVars,
                         protectionVars, grantVars, governanceVars, hostVars>>
       \/ part = "budget" /\ BudgetNext
          /\ UNCHANGED <<lifecycleVars, connectionVars, frameVars, tablesVars,
                         protectionVars, grantVars, governanceVars, hostVars>>
       \/ part = "frame" /\ FrameNext
          /\ UNCHANGED <<lifecycleVars, connectionVars, budgetVars, tablesVars,
                         protectionVars, grantVars, governanceVars, hostVars>>
       \/ part = "tables" /\ TablesNext
          /\ UNCHANGED <<lifecycleVars, connectionVars, budgetVars, frameVars,
                         protectionVars, grantVars, governanceVars, hostVars>>
       \/ part = "protection" /\ ProtectionNext
          /\ UNCHANGED <<lifecycleVars, connectionVars, budgetVars, frameVars, tablesVars,
                         grantVars, governanceVars, hostVars>>
       \/ part = "grants" /\ GrantsNext
          /\ UNCHANGED <<lifecycleVars, connectionVars, budgetVars, frameVars, tablesVars,
                         protectionVars, governanceVars, hostVars>>
       \/ part = "governance" /\ GovernanceNext
          /\ UNCHANGED <<lifecycleVars, connectionVars, budgetVars, frameVars, tablesVars,
                         protectionVars, grantVars, hostVars>>
       \/ part = "host" /\ HostNext
          /\ UNCHANGED <<lifecycleVars, connectionVars, budgetVars, frameVars, tablesVars,
                         protectionVars, grantVars, governanceVars>>

PlatformSpec == PlatformInit /\ [][PlatformNext]_<<part, partVars>>

-----------------------------------------------------------------------------
(* Constants of the instances                                              *)

TwoManifests == {[set |-> "s1", conn |-> "read", task |-> "none"],
                 [set |-> "none", conn |-> "read-write", task |-> "t1"]}

\* Agent "a" is at the top; "b" reports to it, to nobody, or is gone.
Team(boss, status) == [boss |-> [x \in Agents |-> IF x = "b" THEN boss ELSE NoAgent],
                       status |-> [x \in Agents |-> IF x = "b" THEN status ELSE "active"]]
ThreeTeams == {Team("a", "active"), Team(NoAgent, "active"), Team("a", "terminated")}

\* The parts that are symmetric in something share two sets of model values for it.
Alike == Permutations(Editors) \cup Permutations(Lookups)

-----------------------------------------------------------------------------
\* Nothing goes out through an app that a person has not confirmed for its current
\* version, whatever edits, archives and restores cross the calls (apps/service.ts).
OnlyConfirmedGoesOut ==
    part = "lifecycle" => LifecycleTypeOK /\ CurrentWasConfirmed /\ CallsReachWhatWasConfirmed

\* A call goes out with the secret of its own settings, and one that saving or rotating
\* has not made stale; a broken secret is left alone (connections, secrets/cache.ts).
SecretsAreCurrent ==
    part = "connections" =>
        /\ ConnectionsTypeOK /\ SecretOfItsSettings /\ SavedSettingsApplyAtOnce
        /\ RotationTakesEffect /\ BrokenSecretIsLeftAlone

\* The daily cap holds, a failed call costs nothing on any day, and a row of a batch is
\* answered once and within the batch's deadline (decisions/service.ts, store.ts).
BudgetIsKept ==
    part = "budget" =>
        /\ BudgetTypeOK /\ FailedCallsCostNothing /\ CapIsKept /\ RowsAreDecidedOnceInTime

\* Whoever watches a task hears what the host heard last, and the host's slots are its
\* running watches (ui/apps/bridge.ts, task-watch.ts).
WatchesWork == part = "frame" => FrameTypeOK /\ WatchersHearTheNews /\ SlotsAreWatches

\* A callback never hears an older state of its task after a newer one (task-watch.ts).
FramesGoForward == [][part = "frame" => NeverHearsOlder]_frameVars

\* The catalog tells of the tables as they are, records hold no choice that is not
\* among its field's, and the trash keeps what it must (data/schema-service.ts).
TablesAgree ==
    part = "tables" => TablesTypeOK /\ CatalogTellsOfTables /\ ChoicesAreChecked /\ TrashIsKept

\* The manager rule and the groups undo what they did and no more, and neither opens what
\* the other still protects; a person's scoped grant is on record with the one it replaced,
\* a grant set by hand stands, and an undisturbed pass settles it; and `agent-rules off`
\* puts back the setting KyoubeAI first replaced, however passes overlap (kyoube-agent-rules:
\* guard.ts, groups.ts; docker/bootstrap: governance.ts, state.ts, pass.ts).
AgentRulesHold ==
    /\ part = "protection" =>
         ProtectionTypeOK /\ RevertGivesBack /\ TakenAwayStays /\ GroupsOutlastTheRules
    /\ part = "grants" => GrantsTypeOK /\ ScopedRowsAreOnRecord /\ HandSetGrantsStand /\ PassSettles
    /\ part = "governance" => GovernanceTypeOK /\ OffRestoresTheFirst

\* No update, however stopped, resumed and rolled back, starts code on data it does not
\* know or on half-restored data, and what a rollback returns to is whole (update.sh).
UpdatesAreSafe ==
    part = "host" =>
        /\ HostTypeOK /\ NeverOlderCodeOnNewerData /\ HalfRestoredNeverStarts
        /\ RollbackPointIsWhole /\ RollbackReturns /\ OwnCommitsStay
=============================================================================
