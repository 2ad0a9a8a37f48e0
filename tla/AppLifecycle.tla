---------------------------- MODULE AppLifecycle ----------------------------
(***************************************************************************)
(* Apps and their versions: `AppService` and `AppStore` (kyoube-apps/src/  *)
(* apps/service.ts, store.ts), for the apps that share one slug.           *)
(*                                                                         *)
(* Every by-slug operation looks the live app up anew, between its awaits, *)
(* while other people and agents publish, archive and make apps.  What a   *)
(* person must confirm is kept as three parts of a manifest: a decision    *)
(* set, a connection and a task template.  The manifest's other contents,  *)
(* levels, groups and audit rows (which commit with their change) only     *)
(* refuse a call or travel with it; a call may be refused at any await.    *)
(***************************************************************************)
EXTENDS Integers, FiniteSets

CONSTANTS
    Editors,        \* calls in flight that change apps
    Viewers,        \* calls in flight of running apps
    TaskAgents,     \* the agents a template may reach
    Manifests,      \* bound: the manifests saved, each [set, conn, task]
    MaxApps,        \* bound: apps ever made under the slug
    MaxVersions     \* bound: versions ever saved

None == "none"

ASSUME LifecycleAssumption ==
    /\ MaxApps \in Nat /\ MaxVersions \in Nat
    /\ None \notin TaskAgents
    /\ \A m \in Manifests : m.conn \in {None, "read", "read-write"}

VARIABLES
    app,            \* kyoube_meta.apps
    version,        \* kyoube_meta.app_versions
    edit,           \* per editor: the locals of its method
    view,           \* per viewer: the locals of its method
    record          \* history: what persons confirmed, what left unconfirmed

lifecycleVars == <<app, version, edit, view, record>>

-----------------------------------------------------------------------------
AppIds   == 1..MaxApps
Numbers  == 1..MaxVersions
Versions == AppIds \X Numbers

NoApp     == 0
NoVersion == <<0, 0>>
Empty     == [set |-> None, conn |-> None, task |-> None]

AppRow == [status: {None, "draft", "published", "archived"},
           current: 0..MaxVersions, latest: 0..MaxVersions]
VersionRow == [manifest: Manifests \cup {Empty}, agent: TaskAgents \cup {None}]

PublishSteps == {"current", "stored", "reaching", "guard", "require", "setCurrent"}
ArchiveSteps == {"archiveGuard", "archiveRequire", "setStatus"}
EditSteps    == {"idle", "insert", "addVersion"} \cup PublishSteps \cup ArchiveSteps

Edit == [pc: EditSteps, by: {"person", "agent"},
         app: AppIds \cup {NoApp},              \* store.require, before the transaction
         target: Versions \cup {NoVersion}, current: Versions \cup {NoVersion},
         stored: TaskAgents \cup {None}, agent: TaskAgents \cup {None},
         confirmed: SUBSET {"set", "conn", "task"},
         manifest: Manifests \cup {Empty}]

View == [pc: {"idle", "open", "agents"}, of: Versions \cup {NoVersion}]

\* What leaves the server through an app: a decision set, a connection's
\* access, a template's task to an agent.
Items == {"set"} \X {m.set : m \in Manifests}
            \cup {"conn"} \X {"read", "read-write"}
            \cup {"task"} \X {m.task : m \in Manifests} \X TaskAgents

Live     == {a \in AppIds : app[a].status \notin {None, "archived"}}
LiveApp  == IF Live = {} THEN NoApp ELSE CHOOSE a \in Live : TRUE
Manifest(v) == IF v = NoVersion THEN Empty ELSE version[v[1]][v[2]].manifest
AgentOf(v)  == IF v = NoVersion THEN None ELSE version[v[1]][v[2]].agent

Saved   == {v \in Versions : v[2] <= app[v[1]].latest}
MaySave == Cardinality(Saved) < MaxVersions

NotEditing == [pc |-> "idle", by |-> "person", app |-> NoApp, target |-> NoVersion,
               current |-> NoVersion, stored |-> None, agent |-> None,
               confirmed |-> {}, manifest |-> Empty]
NotViewing == [pc |-> "idle", of |-> NoVersion]

Editing(c, step) == edit[c].pc = step
EditOn(c, step)  == edit' = [edit EXCEPT ![c].pc = step]
EditEnds(c)      == edit' = [edit EXCEPT ![c] = NotEditing]

-----------------------------------------------------------------------------
(* create, update                                                          *)

BeginCreate(c, m) ==
    /\ Editing(c, "idle") /\ Live = {}
    /\ edit' = [edit EXCEPT ![c] = [NotEditing EXCEPT !.pc = "insert", !.manifest = m]]
    /\ UNCHANGED <<app, version, view, record>>

\* apps_company_slug_live_idx: two creates that both found the slug free.
SlugIsFree == Live = {}

InsertApp(c) ==
    \E a \in AppIds :
        /\ Editing(c, "insert")
        /\ SlugIsFree /\ MaySave
        /\ app[a].status = None /\ \A b \in AppIds : app[b].status = None => a <= b
        /\ app' = [app EXCEPT ![a] = [status |-> "draft", current |-> 0, latest |-> 1]]
        /\ version' = [version EXCEPT ![a][1] = [manifest |-> edit[c].manifest, agent |-> None]]
        /\ EditEnds(c)
        /\ UNCHANGED <<view, record>>

BeginUpdate(c, m) ==
    /\ Editing(c, "idle") /\ LiveApp # NoApp
    /\ edit' = [edit EXCEPT ![c] = [NotEditing EXCEPT
                    !.pc = "addVersion", !.manifest = m, !.app = LiveApp]]
    /\ UNCHANGED <<app, version, view, record>>

AddVersion(c) ==
    LET a == edit[c].app  n == app[a].latest + 1 IN
    /\ Editing(c, "addVersion")
    /\ MaySave
    /\ app' = [app EXCEPT ![a].latest = n]
    /\ version' = [version EXCEPT ![a][n] = [manifest |-> edit[c].manifest, agent |-> None]]
    /\ EditEnds(c)
    /\ UNCHANGED <<view, record>>

-----------------------------------------------------------------------------
(* makeCurrent, for publish and rollback                                   *)

\* "latest" or a number, of the app that has the slug now.
ReadTarget(c, by) ==
    \E n \in 1..app[LiveApp].latest :
        /\ edit' = [edit EXCEPT ![c] = [NotEditing EXCEPT
                        !.pc = "current", !.by = by, !.target = <<LiveApp, n>>]]
        /\ UNCHANGED <<app, version, view, record>>

BeginPublish(c, by) == Editing(c, "idle") /\ LiveApp # NoApp /\ ReadTarget(c, by)

Published(a) == IF a = NoApp \/ app[a].current = 0 THEN NoVersion ELSE <<a, app[a].current>>

DecisionSetsChanged(old, new) == new.set # None /\ old.set # new.set
ConnectionsChanged(old, new) ==
    \/ new.conn # None /\ old.conn = None
    \/ old.conn = "read" /\ new.conn = "read-write"
TaskTemplatesChanged(old, new) == new.task # None /\ old.task # new.task

\* A change of a part needs a person, who confirmed it; an agent is refused.
Confirms(c, part, changed) == changed => edit[c].by = "person"

ReadCurrent(c) ==
    LET v == Published(LiveApp)  old == Manifest(v)  new == Manifest(edit[c].target) IN
    /\ Editing(c, "current")
    /\ Confirms(c, "set", DecisionSetsChanged(old, new))
    /\ Confirms(c, "conn", ConnectionsChanged(old, new))
    /\ edit' = [edit EXCEPT ![c].pc = "stored", ![c].current = v, ![c].confirmed =
                    {p \in {"set", "conn"} : \/ p = "set" /\ DecisionSetsChanged(old, new)
                                             \/ p = "conn" /\ ConnectionsChanged(old, new)}]
    /\ UNCHANGED <<app, version, view, record>>

\* planTaskAgents: the target's stored agent, then the current version's.
ReadStored(c) ==
    /\ Editing(c, "stored")
    /\ edit' = [edit EXCEPT ![c].pc = "reaching", ![c].stored = AgentOf(edit[c].target)]
    /\ UNCHANGED <<app, version, view, record>>

\* A version published before keeps its agent, an unchanged template carries
\* the current version's over, and only then is the name looked up, in a
\* directory that others change.
Planned(e, reaching) ==
    LET changed == TaskTemplatesChanged(Manifest(e.current), Manifest(e.target)) IN
    IF Manifest(e.target).task = None THEN {None}
    ELSE IF e.stored # None THEN {e.stored}
    ELSE IF ~changed /\ reaching # None THEN {reaching}
    ELSE TaskAgents

Rebound(e, reaching, agent) ==
    /\ Manifest(e.target).task # None /\ Manifest(e.current).task # None
    /\ reaching # agent

PlanTaskAgents(c) ==
    LET e == edit[c]  reaching == AgentOf(e.current) IN
    /\ Editing(c, "reaching")
    /\ \E agent \in Planned(e, reaching) :
          LET changed == \/ TaskTemplatesChanged(Manifest(e.current), Manifest(e.target))
                         \/ Rebound(e, reaching, agent) IN
          /\ Confirms(c, "task", changed)
          /\ edit' = [edit EXCEPT
                ![c].pc = IF e.by = "agent" THEN "guard" ELSE "require",
                ![c].stored = None, ![c].agent = agent,
                ![c].confirmed = @ \cup {p \in {"task"} : changed}]
    /\ UNCHANGED <<app, version, view, record>>

\* The guardrail let the agent's publish of this exact version pass.
Guarded(c) ==
    /\ Editing(c, "guard")
    /\ EditOn(c, "require")
    /\ UNCHANGED <<app, version, view, record>>

\* setCurrent: the slug's app once more, then its version of that number.
RequireApp(c) ==
    /\ Editing(c, "require") /\ LiveApp # NoApp
    /\ edit' = [edit EXCEPT ![c].pc = "setCurrent", ![c].app = LiveApp]
    /\ UNCHANGED <<app, version, view, record>>

Confirmed(e) ==
    LET m == Manifest(e.target) IN
    {i \in Items : \/ "set" \in e.confirmed /\ i = <<"set", m.set>>
                   \/ "conn" \in e.confirmed /\ i[1] = "conn" /\ i[2] \in {"read", m.conn}
                   \/ "task" \in e.confirmed /\ i = <<"task", m.task, e.agent>>}

SetCurrent(c) ==
    LET e == edit[c]  a == e.app  n == e.target[2] IN
    /\ Editing(c, "setCurrent")
    /\ n <= app[a].latest
    /\ app[a].status = "archived" => SlugIsFree     \* the index, or the update fails
    /\ version' = [version EXCEPT ![a][n].agent = e.agent]
    /\ app' = [app EXCEPT ![a].status = "published", ![a].current = n]
    /\ record' = [record EXCEPT
            !.confirmed[e.target[1]] = @ \cup Confirmed(e),
            !.crossed = @ \cup {b \in {a} : \/ e.target[1] # a
                                            \/ e.current # NoVersion /\ e.current[1] # a}]
    /\ EditEnds(c)
    /\ UNCHANGED view

-----------------------------------------------------------------------------
(* archive                                                                 *)

BeginArchive(c, by) ==
    /\ Editing(c, "idle") /\ LiveApp # NoApp
    /\ edit' = [edit EXCEPT ![c] = [NotEditing EXCEPT
                    !.pc = IF by = "agent" THEN "archiveGuard" ELSE "archiveRequire",
                    !.by = by, !.app = LiveApp]]
    /\ UNCHANGED <<app, version, view, record>>

ArchiveGuarded(c) ==
    /\ Editing(c, "archiveGuard")
    /\ EditOn(c, "archiveRequire")
    /\ UNCHANGED <<app, version, view, record>>

ArchiveRequire(c) ==
    /\ Editing(c, "archiveRequire") /\ LiveApp # NoApp
    /\ edit' = [edit EXCEPT ![c].pc = "setStatus", ![c].app = LiveApp]
    /\ UNCHANGED <<app, version, view, record>>

SetStatus(c) ==
    /\ Editing(c, "setStatus")
    /\ app' = [app EXCEPT ![edit[c].app].status = "archived"]
    /\ EditEnds(c)
    /\ UNCHANGED <<version, view, record>>

\* A check that refuses, a query that fails, or a restart.
EditFails(c) ==
    /\ ~Editing(c, "idle")
    /\ EditEnds(c)
    /\ UNCHANGED <<app, version, view, record>>

-----------------------------------------------------------------------------
(* What a running app may do: the published version, read from the app as  *)
(* it was found, decides what leaves the server.                           *)

NewestOf(a) == <<a, app[a].latest>>     \* mutant: the newest version, confirmed or not
Opened(a) == <<a, app[a].current>>

Open(d) ==
    LET a == LiveApp IN
    /\ view[d].pc = "idle"
    /\ a # NoApp /\ app[a].status = "published"
    /\ view' = [view EXCEPT ![d] = [pc |-> "open", of |-> Opened(a)]]
    /\ UNCHANGED <<app, version, edit, record>>

Send(d, item) ==
    /\ LET a == view[d].of[1] IN
       record' = [record EXCEPT !.unasked = @ \cup ({<<a, item>>} \ ({a} \X record.confirmed[a]))]
    /\ view' = [view EXCEPT ![d] = NotViewing]

RuntimeDecide(d) ==
    /\ view[d].pc = "open" /\ Manifest(view[d].of).set # None
    /\ Send(d, <<"set", Manifest(view[d].of).set>>)
    /\ UNCHANGED <<app, version, edit>>

RuntimeConnection(d) ==
    /\ view[d].pc = "open" /\ Manifest(view[d].of).conn # None
    /\ Send(d, <<"conn", Manifest(view[d].of).conn>>)
    /\ UNCHANGED <<app, version, edit>>

\* The template's agent is read after the app: "a guard, not a path" when it
\* is missing.
RuntimeTask(d) ==
    /\ view[d].pc = "open" /\ Manifest(view[d].of).task # None
    /\ view' = [view EXCEPT ![d].pc = "agents"]
    /\ UNCHANGED <<app, version, edit, record>>

RuntimeTaskStart(d) ==
    /\ view[d].pc = "agents" /\ AgentOf(view[d].of) # None
    /\ Send(d, <<"task", Manifest(view[d].of).task, AgentOf(view[d].of)>>)
    /\ UNCHANGED <<app, version, edit>>

ViewEnds(d) ==
    /\ view[d].pc # "idle"
    /\ view' = [view EXCEPT ![d] = NotViewing]
    /\ UNCHANGED <<app, version, edit, record>>

-----------------------------------------------------------------------------
LifecycleInit ==
    /\ app = [a \in AppIds |-> [status |-> None, current |-> 0, latest |-> 0]]
    /\ version = [a \in AppIds |-> [n \in Numbers |-> [manifest |-> Empty, agent |-> None]]]
    /\ edit = [c \in Editors |-> NotEditing]
    /\ view = [d \in Viewers |-> NotViewing]
    /\ record = [confirmed |-> [a \in AppIds |-> {}], unasked |-> {}, crossed |-> {}]

EditBegins(c) ==
    \/ \E m \in Manifests : BeginCreate(c, m) \/ BeginUpdate(c, m)
    \/ \E by \in {"person", "agent"} : BeginPublish(c, by) \/ BeginArchive(c, by)

EditGoesOn(c) ==
    \/ InsertApp(c) \/ AddVersion(c)
    \/ ReadCurrent(c) \/ ReadStored(c) \/ PlanTaskAgents(c) \/ Guarded(c)
    \/ RequireApp(c) \/ SetCurrent(c)
    \/ ArchiveGuarded(c) \/ ArchiveRequire(c) \/ SetStatus(c)
    \/ EditFails(c)

ViewStep(d) ==
    \/ Open(d) \/ RuntimeDecide(d) \/ RuntimeConnection(d)
    \/ RuntimeTask(d) \/ RuntimeTaskStart(d) \/ ViewEnds(d)

LifecycleNext ==
    \/ \E c \in Editors : EditBegins(c) \/ EditGoesOn(c)
    \/ \E d \in Viewers : ViewStep(d)

LifecycleSpec == LifecycleInit /\ [][LifecycleNext]_lifecycleVars

-----------------------------------------------------------------------------
LifecycleTypeOK ==
    /\ app \in [AppIds -> AppRow]
    /\ version \in [AppIds -> [Numbers -> VersionRow]]
    /\ edit \in [Editors -> Edit]
    /\ view \in [Viewers -> View]
    /\ record \in [confirmed: [AppIds -> SUBSET Items], unasked: SUBSET (AppIds \X Items),
                    crossed: SUBSET AppIds]

\* What a version lets the app reach.
Reach(v) ==
    LET m == Manifest(v) IN
    {i \in {<<"set", m.set>>, <<"conn", m.conn>>} : i[2] # None}
        \cup (IF m.task = None THEN {} ELSE {<<"task", m.task, AgentOf(v)>>})

\* However publishes, rollbacks and saves race, what the published version
\* lets the app reach was once confirmed by a person for that app: its
\* decision set, its connection's access, and its template with its agent
\* (makeCurrent, planTaskAgents).  Not when a publish that looked at one app
\* landed on the app that has the slug by then.
CurrentWasConfirmed ==
    \A a \in AppIds \ record.crossed :
        app[a].status = "published" => Reach(<<a, app[a].current>>) \subseteq record.confirmed[a]

\* What a running app's call sends out was confirmed by a person, whatever is
\* saved, published or archived while the call is under way (open, runtimeDecide,
\* runtimeConnection, runtimeTaskStart).
CallsReachWhatWasConfirmed == \A s \in record.unasked : s[1] \in record.crossed

=============================================================================
