----------------------------- MODULE AppProofs ------------------------------
(***************************************************************************)
(* Theorems about the apps and what serves them, for every value of the    *)
(* constants: AppLifecycle and AppFrame, for any editors, viewers, agents, *)
(* manifests, callbacks and polls; Connections, for any calls, lookups and *)
(* lifetime of a secret; DecisionBudget, for any workers, questions, rows, *)
(* cap and deadline; and DataTables, for any clients, tables, fields and   *)
(* calls.                                                                  *)
(***************************************************************************)
EXTENDS AppLifecycle, AppFrame, Connections, DecisionBudget, DataTables,
        FiniteSetTheorems, WellFoundedInduction, TLAPS

-----------------------------------------------------------------------------
(* AppLifecycle.  LifecycleInv is the inductive invariant: it says what a  *)
(* publish knows, at each of its awaits, of the versions it has read, and why*)
(* that stays so while others publish.                                     *)

MadeApp(a) == a \in AppIds /\ app[a].status # None

\* A decision set and a connection of a manifest, as far as it has them.
HeldParts(m) == {i \in {<<"set", m.set>>, <<"conn", m.conn>>} : i[2] # None}

\* A person has confirmed that the app may have these parts; of an app on
\* which a publish that had looked at another one landed nothing is known.
HasParts(a, m) == a \notin record.crossed => HeldParts(m) \subseteq record.confirmed[a]

HasTask(a, m, agent) ==
    a \notin record.crossed => <<"task", m.task, agent>> \in record.confirmed[a]

AppOK(a) ==
    /\ app[a].status = None => app[a].latest = 0
    /\ app[a].current <= app[a].latest
    /\ app[a].status = "published" => app[a].current # 0
    /\ <<"conn", "read-write">> \in record.confirmed[a] => <<"conn", "read">> \in record.confirmed[a]

\* A version that has an agent reaches it by a person's leave, and so does the
\* current version its other parts.
VersionOK(v) == AgentOf(v) # None => HasTask(v[1], Manifest(v), AgentOf(v))

CurrentOK(a) ==
    app[a].current # 0 /\ a \notin record.crossed =>
        LET v == <<a, app[a].current>> IN
        /\ HasParts(a, Manifest(v))
        /\ Manifest(v).task # None <=> AgentOf(v) # None

\* From "stored" on a publish has compared its target with the version that
\* was current: what it did not put to the person, that version already had.
Compared(e) ==
    /\ e.current # NoVersion => e.current \in Saved /\ HasParts(e.current[1], Manifest(e.current))
    /\ "set" \notin e.confirmed => ~DecisionSetsChanged(Manifest(e.current), Manifest(e.target))
    /\ "conn" \notin e.confirmed => ~ConnectionsChanged(Manifest(e.current), Manifest(e.target))

\* From "guard" on it has the agent, put to the person or known of the current version.
Bound(e) ==
    /\ Manifest(e.target).task # None <=> e.agent # None
    /\ Manifest(e.target).task # None /\ "task" \notin e.confirmed =>
          /\ e.current # NoVersion
          /\ HasTask(e.current[1], Manifest(e.target), e.agent)

EditOK(e) ==
    /\ e.pc \in {"addVersion", "setStatus", "setCurrent"} => MadeApp(e.app)
    /\ e.pc \in PublishSteps => e.target \in Saved
    /\ e.pc \in PublishSteps \ {"current"} => Compared(e)
    /\ e.pc \in {"guard", "require", "setCurrent"} => Bound(e)

ViewOK(w) ==
    /\ w.pc # "idle" => w.of \in Saved /\ HasParts(w.of[1], Manifest(w.of))
    /\ w.pc = "agents" => Manifest(w.of).task # None

LifecycleInv ==
    /\ LifecycleTypeOK
    /\ \A a \in AppIds : AppOK(a) /\ CurrentOK(a)
    /\ \A v \in Versions : VersionOK(v)
    /\ \A c \in Editors : EditOK(edit[c])
    /\ \A d \in Viewers : ViewOK(view[d])
    /\ CallsReachWhatWasConfirmed

-----------------------------------------------------------------------------
LEMMA LiveAppIsLive ==
    ASSUME LiveApp # NoApp
    PROVE  LiveApp \in AppIds /\ app[LiveApp].status \notin {None, "archived"}
BY DEF LiveApp, Live

LEMMA VersionIds ==
    /\ AppIds \subseteq Nat /\ NoApp \notin AppIds
    /\ Numbers \subseteq Nat /\ NoVersion \notin Versions
    /\ \A v \in Versions : v[1] \in AppIds /\ v[2] \in Numbers /\ v = <<v[1], v[2]>>
BY LifecycleAssumption DEF AppIds, Numbers, NoApp, NoVersion, Versions

LEMMA SavedIds ==
    ASSUME LifecycleTypeOK, NEW v \in Saved
    PROVE  /\ v \in Versions /\ v # NoVersion /\ v[1] \in AppIds /\ v[2] \in Numbers
           /\ v = <<v[1], v[2]>> /\ v[2] <= app[v[1]].latest
           /\ Manifest(v) = version[v[1]][v[2]].manifest
           /\ AgentOf(v) = version[v[1]][v[2]].agent
BY VersionIds DEF Saved, Manifest, AgentOf

LEMMA ManifestConn ==
    ASSUME LifecycleTypeOK, NEW v \in Versions \cup {NoVersion}
    PROVE  Manifest(v).conn \in {None, "read", "read-write"}
BY VersionIds, LifecycleAssumption DEF Manifest, Empty, LifecycleTypeOK, VersionRow

\* Where one more version may be saved, the newest of any app has a successor.
LEMMA RoomForOneMore ==
    ASSUME LifecycleTypeOK, MaySave, NEW a \in AppIds
    PROVE  app[a].latest \in Nat /\ app[a].latest + 1 \in Numbers
<1> DEFINE n == app[a].latest
           T == {a} \X (1..n)
<1>1. n \in Nat /\ n <= MaxVersions
  BY LifecycleAssumption DEF LifecycleTypeOK, AppRow
<1>2. IsFiniteSet(Saved)
  <2>1. IsFiniteSet(Versions)
    <3>1. IsFiniteSet(AppIds) /\ IsFiniteSet(Numbers)
      BY FS_Interval, LifecycleAssumption DEF AppIds, Numbers
    <3>2. QED
      BY <3>1, FS_Product, Zenon DEF Versions
  <2>2. QED
    BY <2>1, FS_Subset DEF Saved
<1>3. T \subseteq Saved
  BY <1>1, LifecycleAssumption DEF Saved, Versions, Numbers
<1>4. Cardinality(T) = n
  <2>1. IsFiniteSet({a}) /\ Cardinality({a}) = 1
    BY FS_Singleton
  <2>2. IsFiniteSet(1..n) /\ Cardinality(1..n) = n
    <3>1. IsFiniteSet(1..n) /\ Cardinality(1..n) = IF 1 > n THEN 0 ELSE n - 1 + 1
      BY <1>1, FS_Interval, SMTT(20)
    <3>2. QED
      BY <1>1, <3>1
  <2>3. Cardinality(T) = Cardinality({a}) * Cardinality(1..n)
    BY <2>1, <2>2, FS_Product, Zenon
  <2>4. QED
    BY <1>1, <2>1, <2>2, <2>3
<1>5. n <= Cardinality(Saved)
  BY <1>2, <1>3, <1>4, FS_Subset
<1>6. Cardinality(Saved) \in Nat
  BY <1>2, FS_CardinalityType
<1>7. QED
  BY <1>1, <1>5, <1>6, LifecycleAssumption DEF MaySave, Numbers

-----------------------------------------------------------------------------
\* What no step takes back: versions stay as saved, apps as made, and
\* confirmations as given.
Grows ==
    /\ \A v \in Saved : v \in Saved' /\ Manifest(v)' = Manifest(v)
    /\ \A a \in AppIds : /\ MadeApp(a) => MadeApp(a)'
                         /\ record.confirmed[a] \subseteq record'.confirmed[a]
                         /\ a \in record.crossed => a \in record'.crossed

LEMMA HasStays ==
    ASSUME Grows, NEW a \in AppIds, NEW m, NEW agent
    PROVE  /\ HasParts(a, m) => HasParts(a, m)'
           /\ HasTask(a, m, agent) => HasTask(a, m, agent)'
BY DEF Grows, HasParts, HasTask, HeldParts

LEMMA EditStays ==
    ASSUME LifecycleTypeOK, LifecycleTypeOK', Grows, NEW e \in Edit, EditOK(e)
    PROVE  EditOK(e)'
<1>1. e.pc \in {"addVersion", "setStatus", "setCurrent"} => MadeApp(e.app)'
  BY DEF EditOK, Grows, MadeApp
<1>2. ASSUME e.pc \in PublishSteps
      PROVE  e.target \in Saved' /\ Manifest(e.target)' = Manifest(e.target)
  BY <1>2 DEF EditOK, Grows
<1>3. ASSUME e.pc \in PublishSteps \ {"current"}
      PROVE  /\ Compared(e)' /\ Manifest(e.current)' = Manifest(e.current)
             /\ e.current # NoVersion => e.current[1] \in AppIds
  BY <1>3, <1>2, SavedIds, HasStays DEF EditOK, Compared, Manifest, Grows, HasParts
<1>4. ASSUME e.pc \in {"guard", "require", "setCurrent"}
      PROVE  Bound(e)'
  BY <1>4, <1>2, <1>3, HasStays DEF EditOK, PublishSteps, HasTask, Grows, Bound
<1>5. QED
  BY <1>1, <1>2, <1>3, <1>4 DEF EditOK

LEMMA ViewStays ==
    ASSUME LifecycleTypeOK, LifecycleTypeOK', Grows, NEW w \in View, ViewOK(w)
    PROVE  ViewOK(w)'
BY SavedIds, HasStays DEF ViewOK, Grows, HasParts

\* A step of an editor leaves the other editors, and every viewer, what they know.
LEMMA EditFrame ==
    ASSUME LifecycleInv, LifecycleTypeOK', Grows, NEW c \in Editors, NEW e \in Edit,
           edit' = [edit EXCEPT ![c] = e], EditOK(e)', UNCHANGED view
    PROVE  /\ \A b \in Editors : EditOK(edit[b])'
           /\ \A d \in Viewers : ViewOK(view[d])'
<1> USE DEF LifecycleInv
<1>1. ASSUME NEW b \in Editors
      PROVE  EditOK(edit[b])'
  BY EditStays DEF LifecycleTypeOK, EditOK, Compared, Bound
<1>2. ASSUME NEW d \in Viewers
      PROVE  ViewOK(view[d])'
  BY ViewStays DEF LifecycleTypeOK, ViewOK
<1>3. QED
  BY <1>1, <1>2

\* A step that only an editor's own locals show.
LEMMA EditReads ==
    ASSUME LifecycleInv, NEW c \in Editors, NEW e \in Edit,
           edit' = [edit EXCEPT ![c] = e], EditOK(e),
           UNCHANGED <<app, version, view, record>>
    PROVE  LifecycleInv'
<1>1. LifecycleTypeOK'
  BY DEF LifecycleInv, LifecycleTypeOK
<1>2. Grows
  BY DEF Grows, Saved, Manifest, MadeApp
<1>3. EditOK(e)'
  BY <1>1, <1>2, EditStays DEF LifecycleInv
<1>4. /\ \A b \in Editors : EditOK(edit[b])'
      /\ \A d \in Viewers : ViewOK(view[d])'
  BY <1>1, <1>2, <1>3, EditFrame
<1>5. /\ \A a \in AppIds : AppOK(a)' /\ CurrentOK(a)'
      /\ \A v \in Versions : VersionOK(v)'
  BY DEF LifecycleInv, AppOK, CurrentOK, VersionOK, HasParts, HasTask, Manifest, AgentOf
<1>6. CallsReachWhatWasConfirmed'
  BY DEF LifecycleInv, CallsReachWhatWasConfirmed
<1>7. QED
  BY <1>1, <1>4, <1>5, <1>6 DEF LifecycleInv

\* A step of an editor that writes, and ends.
LEMMA EditWrites ==
    ASSUME LifecycleInv, LifecycleTypeOK', Grows, NEW c \in Editors, EditEnds(c), UNCHANGED view,
           record'.unasked = record.unasked,
           \A a \in AppIds : AppOK(a)' /\ CurrentOK(a)',
           \A v \in Versions : VersionOK(v)'
    PROVE  LifecycleInv'
<1>1. NotEditing \in Edit /\ EditOK(NotEditing)'
  BY DEF NotEditing, Edit, EditSteps, PublishSteps, ArchiveSteps, EditOK
<1>2. /\ \A b \in Editors : EditOK(edit[b])'
      /\ \A d \in Viewers : ViewOK(view[d])'
  BY <1>1, EditFrame DEF EditEnds
<1>3. CallsReachWhatWasConfirmed'
  BY DEF LifecycleInv, CallsReachWhatWasConfirmed, LifecycleTypeOK, Grows
<1>4. QED
  BY <1>2, <1>3 DEF LifecycleInv

\* A step of a viewer, which sends nothing that was not confirmed.
LEMMA ViewReads ==
    ASSUME LifecycleInv, NEW d \in Viewers, NEW w \in View,
           view' = [view EXCEPT ![d] = w], ViewOK(w),
           NEW sent \in SUBSET (AppIds \X Items), \A s \in sent : s[1] \in record.crossed,
           record' = [record EXCEPT !.unasked = @ \cup sent],
           UNCHANGED <<app, version, edit>>
    PROVE  LifecycleInv'
<1>1. /\ record'.confirmed = record.confirmed /\ record'.crossed = record.crossed
      /\ record'.unasked = record.unasked \cup sent
  BY DEF LifecycleInv, LifecycleTypeOK
<1>2. LifecycleTypeOK'
  BY DEF LifecycleInv, LifecycleTypeOK
<1>3. Grows
  BY <1>1 DEF Grows, Saved, Manifest, MadeApp
<1>4. ASSUME NEW b \in Viewers
      PROVE  ViewOK(view[b])'
  BY <1>2, <1>3, ViewStays DEF LifecycleTypeOK, LifecycleInv, ViewOK
<1>5. ASSUME NEW c \in Editors
      PROVE  EditOK(edit[c])'
  BY <1>2, <1>3, EditStays DEF LifecycleInv, LifecycleTypeOK, EditOK, Compared, Bound
<1>6. /\ \A a \in AppIds : AppOK(a)' /\ CurrentOK(a)'
      /\ \A v \in Versions : VersionOK(v)'
  BY <1>1 DEF LifecycleInv, AppOK, CurrentOK, VersionOK, HasParts, HasTask, Manifest, AgentOf
<1>7. CallsReachWhatWasConfirmed'
  BY <1>1 DEF LifecycleInv, CallsReachWhatWasConfirmed
<1>8. QED
  BY <1>2, <1>4, <1>5, <1>6, <1>7 DEF LifecycleInv

-----------------------------------------------------------------------------
(* One lemma for each group of actions                                     *)

LEMMA NotEditingIsKnown == NotEditing \in Edit /\ EditOK(NotEditing)
BY DEF NotEditing, Edit, EditSteps, PublishSteps, ArchiveSteps, EditOK

LEMMA BeginsKnown ==
    ASSUME LifecycleInv, NEW c \in Editors, EditBegins(c)
    PROVE  LifecycleInv'
<1>1. ASSUME NEW m \in Manifests, BeginCreate(c, m)
      PROVE  LifecycleInv'
  <2> DEFINE e == [NotEditing EXCEPT !.pc = "insert", !.manifest = m]
  <2>1. e \in Edit /\ EditOK(e)
    BY DEF NotEditing, Edit, EditSteps, PublishSteps, EditOK
  <2>2. QED
    BY <1>1, <2>1, EditReads DEF BeginCreate
<1>2. ASSUME NEW m \in Manifests, BeginUpdate(c, m)
      PROVE  LifecycleInv'
  <2> DEFINE e == [NotEditing EXCEPT !.pc = "addVersion", !.manifest = m, !.app = LiveApp]
  <2>1. MadeApp(LiveApp)
    BY <1>2, LiveAppIsLive DEF BeginUpdate, MadeApp
  <2>2. e \in Edit /\ EditOK(e)
    BY <2>1 DEF NotEditing, Edit, EditSteps, PublishSteps, EditOK, MadeApp
  <2>3. QED
    BY <1>2, <2>2, EditReads DEF BeginUpdate
<1>3. ASSUME NEW by \in {"person", "agent"}, BeginPublish(c, by)
      PROVE  LifecycleInv'
  <2>1. PICK n \in 1..app[LiveApp].latest :
          /\ edit' = [edit EXCEPT ![c] = [NotEditing EXCEPT
                          !.pc = "current", !.by = by, !.target = <<LiveApp, n>>]]
          /\ UNCHANGED <<app, version, view, record>>
    BY <1>3 DEF BeginPublish, ReadTarget
  <2> DEFINE v == <<LiveApp, n>>
             e == [NotEditing EXCEPT !.pc = "current", !.by = by, !.target = v]
  <2>2. v \in Saved /\ v \in Versions
    BY <1>3, LiveAppIsLive, LifecycleAssumption DEF BeginPublish, LifecycleInv,
       LifecycleTypeOK, AppRow, Numbers, Saved, Versions
  <2>3. e \in Edit /\ EditOK(e)
    BY <2>2 DEF NotEditing, Edit, EditSteps, PublishSteps, EditOK
  <2>4. QED
    BY <2>1, <2>3, EditReads
<1>4. ASSUME NEW by \in {"person", "agent"}, BeginArchive(c, by)
      PROVE  LifecycleInv'
  <2> DEFINE e == [NotEditing EXCEPT
                     !.pc = IF by = "agent" THEN "archiveGuard" ELSE "archiveRequire",
                     !.by = by, !.app = LiveApp]
  <2>1. LiveApp \in AppIds
    BY <1>4, LiveAppIsLive DEF BeginArchive
  <2>2. e \in Edit /\ EditOK(e)
    BY <2>1 DEF NotEditing, Edit, EditSteps, PublishSteps, ArchiveSteps, EditOK
  <2>3. QED
    BY <1>4, <2>2, EditReads DEF BeginArchive
<1>5. QED
  BY <1>1, <1>2, <1>3, <1>4 DEF EditBegins

\* The version that an app has published was saved, and a person confirmed its parts.
LEMMA PublishedIsKnown ==
    ASSUME LifecycleInv, NEW a \in AppIds \cup {NoApp}, Published(a) # NoVersion
    PROVE  LET v == Published(a) IN
           /\ v \in Saved /\ v[1] = a /\ a \in AppIds /\ app[a].current # 0
           /\ v = <<a, app[a].current>> /\ HasParts(v[1], Manifest(v))
<1>1. a \in AppIds /\ app[a].current # 0 /\ Published(a) = <<a, app[a].current>>
  BY DEF Published
<1>2. app[a].current \in Numbers /\ app[a].current <= app[a].latest
  BY <1>1, LifecycleAssumption DEF LifecycleInv, LifecycleTypeOK, AppRow, AppOK, Numbers
<1>3. <<a, app[a].current>> \in Saved
  BY <1>1, <1>2 DEF Saved, Versions
<1>4. HasParts(a, Manifest(<<a, app[a].current>>))
  BY <1>1 DEF LifecycleInv, CurrentOK, HasParts
<1>5. QED
  BY <1>1, <1>3, <1>4

\* A publish compares, plans its agent, and looks the slug up once more.
LEMMA ComparisonKnown ==
    ASSUME LifecycleInv, NEW c \in Editors, ReadCurrent(c)
    PROVE  LifecycleInv'
<1> DEFINE v == Published(LiveApp)
           old == Manifest(v)
           new == Manifest(edit[c].target)
           e == [edit[c] EXCEPT !.pc = "stored", !.current = v, !.confirmed =
                    {p \in {"set", "conn"} : \/ p = "set" /\ DecisionSetsChanged(old, new)
                                             \/ p = "conn" /\ ConnectionsChanged(old, new)}]
<1>1. edit[c] \in Edit /\ edit[c].pc = "current" /\ edit[c].target \in Saved
  BY DEF LifecycleInv, LifecycleTypeOK, ReadCurrent, Editing, EditOK, PublishSteps
<1>2. v # NoVersion => v \in Saved /\ HasParts(v[1], old)
  BY LiveAppIsLive, PublishedIsKnown
<1>3. v \in Versions \cup {NoVersion}
  BY <1>2 DEF Saved
<1>4. edit' = [edit EXCEPT ![c] = e] /\ UNCHANGED <<app, version, view, record>>
  BY <1>1 DEF ReadCurrent, LifecycleInv, LifecycleTypeOK, Edit
<1>5. e \in Edit
  <2> HIDE DEF v, old, new
  <2>1. QED
    BY <1>1, <1>3 DEF Edit, EditSteps, PublishSteps
<1>6. EditOK(e)
  <2>1. /\ e.pc = "stored" /\ e.target = edit[c].target /\ e.current = v
        /\ "set" \in e.confirmed <=> DecisionSetsChanged(old, new)
        /\ "conn" \in e.confirmed <=> ConnectionsChanged(old, new)
    <3> HIDE DEF v, old, new
    <3>1. QED
      BY <1>1 DEF Edit
  <2> HIDE DEF e, v
  <2>2. Compared(e)
    BY <1>2, <2>1 DEF Compared
  <2>3. QED
    BY <1>1, <2>1, <2>2 DEF EditOK
<1>7. QED
  BY <1>4, <1>5, <1>6, EditReads

LEMMA PlanKnown ==
    ASSUME LifecycleInv, NEW c \in Editors, PlanTaskAgents(c)
    PROVE  LifecycleInv'
<1> DEFINE r == edit[c]
           reaching == AgentOf(r.current)
           Changed(agent) == \/ TaskTemplatesChanged(Manifest(r.current), Manifest(r.target))
                             \/ Rebound(r, reaching, agent)
<1>1. /\ r \in Edit /\ r.pc = "reaching" /\ EditOK(r)
      /\ r.target \in Saved /\ Compared(r)
  BY DEF LifecycleInv, LifecycleTypeOK, PlanTaskAgents, Editing, EditOK, PublishSteps
<1>2. PICK agent \in Planned(r, reaching) :
        edit' = [edit EXCEPT
                ![c].pc = IF r.by = "agent" THEN "guard" ELSE "require",
                ![c].stored = None, ![c].agent = agent,
                ![c].confirmed = @ \cup {p \in {"task"} : Changed(agent)}]
  BY DEF PlanTaskAgents
<1> DEFINE e == [r EXCEPT
                !.pc = IF r.by = "agent" THEN "guard" ELSE "require",
                !.stored = None, !.agent = agent,
                !.confirmed = @ \cup {p \in {"task"} : Changed(agent)}]
<1>3. edit' = [edit EXCEPT ![c] = e] /\ UNCHANGED <<app, version, view, record>>
  BY ZenonT(40), <1>1, <1>2 DEF PlanTaskAgents, LifecycleInv, LifecycleTypeOK, Edit
<1>4. /\ reaching \in TaskAgents \cup {None}
      /\ r.current # NoVersion =>
            /\ r.current \in Saved /\ r.current \in Versions
            /\ reaching # None => HasTask(r.current[1], Manifest(r.current), reaching)
      /\ r.current = NoVersion => Manifest(r.current) = Empty /\ reaching = None
  <2>1. CASE r.current = NoVersion
    BY <2>1 DEF AgentOf, Manifest
  <2>2. CASE r.current # NoVersion
    BY <1>1, <2>2, SavedIds DEF Compared, Saved, LifecycleInv, LifecycleTypeOK, VersionRow,
       VersionOK
  <2>3. QED
    BY <2>1, <2>2
<1>5. /\ agent \in TaskAgents \cup {None}
      /\ Manifest(r.target).task # None <=> agent # None
  BY <1>1, <1>2, <1>4, LifecycleAssumption DEF Planned, Edit
<1> HIDE DEF reaching
<1>6. /\ e.pc \in {"guard", "require"} /\ e.target = r.target /\ e.current = r.current /\ e.agent = agent
      /\ "set" \in e.confirmed <=> "set" \in r.confirmed
      /\ "conn" \in e.confirmed <=> "conn" \in r.confirmed
      /\ Changed(agent) => "task" \in e.confirmed
  <2> HIDE DEF Changed
  <2>1. QED
    BY <1>1 DEF Edit
<1>7. e \in Edit
  <2> DEFINE step == IF r.by = "agent" THEN "guard" ELSE "require"
             confirmed == r.confirmed \cup {p \in {"task"} : Changed(agent)}
  <2>1. step \in EditSteps
    BY DEF EditSteps, PublishSteps
  <2>2. confirmed \in SUBSET {"set", "conn", "task"}
    <3> HIDE DEF Changed
    <3>1. QED
      BY <1>1 DEF Edit
  <2>3. e = [r EXCEPT !.pc = step, !.stored = None, !.agent = agent, !.confirmed = confirmed]
    BY <1>1 DEF Edit
  <2> HIDE DEF step, confirmed, e
  <2>4. QED
    BY <1>1, <1>5, <2>1, <2>2, <2>3 DEF Edit
<1>8. Bound(e)
  <2> HIDE DEF e
  <2>1. ASSUME Manifest(r.target).task # None, "task" \notin e.confirmed
        PROVE  /\ r.current # NoVersion
               /\ HasTask(r.current[1], Manifest(r.target), agent)
    BY <1>6, <2>1, <1>4, <1>5 DEF TaskTemplatesChanged, Rebound, Empty, HasTask
  <2>2. QED
    BY <1>5, <1>6, <2>1 DEF Bound
<1>9. EditOK(e)
  <2> HIDE DEF e
  <2>1. Compared(e)
    BY <1>1, <1>6 DEF Compared
  <2>2. QED
    BY <1>1, <1>6, <1>8, <2>1 DEF EditOK
<1>10. QED
  BY <1>3, <1>7, <1>9, EditReads

\* The steps that only move on, or look the slug's app up once more.
LEMMA MovesKnown ==
    ASSUME LifecycleInv, NEW c \in Editors,
           \/ ReadStored(c) \/ Guarded(c) \/ RequireApp(c)
           \/ ArchiveGuarded(c) \/ ArchiveRequire(c) \/ EditFails(c)
    PROVE  LifecycleInv'
<1> DEFINE r == edit[c]
<1>1. r \in Edit /\ EditOK(r) /\ edit \in [Editors -> Edit]
  BY DEF LifecycleInv, LifecycleTypeOK
<1>2. CASE ReadStored(c)
  <2> DEFINE e == [r EXCEPT !.pc = "reaching", !.stored = AgentOf(r.target)]
  <2>1. edit' = [edit EXCEPT ![c] = e]
    BY <1>1, <1>2 DEF ReadStored, Edit
  <2>2. r.pc = "stored" /\ r.target \in Saved
    BY <1>1, <1>2 DEF ReadStored, Editing, EditOK, PublishSteps
  <2>3. AgentOf(r.target) \in TaskAgents \cup {None}
    BY <2>2, SavedIds DEF LifecycleInv, LifecycleTypeOK, VersionRow
  <2>4. e \in Edit
    BY <1>1, <2>3 DEF Edit, EditSteps, PublishSteps
  <2>5. Compared(r)
    BY <1>1, <2>2 DEF EditOK, PublishSteps
  <2>6. EditOK(e)
    BY <1>1, <2>2, <2>5 DEF Edit, EditOK, Compared
  <2>7. QED
    BY <1>2, <2>1, <2>4, <2>6, EditReads DEF ReadStored
<1>3. CASE Guarded(c)
  <2> DEFINE e == [r EXCEPT !.pc = "require"]
  <2>1. edit' = [edit EXCEPT ![c] = e]
    BY <1>1, <1>3 DEF Guarded, EditOn, Edit
  <2>2. e \in Edit
    BY <1>1 DEF Edit, EditSteps, PublishSteps
  <2>3. r.pc = "guard" /\ r.target \in Saved /\ Compared(r) /\ Bound(r)
    BY <1>1, <1>3 DEF Guarded, Editing, EditOK, PublishSteps
  <2>4. EditOK(e)
    BY <1>1, <2>3 DEF Edit, EditOK, Compared, Bound
  <2>5. QED
    BY <1>3, <2>1, <2>2, <2>4, EditReads DEF Guarded
<1>4. CASE RequireApp(c)
  <2> DEFINE e == [r EXCEPT !.pc = "setCurrent", !.app = LiveApp]
  <2>1. edit' = [edit EXCEPT ![c] = e]
    BY <1>1, <1>4 DEF RequireApp, Edit
  <2>2. LiveApp \in AppIds /\ MadeApp(LiveApp)
    BY <1>4, LiveAppIsLive DEF RequireApp, MadeApp
  <2>3. e \in Edit
    BY <1>1, <2>2 DEF Edit, EditSteps, PublishSteps
  <2>4. r.pc = "require" /\ r.target \in Saved /\ Compared(r) /\ Bound(r)
    BY <1>1, <1>4 DEF RequireApp, Editing, EditOK, PublishSteps
  <2>5. EditOK(e)
    BY <1>1, <2>2, <2>4 DEF Edit, EditOK, Compared, Bound
  <2>6. QED
    BY <1>4, <2>1, <2>3, <2>5, EditReads DEF RequireApp
<1>5. CASE ArchiveGuarded(c)
  <2> DEFINE e == [r EXCEPT !.pc = "archiveRequire"]
  <2>1. edit' = [edit EXCEPT ![c] = e]
    BY <1>1, <1>5 DEF ArchiveGuarded, EditOn, Edit
  <2>2. e \in Edit /\ EditOK(e)
    BY <1>1, <1>5 DEF ArchiveGuarded, Editing, Edit, EditSteps, ArchiveSteps, PublishSteps, EditOK
  <2>3. QED
    BY <1>5, <2>1, <2>2, EditReads DEF ArchiveGuarded
<1>6. CASE ArchiveRequire(c)
  <2> DEFINE e == [r EXCEPT !.pc = "setStatus", !.app = LiveApp]
  <2>1. edit' = [edit EXCEPT ![c] = e]
    BY <1>1, <1>6 DEF ArchiveRequire, Edit
  <2>2. LiveApp \in AppIds /\ MadeApp(LiveApp)
    BY <1>6, LiveAppIsLive DEF ArchiveRequire, MadeApp
  <2>3. e \in Edit /\ EditOK(e)
    BY ZenonT(40), <1>1, <1>6, <2>2 DEF ArchiveRequire, Editing, Edit, EditSteps, ArchiveSteps, PublishSteps, EditOK
  <2>4. QED
    BY <1>6, <2>1, <2>3, EditReads DEF ArchiveRequire
<1>7. CASE EditFails(c)
  BY <1>7, NotEditingIsKnown, EditReads DEF EditFails, EditEnds
<1>8. QED
  BY <1>2, <1>3, <1>4, <1>5, <1>6, <1>7

\* A new version, of a new app or of one that was made before.
LEMMA SavesKnown ==
    ASSUME LifecycleInv, NEW c \in Editors, NEW a \in AppIds, NEW n \in Numbers,
           n = app[a].latest + 1, NEW row \in AppRow,
           row.status # None, row.latest = n, row.current = app[a].current,
           row.status = "published" => app[a].status = "published",
           app' = [app EXCEPT ![a] = row],
           version' = [version EXCEPT ![a][n] = [manifest |-> edit[c].manifest, agent |-> None]],
           EditEnds(c), UNCHANGED <<view, record>>
    PROVE  LifecycleInv'
<1> USE DEF LifecycleInv
<1>1. /\ app \in [AppIds -> AppRow] /\ app'[a] = row
      /\ \A b \in AppIds : b # a => app'[b] = app[b]
      /\ app[a].latest \in Nat /\ app[a].current \in Nat /\ n \in Nat
      /\ \A b \in AppIds : app[b].latest \in Nat /\ app'[b].latest \in Nat
                             /\ app[b].latest <= app'[b].latest
  BY LifecycleAssumption DEF LifecycleTypeOK, AppRow
<1>2. /\ version \in [AppIds -> [Numbers -> VersionRow]]
      /\ version'[a][n].agent = None
      /\ \A b \in AppIds, k \in Numbers : <<b, k>> # <<a, n>> => version'[b][k] = version[b][k]
  BY DEF LifecycleTypeOK
<1>3. LifecycleTypeOK'
  BY <1>2, <1>1, NotEditingIsKnown DEF LifecycleTypeOK, Edit, VersionRow, EditEnds
<1>4. \A v \in Versions : v # <<a, n>> => Manifest(v)' = Manifest(v) /\ AgentOf(v)' = AgentOf(v)
  BY <1>2, VersionIds DEF Manifest, AgentOf
<1>5. AgentOf(<<a, n>>)' = None
  BY <1>2 DEF AgentOf
<1>6. \A v \in Saved : v \in Versions /\ v # <<a, n>> /\ v[1] \in AppIds
  BY <1>1, SavedIds
<1>7. Grows
  BY SavedIds, VersionIds, <1>1, <1>4, <1>6 DEF Saved, Grows, MadeApp
<1>8. ASSUME NEW b \in AppIds
      PROVE  AppOK(b)' /\ CurrentOK(b)'
  <2> DEFINE v == <<b, app[b].current>>
  <2>1. AppOK(b) /\ CurrentOK(b)
    OBVIOUS
  <2>2. app'[b].current = app[b].current
    BY <1>1
  <2>3. ASSUME app[b].current # 0
        PROVE  Manifest(v)' = Manifest(v) /\ AgentOf(v)' = AgentOf(v)
    BY <1>1, <2>1, <2>3, LifecycleAssumption, <1>4, <1>6 DEF AppRow, AppOK, Numbers, Saved,
       Versions
  <2>4. CurrentOK(b)'
    BY <2>1, <2>2, <2>3 DEF CurrentOK, HasParts
  <2>5. AppOK(b)'
    BY <1>1, <2>1 DEF AppOK
  <2>6. QED
    BY <2>4, <2>5
<1>9. ASSUME NEW v \in Versions
      PROVE  VersionOK(v)'
  BY <1>4, <1>5 DEF VersionOK, HasTask
<1>10. QED
  BY <1>3, <1>7, <1>8, <1>9, EditWrites DEF LifecycleTypeOK

LEMMA InsertKnown ==
    ASSUME LifecycleInv, NEW c \in Editors, InsertApp(c)
    PROVE  LifecycleInv'
<1>1. PICK a \in AppIds :
        /\ MaySave /\ app[a].status = None
        /\ app' = [app EXCEPT ![a] = [status |-> "draft", current |-> 0, latest |-> 1]]
        /\ version' = [version EXCEPT ![a][1] = [manifest |-> edit[c].manifest, agent |-> None]]
        /\ EditEnds(c) /\ UNCHANGED <<view, record>>
  BY DEF InsertApp
<1>2. app[a].latest = 0 /\ app[a].current = 0
  BY <1>1, LifecycleAssumption DEF LifecycleInv, LifecycleTypeOK, AppRow, AppOK
<1>3. 1 \in Numbers /\ 1 = app[a].latest + 1
  BY <1>1, <1>2, RoomForOneMore DEF LifecycleInv
<1>4. [status |-> "draft", current |-> 0, latest |-> 1] \in AppRow
  BY <1>3, LifecycleAssumption DEF AppRow, Numbers
<1>5. QED
  BY <1>1, <1>2, <1>3, <1>4, SavesKnown DEF None

LEMMA AddKnown ==
    ASSUME LifecycleInv, NEW c \in Editors, AddVersion(c)
    PROVE  LifecycleInv'
<1> DEFINE a == edit[c].app
           n == app[a].latest + 1
           row == [app[a] EXCEPT !.latest = n]
<1>1. MadeApp(a)
  BY DEF LifecycleInv, EditOK, AddVersion, Editing
<1>2. a \in AppIds /\ n \in Numbers
  BY <1>1, RoomForOneMore DEF LifecycleInv, AddVersion, MadeApp
<1>3. app[a] \in AppRow /\ app' = [app EXCEPT ![a] = row]
  BY <1>2 DEF LifecycleInv, LifecycleTypeOK, AddVersion
<1>4. row \in AppRow /\ row.status # None /\ row.latest = n /\ row.current = app[a].current
      /\ row.status = app[a].status
  BY <1>1, <1>2, <1>3, LifecycleAssumption DEF AppRow, Numbers, MadeApp
<1>5. /\ version' = [version EXCEPT ![a][n] = [manifest |-> edit[c].manifest, agent |-> None]]
      /\ EditEnds(c) /\ UNCHANGED <<view, record>>
  BY DEF AddVersion
<1> HIDE DEF row, n, a
<1>6. n = app[a].latest + 1
  BY DEF n
<1>7. QED
  BY <1>2, <1>3, <1>4, <1>5, <1>6, SavesKnown

LEMMA StatusKnown ==
    ASSUME LifecycleInv, NEW c \in Editors, SetStatus(c)
    PROVE  LifecycleInv'
<1> USE DEF LifecycleInv
<1> DEFINE a == edit[c].app
<1>1. MadeApp(a) /\ a \in AppIds
  BY DEF EditOK, SetStatus, Editing, MadeApp
<1>2. /\ app \in [AppIds -> AppRow] /\ app' \in [AppIds -> AppRow]
      /\ app'[a] = [app[a] EXCEPT !.status = "archived"]
      /\ \A b \in AppIds : b # a => app'[b] = app[b]
      /\ \A b \in AppIds : app'[b].latest = app[b].latest /\ app'[b].current = app[b].current
  BY <1>1 DEF LifecycleTypeOK, AppRow, SetStatus
<1>3. LifecycleTypeOK'
  BY <1>2, NotEditingIsKnown DEF LifecycleTypeOK, SetStatus, EditEnds
<1>4. Grows
  BY <1>2, SavedIds DEF Grows, Saved, Manifest, MadeApp, SetStatus, AppRow, None
<1>5. \A b \in AppIds : AppOK(b)' /\ CurrentOK(b)'
  <2> SUFFICES ASSUME NEW b \in AppIds
               PROVE  AppOK(b)' /\ CurrentOK(b)'
    OBVIOUS
  <2>1. AppOK(b) /\ CurrentOK(b) /\ UNCHANGED <<version, record>>
    BY DEF SetStatus
  <2>2. CurrentOK(b)'
    BY <1>2, <2>1 DEF CurrentOK, HasParts, Manifest, AgentOf
  <2>3. app'[b].status = "published" \/ app'[b].status = None => app'[b].status = app[b].status
    BY <1>2 DEF AppRow, None
  <2>4. AppOK(b)'
    BY <1>2, <2>1, <2>3 DEF AppOK
  <2>5. QED
    BY <2>2, <2>4
<1>6. \A v \in Versions : VersionOK(v)'
  BY DEF VersionOK, HasTask, Manifest, AgentOf, SetStatus
<1>7. QED
  BY <1>3, <1>4, <1>5, <1>6, EditWrites DEF SetStatus

\* What a publish puts to its person is recorded of the app that it had looked at.
LEMMA ConfirmedItems ==
    ASSUME LifecycleTypeOK, NEW e \in Edit, e.target \in Saved
    PROVE  LET m == Manifest(e.target) IN
           /\ Confirmed(e) \subseteq Items
           /\ "set" \in e.confirmed /\ m.set # None => <<"set", m.set>> \in Confirmed(e)
           /\ "conn" \in e.confirmed /\ m.conn # None => <<"conn", m.conn>> \in Confirmed(e)
           /\ "task" \in e.confirmed /\ m.task # None /\ e.agent # None =>
                 <<"task", m.task, e.agent>> \in Confirmed(e)
           /\ <<"conn", "read-write">> \in Confirmed(e) => <<"conn", "read">> \in Confirmed(e)
<1> DEFINE m == Manifest(e.target)
<1>1. m \in Manifests \cup {Empty} /\ m.conn \in {None, "read", "read-write"}
  BY SavedIds, ManifestConn DEF LifecycleTypeOK, VersionRow, Saved
<1>2. Confirmed(e) = {i \in Items : \/ "set" \in e.confirmed /\ i = <<"set", m.set>>
                                    \/ "conn" \in e.confirmed /\ i[1] = "conn" /\ i[2] \in {"read", m.conn}
                                    \/ "task" \in e.confirmed /\ i = <<"task", m.task, e.agent>>}
  BY DEF Confirmed
<1> HIDE DEF m
<1>3. /\ m.set # None => <<"set", m.set>> \in Items
      /\ m.conn # None => <<"conn", m.conn>> \in Items
      /\ m.task # None /\ e.agent # None => <<"task", m.task, e.agent>> \in Items
      /\ <<"conn", "read">> \in Items
  BY <1>1 DEF Items, Empty, Edit, None
<1>4. <<"conn", "read-write">> \in Confirmed(e) => "conn" \in e.confirmed
  BY <1>2
<1>5. QED
  BY <1>2, <1>3, <1>4 DEF m

\* The app and the number a publish lands on, if that is the app it had looked
\* at: what it did not put to the person, the version that was current had.
LEMMA LandingKnown ==
    ASSUME LifecycleInv, NEW c \in Editors, SetCurrent(c), NEW a, NEW n, NEW m,
           a = edit[c].app, n = edit[c].target[2], m = Manifest(<<a, n>>), a \notin record'.crossed
    PROVE  /\ HeldParts(m) \subseteq record'.confirmed[a]
           /\ m.task # None <=> edit[c].agent # None
           /\ edit[c].agent # None => <<"task", m.task, edit[c].agent>> \in record'.confirmed[a]
<1> DEFINE e == edit[c]
<1>1. /\ e \in Edit /\ e.target \in Saved /\ e.target \in Versions /\ MadeApp(a) /\ a \in AppIds
      /\ Compared(e) /\ Bound(e)
  BY DEF LifecycleInv, LifecycleTypeOK, SetCurrent, Editing, EditOK, PublishSteps, MadeApp, Saved
<1>2. /\ e.target[1] = a
      /\ e.current # NoVersion => e.current[1] = a
      /\ a \notin record.crossed
      /\ record'.confirmed[a] = record.confirmed[a] \cup Confirmed(e)
  <2> DEFINE over == {b \in {a} : \/ e.target[1] # a
                                  \/ e.current # NoVersion /\ e.current[1] # a}
  <2>1. record' = [record EXCEPT !.confirmed[e.target[1]] = @ \cup Confirmed(e), !.crossed = @ \cup over]
    BY DEF SetCurrent
  <2>2. record'.crossed = record.crossed \cup over
    BY <2>1 DEF LifecycleInv, LifecycleTypeOK
  <2>3. e.target[1] = a
    BY <2>2
  <2>4. record'.confirmed[a] = record.confirmed[a] \cup Confirmed(e)
    BY <1>1, <2>1, <2>3 DEF LifecycleInv, LifecycleTypeOK
  <2>5. QED
    BY <2>2, <2>3, <2>4
<1>3. m = Manifest(e.target)
  BY <1>1, <1>2, VersionIds
<1> DEFINE old == Manifest(e.current)
<1>4. /\ old.conn \in {None, "read", "read-write"} /\ m.conn \in {None, "read", "read-write"}
      /\ e.current = NoVersion => old = Empty
  BY <1>1, <1>3, ManifestConn DEF LifecycleInv, Edit, Manifest
<1>5. e.current # NoVersion => HeldParts(old) \subseteq record.confirmed[a]
  BY <1>1, <1>2 DEF Compared, HasParts
<1> HIDE DEF e, old
<1>6. m.set # None => <<"set", m.set>> \in record'.confirmed[a]
  <2>1. CASE "set" \in e.confirmed
    BY <1>1, <1>2, <1>3, <2>1, ConfirmedItems DEF LifecycleInv
  <2>2. CASE "set" \notin e.confirmed
    BY <1>1, <1>3, <2>2, <1>4, <1>2, <1>5 DEF Compared, DecisionSetsChanged, old, Empty,
       HeldParts
  <2>3. QED
    BY <2>1, <2>2
<1>7. m.conn # None => <<"conn", m.conn>> \in record'.confirmed[a]
  <2>1. CASE "conn" \in e.confirmed
    BY <1>1, <1>2, <1>3, <2>1, ConfirmedItems DEF LifecycleInv
  <2>2. CASE "conn" \notin e.confirmed
    <3>1. ~ConnectionsChanged(old, m)
      BY <1>1, <1>3, <2>2 DEF Compared, old
    <3>2. m.conn # None => e.current # NoVersion /\ old.conn # None
      BY <1>4, <3>1 DEF Empty, ConnectionsChanged
    <3>3. m.conn # None => <<"conn", old.conn>> \in record.confirmed[a]
      BY <1>5, <3>2 DEF HeldParts
    <3>4. <<"conn", "read-write">> \in record.confirmed[a] => <<"conn", "read">> \in record.confirmed[a]
      BY <1>1 DEF LifecycleInv, AppOK
    <3>5. m.conn # None => m.conn = old.conn \/ (m.conn = "read" /\ old.conn = "read-write")
      BY <1>4, <3>1, <3>2 DEF ConnectionsChanged, None
    <3>6. QED
      BY <1>2, <3>3, <3>4, <3>5
  <2>3. QED
    BY <2>1, <2>2
<1>8. m.task # None <=> e.agent # None
  BY <1>1, <1>3 DEF Bound
<1>9. e.agent # None => <<"task", m.task, e.agent>> \in record'.confirmed[a]
  BY <1>1, <1>2, <1>3, <1>8, ConfirmedItems DEF LifecycleInv, Bound, HasTask
<1>10. QED
  BY <1>6, <1>7, <1>8, <1>9 DEF HeldParts, e

LEMMA PublishKnown ==
    ASSUME LifecycleInv, NEW c \in Editors, SetCurrent(c)
    PROVE  LifecycleInv'
<1> DEFINE e == edit[c]
           a == e.app
           n == e.target[2]
           t == e.target[1]
           over == {b \in {a} : \/ t # a
                                \/ e.current # NoVersion /\ e.current[1] # a}
<1>1. /\ e \in Edit /\ e.target \in Saved /\ e.target \in Versions /\ t \in AppIds /\ n \in Numbers
      /\ a \in AppIds /\ app[a].status # None /\ n <= app[a].latest
  <2>1. e \in Edit /\ e.target \in Saved /\ MadeApp(a) /\ n <= app[a].latest
    BY DEF LifecycleInv, LifecycleTypeOK, SetCurrent, Editing, EditOK, PublishSteps
  <2>2. QED
    BY <2>1, VersionIds DEF MadeApp, Saved
<1>2. /\ version' = [version EXCEPT ![a][n].agent = e.agent]
      /\ app' = [app EXCEPT ![a].status = "published", ![a].current = n]
      /\ record' = [record EXCEPT !.confirmed[t] = @ \cup Confirmed(e), !.crossed = @ \cup over]
      /\ EditEnds(c) /\ UNCHANGED view
  BY DEF SetCurrent
<1>3. Confirmed(e) \subseteq Items
      /\ (<<"conn", "read-write">> \in Confirmed(e) => <<"conn", "read">> \in Confirmed(e))
  BY <1>1, ConfirmedItems DEF LifecycleInv
<1>4. /\ LifecycleTypeOK
      /\ over \subseteq {a}
  BY DEF LifecycleInv
<1>5. ASSUME a \notin record'.crossed
      PROVE  LET m == Manifest(<<a, n>>) IN
             /\ HeldParts(m) \subseteq record'.confirmed[a]
             /\ m.task # None <=> e.agent # None
             /\ e.agent # None => <<"task", m.task, e.agent>> \in record'.confirmed[a]
  BY <1>5, LandingKnown
<1> HIDE DEF e, a, n, t, over
<1>6. /\ app \in [AppIds -> AppRow] /\ app' \in [AppIds -> AppRow]
      /\ app'[a].status = "published" /\ app'[a].current = n /\ app'[a].latest = app[a].latest
      /\ \A b \in AppIds : b # a => app'[b] = app[b]
      /\ \A b \in AppIds : app'[b].latest = app[b].latest
  <2> DEFINE r == [app[a] EXCEPT !.status = "published", !.current = n]
  <2>1. app \in [AppIds -> AppRow] /\ app[a] \in AppRow
    BY <1>1, <1>4 DEF LifecycleTypeOK
  <2>2. r \in AppRow /\ r.status = "published" /\ r.current = n /\ r.latest = app[a].latest
    <3>1. n \in 0..MaxVersions
      BY <1>1, LifecycleAssumption DEF Numbers
    <3>2. QED
      BY <2>1, <3>1 DEF AppRow
  <2>3. app' = [app EXCEPT ![a] = r]
    BY <1>1, <1>2, <2>1
  <2> HIDE DEF r
  <2>4. QED
    BY <1>1, <2>1, <2>2, <2>3
<1>7. /\ version' \in [AppIds -> [Numbers -> VersionRow]]
      /\ version'[a][n].agent = e.agent
      /\ \A b \in AppIds, k \in Numbers :
            /\ version'[b][k].manifest = version[b][k].manifest
            /\ <<b, k>> # <<a, n>> => version'[b][k] = version[b][k]
  <2>1. e.agent \in TaskAgents \cup {None}
    BY <1>1 DEF Edit
  <2>2. version[a] \in [Numbers -> VersionRow] /\ version[a][n] \in VersionRow
    BY <1>1, <1>4 DEF LifecycleTypeOK
  <2>3. [version[a][n] EXCEPT !.agent = e.agent] \in VersionRow
    BY <2>1, <2>2 DEF VersionRow
  <2>4. version'[a] = [version[a] EXCEPT ![n] = [version[a][n] EXCEPT !.agent = e.agent]]
    BY <1>1, <1>2, <1>4 DEF LifecycleTypeOK
  <2>5. version' \in [AppIds -> [Numbers -> VersionRow]]
    BY <1>1, <1>2, <1>4, <2>3 DEF LifecycleTypeOK
  <2>6. /\ version'[a][n].agent = e.agent
        /\ version'[a][n].manifest = version[a][n].manifest
    BY <1>1, <1>4, <2>4, <2>2 DEF LifecycleTypeOK, VersionRow
  <2>7. \A b \in AppIds, k \in Numbers : <<b, k>> # <<a, n>> => version'[b][k] = version[b][k]
    BY <1>1, <1>2, <1>4 DEF LifecycleTypeOK
  <2>8. QED
    BY <2>5, <2>6, <2>7
<1>8. /\ record' \in [confirmed: [AppIds -> SUBSET Items], unasked: SUBSET (AppIds \X Items),
                      crossed: SUBSET AppIds]
      /\ record'.confirmed[t] = record.confirmed[t] \cup Confirmed(e)
      /\ \A b \in AppIds : b # t => record'.confirmed[b] = record.confirmed[b]
      /\ record'.crossed = record.crossed \cup over
      /\ record'.unasked = record.unasked
  BY <1>1, <1>2, <1>3, <1>4 DEF LifecycleTypeOK
<1>9. LifecycleTypeOK'
  BY <1>2, <1>4, <1>6, <1>7, <1>8, NotEditingIsKnown DEF LifecycleTypeOK, EditEnds
<1>10. \A v \in Versions : /\ Manifest(v)' = Manifest(v)
                           /\ v # <<a, n>> => AgentOf(v)' = AgentOf(v)
                           /\ v = <<a, n>> => AgentOf(v)' = e.agent
  BY <1>7, VersionIds DEF Manifest, AgentOf
<1>11. Saved' = Saved
  BY <1>6, VersionIds DEF Saved
<1>12. Grows
  BY <1>6, <1>8, <1>10, <1>11 DEF MadeApp, None, Saved, Grows
<1>13. ASSUME NEW v \in Versions
       PROVE  VersionOK(v)'
  BY <1>5, <1>10, VersionIds, <1>8, <1>12 DEF VersionOK, HasTask, LifecycleInv, Grows
<1>14. ASSUME NEW b \in AppIds
       PROVE  AppOK(b)'
  BY <1>3, <1>8, <1>1, LifecycleAssumption, <1>6 DEF LifecycleInv, AppOK, Numbers, None
<1>15. ASSUME NEW b \in AppIds
       PROVE  CurrentOK(b)'
  <2>1. CASE b = a
    BY <1>1, <1>5, <1>6, <1>10, <2>1 DEF Versions, CurrentOK, HasParts
  <2>2. CASE b # a /\ app[b].current # 0
    <3> DEFINE v == <<b, app[b].current>>
    <3>1. app[b].current \in Numbers
      BY <1>6, <2>2, LifecycleAssumption DEF AppRow, Numbers
    <3>2. v \in Versions /\ v # <<a, n>>
      BY <2>2, <3>1 DEF Versions
    <3>3. CurrentOK(b)
      BY DEF LifecycleInv
    <3>4. app'[b].current = app[b].current /\ Manifest(v)' = Manifest(v) /\ AgentOf(v)' = AgentOf(v)
      BY <1>6, <1>10, <2>2, <3>2
    <3>5. HasParts(b, Manifest(v)) => HasParts(b, Manifest(v))'
      BY <1>8, <1>12, <3>4 DEF HasParts, Grows
    <3>6. b \notin record'.crossed => b \notin record.crossed
      BY <1>8
    <3> HIDE DEF v
    <3>7. QED
      BY <2>2, <3>3, <3>4, <3>5, <3>6 DEF CurrentOK, v
  <2>3. CASE b # a /\ app[b].current = 0
    BY <1>6, <2>3 DEF CurrentOK
  <2>4. QED
    BY <2>1, <2>2, <2>3
<1>16. QED
  BY <1>2, <1>8, <1>9, <1>12, <1>13, <1>14, <1>15, EditWrites

LEMMA ViewLooks ==
    ASSUME LifecycleInv, NEW d \in Viewers, NEW w \in View,
           view' = [view EXCEPT ![d] = w], ViewOK(w), UNCHANGED <<app, version, edit, record>>
    PROVE  LifecycleInv'
<1>1. PICK sent : sent = {}
  OBVIOUS
<1>2. sent \in SUBSET (AppIds \X Items) /\ \A s \in sent : s[1] \in record.crossed
  BY <1>1
<1>3. record' = [record EXCEPT !.unasked = @ \cup sent]
  BY <1>1 DEF LifecycleInv, LifecycleTypeOK
<1>4. QED
  BY <1>2, <1>3, ViewReads

\* What a call of a running app sends out is a part of a version that the app
\* had published, or its template with an agent that a person had agreed to.
LEMMA SendKnown ==
    ASSUME LifecycleInv, NEW d \in Viewers, NEW item \in Items, Send(d, item),
           view[d].of[1] \in AppIds,
           view[d].of[1] \notin record.crossed => item \in record.confirmed[view[d].of[1]],
           UNCHANGED <<app, version, edit>>
    PROVE  LifecycleInv'
<1> DEFINE a == view[d].of[1]
           sent == {<<a, item>>} \ ({a} \X record.confirmed[a])
<1>1. sent \in SUBSET (AppIds \X Items) /\ \A s \in sent : s[1] \in record.crossed
  BY DEF LifecycleInv, LifecycleTypeOK
<1>2. record' = [record EXCEPT !.unasked = @ \cup sent] /\ view' = [view EXCEPT ![d] = NotViewing]
  BY DEF Send
<1>3. NotViewing \in View /\ ViewOK(NotViewing)
  BY DEF NotViewing, View, ViewOK
<1> HIDE DEF sent
<1>4. QED
  BY <1>1, <1>2, <1>3, ViewReads

LEMMA ViewKnown ==
    ASSUME LifecycleInv, NEW d \in Viewers, ViewStep(d)
    PROVE  LifecycleInv'
<1> DEFINE w == view[d]
           v == w.of
           m == Manifest(v)
<1>1. w \in View /\ ViewOK(w)
  BY DEF LifecycleInv, LifecycleTypeOK
<1>2. ASSUME w.pc # "idle"
      PROVE  /\ v \in Saved /\ v \in Versions /\ v[1] \in AppIds
             /\ m \in Manifests \cup {Empty} /\ m.conn \in {None, "read", "read-write"}
             /\ v[1] \notin record.crossed => HeldParts(m) \subseteq record.confirmed[v[1]]
  BY <1>1, <1>2, SavedIds, ManifestConn DEF ViewOK, LifecycleInv, LifecycleTypeOK,
     VersionRow, HasParts
<1>3. CASE Open(d)
  <2> DEFINE a == LiveApp
             o == [pc |-> "open", of |-> Opened(a)]
  <2>1. a \in AppIds /\ app[a].status = "published"
    BY <1>3, LiveAppIsLive DEF Open
  <2>2. app[a].current # 0
    BY <2>1 DEF LifecycleInv, AppOK
  <2>3. Published(a) = Opened(a) /\ Published(a) # NoVersion
    BY <2>1, <2>2, VersionIds DEF Published, Opened, NoVersion, NoApp
  <2>4. Opened(a) \in Saved /\ HasParts(Opened(a)[1], Manifest(Opened(a)))
    BY <2>1, <2>3, PublishedIsKnown
  <2> HIDE DEF a
  <2>5. o \in View /\ ViewOK(o)
    BY <2>4 DEF View, ViewOK, Saved
  <2>6. view' = [view EXCEPT ![d] = o] /\ UNCHANGED <<app, version, edit, record>>
    BY <1>3 DEF Open, a
  <2> HIDE DEF o
  <2>7. QED
    BY <2>5, <2>6, ViewLooks
<1>4. CASE RuntimeDecide(d)
  BY <1>4, <1>2, SendKnown DEF RuntimeDecide, Items, Empty, HeldParts
<1>5. CASE RuntimeConnection(d)
  BY <1>5, <1>2, SendKnown DEF RuntimeConnection, Items, HeldParts
<1>6. CASE RuntimeTask(d)
  <2> DEFINE o == [w EXCEPT !.pc = "agents"]
  <2>1. w.pc # "idle" /\ m.task # None
    BY <1>6 DEF RuntimeTask
  <2>2. o \in View /\ o.pc = "agents" /\ o.of = v
    BY <1>1 DEF View
  <2>3. view' = [view EXCEPT ![d] = o] /\ UNCHANGED <<app, version, edit, record>>
    BY <1>6 DEF RuntimeTask, LifecycleInv, LifecycleTypeOK
  <2> HIDE DEF o
  <2>4. ViewOK(o)
    BY <1>1, <2>1, <2>2 DEF ViewOK
  <2>5. QED
    BY <2>2, <2>3, <2>4, ViewLooks
<1>7. CASE RuntimeTaskStart(d)
  <2> DEFINE agent == AgentOf(v)
             item == <<"task", m.task, agent>>
  <2>1. w.pc # "idle" /\ m.task # None /\ agent # None
    BY <1>1, <1>7 DEF RuntimeTaskStart, ViewOK
  <2>2. agent \in TaskAgents
    BY <1>2, <2>1, SavedIds DEF LifecycleInv, LifecycleTypeOK, VersionRow
  <2>3. item \in Items
    BY <1>2, <2>1, <2>2 DEF Items, Empty
  <2>4. v[1] \notin record.crossed => item \in record.confirmed[v[1]]
    BY <1>2, <2>1 DEF LifecycleInv, VersionOK, HasTask
  <2>5. QED
    BY <1>2, <1>7, <2>1, <2>3, <2>4, SendKnown DEF RuntimeTaskStart
<1>8. CASE ViewEnds(d)
  BY <1>8, ViewLooks DEF NotViewing, View, ViewOK, ViewEnds
<1>9. QED
  BY <1>3, <1>4, <1>5, <1>6, <1>7, <1>8 DEF ViewStep

-----------------------------------------------------------------------------
LEMMA LifecycleInitially == LifecycleInit => LifecycleInv
<1> SUFFICES ASSUME LifecycleInit
             PROVE  LifecycleInv
  OBVIOUS
<1> USE DEF LifecycleInit
<1>1. LifecycleTypeOK
  BY LifecycleAssumption, NotEditingIsKnown
     DEF LifecycleTypeOK, AppRow, VersionRow, View, NotViewing
<1>2. \A a \in AppIds : AppOK(a) /\ CurrentOK(a)
  BY DEF AppOK, CurrentOK, None
<1>3. \A v \in Versions : VersionOK(v)
  BY VersionIds DEF VersionOK, AgentOf
<1>4. \A c \in Editors : EditOK(edit[c])
  BY NotEditingIsKnown
<1>5. \A d \in Viewers : ViewOK(view[d])
  BY DEF ViewOK, NotViewing
<1>6. CallsReachWhatWasConfirmed
  BY DEF CallsReachWhatWasConfirmed
<1>7. QED
  BY <1>1, <1>2, <1>3, <1>4, <1>5, <1>6 DEF LifecycleInv

LEMMA LifecycleInductive ==
    LifecycleInv /\ [LifecycleNext]_lifecycleVars => LifecycleInv'
<1> SUFFICES ASSUME LifecycleInv, [LifecycleNext]_lifecycleVars
             PROVE  LifecycleInv'
  OBVIOUS
<1>1. ASSUME NEW c \in Editors, EditBegins(c) \/ EditGoesOn(c)
      PROVE  LifecycleInv'
  BY <1>1, BeginsKnown, ComparisonKnown, PlanKnown, MovesKnown, InsertKnown, AddKnown,
     StatusKnown, PublishKnown DEF EditGoesOn
<1>2. ASSUME NEW d \in Viewers, ViewStep(d)
      PROVE  LifecycleInv'
  BY <1>2, ViewKnown
<1>3. CASE UNCHANGED lifecycleVars
  BY <1>3, ZenonT(40) DEF lifecycleVars, LifecycleInv, LifecycleTypeOK, AppOK, CurrentOK, VersionOK, EditOK,
              ViewOK, Compared, Bound, HasParts, HasTask, MadeApp, Saved, Manifest, AgentOf,
              CallsReachWhatWasConfirmed
<1>4. QED
  BY <1>1, <1>2, <1>3 DEF LifecycleNext

\* A publish, at each of its awaits, still knows what it compared, whatever
\* others publish, archive and save (AppService.makeCurrent, planTaskAgents).
THEOREM LifecycleInvariance == LifecycleSpec => []LifecycleInv
<1>1. QED
  BY LifecycleInitially, LifecycleInductive, PTL DEF LifecycleSpec

LEMMA CurrentIsConfirmed == LifecycleInv => CurrentWasConfirmed
<1> SUFFICES ASSUME LifecycleInv, NEW a \in AppIds \ record.crossed, app[a].status = "published"
             PROVE  Reach(<<a, app[a].current>>) \subseteq record.confirmed[a]
  BY DEF CurrentWasConfirmed
<1> DEFINE v == <<a, app[a].current>>
<1>1. app[a].current \in Numbers
  BY LifecycleAssumption DEF LifecycleInv, LifecycleTypeOK, AppRow, AppOK, Numbers
<1>2. v \in Versions /\ VersionOK(v) /\ CurrentOK(a) /\ v[1] = a
  BY <1>1 DEF Versions, LifecycleInv
<1>3. app[a].current # 0
  BY DEF LifecycleInv, AppOK
<1> HIDE DEF v
<1>4. HeldParts(Manifest(v)) \subseteq record.confirmed[a]
  BY <1>2, <1>3 DEF CurrentOK, HasParts, v
<1>5. Manifest(v).task # None => <<"task", Manifest(v).task, AgentOf(v)>> \in record.confirmed[a]
  BY <1>2, <1>3 DEF CurrentOK, VersionOK, HasTask, v
<1>6. Reach(v) \subseteq record.confirmed[a]
  BY <1>4, <1>5 DEF Reach, HeldParts
<1>7. QED
  BY <1>6 DEF v

\* What the published version lets an app reach, a person once confirmed for
\* that app, unless a publish that had looked at one app landed on another.
THEOREM CurrentConfirmed == LifecycleSpec => []CurrentWasConfirmed
<1>1. QED
  BY LifecycleInvariance, CurrentIsConfirmed, PTL

\* And so was what each call of a running app sends out (open, runtimeDecide,
\* runtimeConnection, runtimeTaskStart).
THEOREM CallsConfirmed == LifecycleSpec => []CallsReachWhatWasConfirmed
<1>1. LifecycleInv => CallsReachWhatWasConfirmed
  BY DEF LifecycleInv
<1>2. QED
  BY <1>1, LifecycleInvariance, PTL

-----------------------------------------------------------------------------
(* AppFrame.  FrameInv is the inductive invariant: it says what every posted*)
(* message is about, in which order the news of a task are posted, and what a*)
(* callback will have heard once it has handled them all.                  *)

HostPosts == [on : BOOLEAN, task : Tasks, by : Listeners]
Replies  == [by : Listeners, ok : BOOLEAN]
News     == [task : Tasks, version : 1..FinalVersion]

FrameTypes ==
    /\ listener \in [Listeners -> Callback]
    /\ toHost \in Seq(HostPosts) /\ toFrame \in Seq(Replies \cup News)
    /\ slots \in SUBSET Tasks
    /\ watches \in [Tasks -> WatchIds \cup {NoWatch}]
    /\ watch \in [WatchIds -> WatchObject]
    /\ task \in [Tasks -> 1..FinalVersion]
    /\ runner \in [live : BOOLEAN, quiet : SUBSET Tasks]

\* What the posted messages are: l's request, the answer to it, news of t.
Posts(i, l)   == i \in DOMAIN toHost /\ toHost[i].on /\ toHost[i].by = l
Answers(i, l) == i \in DOMAIN toFrame /\ toFrame[i] \in Replies /\ toFrame[i].by = l
Tells(i, t)   == i \in DOMAIN toFrame /\ toFrame[i] \in News /\ toFrame[i].task = t

\* A callback's request is under way once, before its answer.
CallsKnown ==
    /\ \A l \in Listeners : listener[l].member => listener[l].call # "unused" /\ listener[l].task \in Tasks
    /\ \A i \in DOMAIN toHost, l \in Listeners : Posts(i, l) =>
         /\ toHost[i].task = listener[l].task /\ listener[l].call # "unused"
         /\ listener[l].member => listener[l].call = "pending"
         /\ \A j \in DOMAIN toHost : Posts(j, l) => j = i
         /\ \A j \in DOMAIN toFrame : ~Answers(j, l)
    /\ \A i \in DOMAIN toFrame, l \in Listeners : Answers(i, l) => listener[l].call # "unused"

\* The callbacks there are when an unwatch is under way ask after it.
UnwatchFirst ==
    \A i \in DOMAIN toHost, l \in Listeners :
        ~toHost[i].on /\ listener[l].member /\ listener[l].task = toHost[i].task
        => \E j \in DOMAIN toHost : i < j /\ Posts(j, l)

WatchesKnown ==
    /\ \A t \in Tasks : watches[t] # NoWatch =>
         watch[watches[t]].task = t /\ watch[watches[t]].poll <= task[t]
    /\ \A w \in WatchIds : watch[w].poll # NoPoll => watch[w].task \in Tasks

\* No older than v is what the watch of t may still post; no newer, what t is.
NoNewer(v, t) ==
    /\ v <= task[t]
    /\ watches[t] # NoWatch /\ watch[watches[t]].poll > Unread => v <= watch[watches[t]].poll

NewsInOrder ==
    /\ \A i \in DOMAIN toFrame, t \in Tasks : Tells(i, t) =>
         /\ NoNewer(toFrame[i].version, t)
         /\ \A j \in DOMAIN toFrame : Tells(j, t) /\ i < j => toFrame[i].version <= toFrame[j].version
         /\ \A l \in Listeners : listener[l].task = t => listener[l].heard <= toFrame[i].version
    /\ \A l \in Listeners, t \in Tasks : listener[l].task = t => NoNewer(listener[l].heard, t)

\* What callback l has heard once it has heard all that is posted.
WillHear(l, v) ==
    \/ v = listener[l].heard /\ \A i \in DOMAIN toFrame : ~Tells(i, listener[l].task)
    \/ \E i \in DOMAIN toFrame : /\ Tells(i, listener[l].task) /\ toFrame[i].version = v
                                 /\ \A j \in DOMAIN toFrame : Tells(j, listener[l].task) => j <= i
Granted(l) ==
    /\ listener[l].member
    /\ listener[l].call = "settled" \/ \E i \in DOMAIN toFrame : Answers(i, l) /\ toFrame[i].ok

\* The watch of l's task has posted last what l will have heard; where it has ended by
\* itself, that is the final version.
CaughtUp(l, t) ==
    IF watches[t] = NoWatch THEN t \in runner.quiet \/ WillHear(l, FinalVersion)
    ELSE watch[watches[t]].last = Unread \/ WillHear(l, watch[watches[t]].last)
NewsReaches == \A l \in Listeners : Granted(l) => CaughtUp(l, listener[l].task)

FrameInv ==
    /\ FrameTypes /\ CallsKnown /\ UnwatchFirst /\ WatchesKnown
    /\ NewsInOrder /\ NewsReaches /\ SlotsAreWatches

-----------------------------------------------------------------------------
(* The messages posted                                                     *)

LEMMA KindsApart ==
    \A m : /\ m \in Replies => m \notin News /\ "by" \in DOMAIN m /\ "version" \notin DOMAIN m
           /\ m \in News => m \notin Replies /\ "version" \in DOMAIN m /\ "by" \notin DOMAIN m
BY DEF Replies, News

LEMMA TakesFirst ==
    ASSUME NEW S, NEW s \in Seq(S), s # <<>>
    PROVE  /\ Tail(s) \in Seq(S) /\ Head(s) \in S
           /\ 1 \in DOMAIN s /\ s[1] = Head(s)
           /\ \A i : i \in DOMAIN Tail(s) <=> i \in Nat \ {0} /\ i + 1 \in DOMAIN s
           /\ \A i \in DOMAIN Tail(s) : Tail(s)[i] = s[i + 1]
           /\ \A i \in DOMAIN s : i \in Nat \ {0} /\ (i # 1 => i - 1 \in DOMAIN Tail(s))
OBVIOUS

LEMMA PutsLast ==
    ASSUME NEW S, NEW s \in Seq(S), NEW m \in S
    PROVE  /\ Append(s, m) \in Seq(S)
           /\ \E n \in DOMAIN Append(s, m) :
                /\ Append(s, m)[n] = m
                /\ \A i \in DOMAIN Append(s, m) : i = n \/ i \in DOMAIN s
                /\ \A i \in DOMAIN s : i \in Nat /\ n \in Nat /\ i < n
           /\ \A i \in DOMAIN s : i \in DOMAIN Append(s, m) /\ Append(s, m)[i] = s[i]
<1>1. Len(s) + 1 \in DOMAIN Append(s, m) /\ Append(s, m)[Len(s) + 1] = m
  OBVIOUS
<1>2. QED
  BY <1>1

\* A message more to the frame, and the first one handled.
FrameGains(m) ==
    /\ toFrame' \in Seq(Replies \cup News)
    /\ \E n \in DOMAIN toFrame' :
         /\ toFrame'[n] = m
         /\ \A i \in DOMAIN toFrame' : i = n \/ i \in DOMAIN toFrame
         /\ \A i \in DOMAIN toFrame : i \in Nat /\ n \in Nat /\ i < n
    /\ \A i \in DOMAIN toFrame : i \in DOMAIN toFrame' /\ toFrame'[i] = toFrame[i]

FrameHandles ==
    /\ toFrame' \in Seq(Replies \cup News) /\ Head(toFrame) \in Replies \cup News
    /\ 1 \in DOMAIN toFrame /\ toFrame[1] = Head(toFrame)
    /\ \A i \in DOMAIN toFrame' : /\ i \in Nat \ {0} /\ i + 1 \in DOMAIN toFrame
                                  /\ toFrame'[i] = toFrame[i + 1]
    /\ \A i \in DOMAIN toFrame : i \in Nat \ {0} /\ (i # 1 => i - 1 \in DOMAIN toFrame')

HostGains(m) ==
    /\ toHost' \in Seq(HostPosts)
    /\ \E n \in DOMAIN toHost' :
         /\ toHost'[n] = m
         /\ \A i \in DOMAIN toHost' : i = n \/ i \in DOMAIN toHost
         /\ \A i \in DOMAIN toHost : i \in Nat /\ n \in Nat /\ i < n
    /\ \A i \in DOMAIN toHost : i \in DOMAIN toHost' /\ toHost'[i] = toHost[i]

HostHandles ==
    /\ toHost' \in Seq(HostPosts) /\ Head(toHost) \in HostPosts
    /\ 1 \in DOMAIN toHost /\ toHost[1] = Head(toHost)
    /\ \A i \in DOMAIN toHost' : /\ i \in Nat \ {0} /\ i + 1 \in DOMAIN toHost
                                 /\ toHost'[i] = toHost[i + 1]
    /\ \A i \in DOMAIN toHost : i \in Nat \ {0} /\ (i # 1 => i - 1 \in DOMAIN toHost')

LEMMA MessagesMove ==
    ASSUME FrameTypes
    PROVE  /\ \A m \in Replies \cup News : toFrame' = Append(toFrame, m) => FrameGains(m)
           /\ toFrame # <<>> /\ toFrame' = Tail(toFrame) => FrameHandles
           /\ \A m \in HostPosts : toHost' = Append(toHost, m) => HostGains(m)
           /\ toHost # <<>> /\ toHost' = Tail(toHost) => HostHandles
<1>1. toFrame \in Seq(Replies \cup News) /\ toHost \in Seq(HostPosts)
  BY DEF FrameTypes
<1>2. ASSUME NEW m \in Replies \cup News, toFrame' = Append(toFrame, m) PROVE FrameGains(m)
  BY <1>1, <1>2, PutsLast DEF FrameGains
<1>3. ASSUME toFrame # <<>>, toFrame' = Tail(toFrame) PROVE FrameHandles
  BY <1>1, <1>3, TakesFirst DEF FrameHandles
<1>4. ASSUME NEW m \in HostPosts, toHost' = Append(toHost, m) PROVE HostGains(m)
  BY SMTT(20), <1>1, <1>4, PutsLast DEF HostGains
<1>5. ASSUME toHost # <<>>, toHost' = Tail(toHost) PROVE HostHandles
  BY <1>1, <1>5, TakesFirst DEF HostHandles
<1>6. QED
  BY <1>2, <1>3, <1>4, <1>5

\* What a callback will have heard, as messages are posted to it and handled.
LEMMA WillHearTheNewest ==
    ASSUME NEW m \in News, FrameGains(m), NEW l \in Listeners, listener'[l].task = m.task
    PROVE  WillHear(l, m.version)'
BY DEF FrameGains, Tells, WillHear

LEMMA WillHearBeside ==
    ASSUME NEW m, FrameGains(m), NEW l \in Listeners, listener'[l].task = listener[l].task,
           listener'[l].heard = listener[l].heard, m \in News => m.task # listener[l].task,
           NEW v, WillHear(l, v)
    PROVE  WillHear(l, v)'
<1> DEFINE t == listener[l].task
<1>1. /\ \A i \in DOMAIN toFrame : /\ i \in DOMAIN toFrame' /\ toFrame'[i] = toFrame[i]
                                   /\ Tells(i, t)' <=> Tells(i, t)
      /\ \A i \in DOMAIN toFrame' : i \in DOMAIN toFrame \/ ~Tells(i, t)'
  BY DEF FrameGains, Tells
<1>2. QED
  BY <1>1 DEF WillHear

LEMMA WillHearOn ==
    ASSUME FrameHandles, NEW l \in Listeners, listener'[l].task = listener[l].task,
           IF Tells(1, listener[l].task) THEN listener'[l].heard = Head(toFrame).version
                                         ELSE listener'[l].heard = listener[l].heard,
           NEW v, WillHear(l, v)
    PROVE  WillHear(l, v)'
<1> DEFINE t == listener[l].task
<1>1. /\ \A i \in DOMAIN toFrame' : /\ i \in Nat \ {0} /\ i + 1 \in DOMAIN toFrame
                                    /\ toFrame'[i] = toFrame[i + 1] /\ (Tells(i, t)' <=> Tells(i + 1, t))
      /\ \A i \in DOMAIN toFrame : i \in Nat \ {0} /\ (i # 1 => i - 1 \in DOMAIN toFrame')
      /\ toFrame[1] = Head(toFrame) /\ 1 \in DOMAIN toFrame
  BY DEF FrameHandles, Tells
<1>2. CASE \A i \in DOMAIN toFrame : ~Tells(i, t)
  BY <1>2, <1>1 DEF WillHear
<1>3. CASE \E i \in DOMAIN toFrame : Tells(i, t)
  BY <1>3, <1>1 DEF WillHear
<1>4. QED
  BY <1>2, <1>3

LEMMA WillHearStays ==
    ASSUME toFrame' = toFrame, NEW l \in Listeners, listener'[l].task = listener[l].task,
           listener'[l].heard = listener[l].heard, NEW v, WillHear(l, v)
    PROVE  WillHear(l, v)'
BY DEF WillHear, Tells

-----------------------------------------------------------------------------
(* The frame                                                               *)

\* What a step has left alone of the messages.
LEMMA MessagesStay ==
    /\ toHost' = toHost => \A i, l : Posts(i, l)' <=> Posts(i, l)
    /\ toFrame' = toFrame => \A i, x : (Answers(i, x)' <=> Answers(i, x)) /\ (Tells(i, x)' <=> Tells(i, x))
BY DEF Posts, Answers, Tells

LEMMA WatchCallKeeps == ASSUME NEW l \in Listeners, NEW t \in Tasks, FrameInv, WatchCall(l, t) PROVE FrameInv'
<1> DEFINE m == [on |-> TRUE, task |-> t, by |-> l]
           c == [task |-> t, member |-> TRUE, call |-> "pending", heard |-> 0]
<1>1. /\ UNCHANGED <<toFrame, slots, watches, watch, task, runner>>
      /\ listener' = [listener EXCEPT ![l] = c] /\ listener \in [Listeners -> Callback]
      /\ listener[l].call = "unused" /\ toHost' = Append(toHost, m) /\ FrameTypes
      /\ FinalVersion \in Nat
  BY FrameAssumption DEF WatchCall, ToHost, FrameInv, FrameTypes
<1>2. c \in Callback /\ m \in HostPosts
  BY <1>1 DEF Callback, HostPosts
<1>3. HostGains(m)
  BY <1>1, <1>2, MessagesMove
<1>4. /\ listener' \in [Listeners -> Callback] /\ \A k \in Listeners \ {l} : listener'[k] = listener[k]
      /\ listener'[l].task = t /\ listener'[l].member /\ listener'[l].call = "pending" /\ listener'[l].heard = 0
  BY <1>1, <1>2
<1>5. PICK n \in DOMAIN toHost' :
        /\ toHost'[n] = m
        /\ \A i \in DOMAIN toHost' : i = n \/ i \in DOMAIN toHost
        /\ \A i \in DOMAIN toHost : i \in Nat /\ n \in Nat /\ i < n
  BY <1>3 DEF HostGains
<1>6. \A i \in DOMAIN toHost : i \in DOMAIN toHost' /\ toHost'[i] = toHost[i]
  BY <1>3 DEF HostGains
<1>7. /\ \A i \in DOMAIN toHost, k \in Listeners : Posts(i, k)' <=> Posts(i, k)
      /\ \A k \in Listeners : Posts(n, k)' <=> k = l
      /\ \A i, x : (Answers(i, x)' <=> Answers(i, x)) /\ (Tells(i, x)' <=> Tells(i, x))
      /\ n \notin DOMAIN toHost
  BY <1>1, <1>5, <1>6 DEF Posts, Answers, Tells
<1>8. /\ \A i \in DOMAIN toHost : ~Posts(i, l)
      /\ \A i \in DOMAIN toFrame : ~Answers(i, l)
  BY <1>1 DEF FrameInv, CallsKnown
<1> HIDE DEF m, c
<1>9. FrameTypes'
  BY <1>1, <1>3, <1>4 DEF FrameTypes, HostGains
<1>10. CallsKnown'
  <2>1. \A k \in Listeners : listener'[k].member => listener'[k].call # "unused" /\ listener'[k].task \in Tasks
    BY <1>4 DEF FrameInv, CallsKnown
  <2>2. ASSUME NEW i \in DOMAIN toHost', NEW k \in Listeners, Posts(i, k)'
        PROVE  /\ toHost'[i].task = listener'[k].task /\ listener'[k].call # "unused"
               /\ listener'[k].member => listener'[k].call = "pending"
               /\ \A j \in DOMAIN toHost' : Posts(j, k)' => j = i
               /\ \A j \in DOMAIN toFrame' : ~Answers(j, k)'
    <3>1. CASE i = n
      BY <1>1, <1>4, <1>5, <1>7, <1>8, <2>2, <3>1 DEF m
    <3>2. CASE i \in DOMAIN toHost
      BY <1>7, <1>8, <2>2, <3>2, <1>1, <1>4, <1>5, <1>6 DEF FrameInv, CallsKnown
    <3>3. QED
      BY <1>5, <3>1, <3>2
  <2>3. ASSUME NEW i \in DOMAIN toFrame', NEW k \in Listeners, Answers(i, k)' PROVE listener'[k].call # "unused"
    BY <1>1, <1>4, <1>7, <1>8, <2>3 DEF FrameInv, CallsKnown
  <2>4. QED
    BY <2>1, <2>2, <2>3 DEF CallsKnown
<1>11. UnwatchFirst'
  BY <1>5, <1>6, <1>7, <1>4 DEF m, FrameInv, UnwatchFirst
<1>12. WatchesKnown' /\ SlotsAreWatches'
  BY <1>1 DEF FrameInv, WatchesKnown, SlotsAreWatches
<1>13. NewsInOrder'
  <2>1. \A v, u : NoNewer(v, u)' <=> NoNewer(v, u)
    BY <1>1 DEF NoNewer
  <2>2. \A u \in Tasks : NoNewer(0, u)
    BY <1>1 DEF NoNewer, FrameTypes, Unread, WatchObject
  <2>3. \A i \in DOMAIN toFrame, u \in Tasks : Tells(i, u) => 0 <= toFrame[i].version
    BY DEF Tells, News
  <2>4. QED
    BY <1>1, <1>4, <1>7, <2>1, <2>2, <2>3 DEF FrameInv, NewsInOrder
<1>14. NewsReaches'
  BY <1>1, <1>4, <1>7, <1>8, WillHearStays DEF FrameInv, NewsReaches, Granted, CaughtUp
<1>15. QED
  BY <1>9, <1>10, <1>11, <1>12, <1>13, <1>14 DEF FrameInv

LEMMA LeavingKeeps ==
    ASSUME NEW l \in Listeners, FrameInv,
           listener' \in [Listeners -> Callback], \A k \in Listeners \ {l} : listener'[k] = listener[k],
           listener'[l].task = listener[l].task, listener'[l].heard = listener[l].heard,
           ~listener'[l].member, listener'[l].call # "unused",
           \/ toHost' = toHost
           \/ \E m \in HostPosts : /\ ~m.on /\ HostGains(m)
                                  /\ \A k \in Listeners : listener'[k].member => listener'[k].task # m.task,
           UNCHANGED <<toFrame, slots, watches, watch, task, runner>>
    PROVE  FrameInv'
<1>1. toHost' \in Seq(HostPosts)
  BY DEF HostGains, FrameInv, FrameTypes
<1>2. /\ \A i \in DOMAIN toHost : i \in DOMAIN toHost' /\ toHost'[i] = toHost[i]
      /\ \A i \in DOMAIN toHost' : \/ i \in DOMAIN toHost
                                  \/ /\ ~toHost'[i].on
                                     /\ \A k \in Listeners : listener'[k].member => listener'[k].task # toHost'[i].task
  BY DEF HostGains
<1>3. /\ \A i \in DOMAIN toHost, k \in Listeners : Posts(i, k)' <=> Posts(i, k)
      /\ \A i \in DOMAIN toHost', k \in Listeners : Posts(i, k)' => i \in DOMAIN toHost
      /\ \A i, x : (Answers(i, x)' <=> Answers(i, x)) /\ (Tells(i, x)' <=> Tells(i, x))
  BY <1>2 DEF Posts, Answers, Tells
<1>4. \A k \in Listeners : /\ listener'[k].task = listener[k].task /\ listener'[k].heard = listener[k].heard
                           /\ listener'[k].member => k # l /\ listener'[k] = listener[k]
                           /\ listener[k].call # "unused" => listener'[k].call # "unused"
  OBVIOUS
<1>5. FrameTypes'
  BY <1>1 DEF FrameInv, FrameTypes
<1>6. CallsKnown'
  BY <1>4, <1>3, <1>2 DEF FrameInv, CallsKnown
<1>7. UnwatchFirst'
  BY <1>2, <1>4, <1>3 DEF FrameInv, UnwatchFirst
<1>8. WatchesKnown' /\ SlotsAreWatches'
  BY DEF FrameInv, WatchesKnown, SlotsAreWatches
<1>9. NewsInOrder'
  BY <1>3, <1>4 DEF NoNewer, FrameInv, NewsInOrder
<1>10. NewsReaches'
  BY <1>3, <1>4, WillHearStays DEF Granted, FrameInv, NewsReaches, CaughtUp
<1>11. QED
  BY <1>5, <1>6, <1>7, <1>8, <1>9, <1>10 DEF FrameInv

LEMMA StopCallbackKeeps == ASSUME NEW l \in Listeners, FrameInv, StopCallback(l) PROVE FrameInv'
<1> DEFINE t == listener[l].task
           m == [on |-> FALSE, task |-> t, by |-> l]
<1>1. /\ listener' = [listener EXCEPT ![l].member = FALSE] /\ listener \in [Listeners -> Callback]
      /\ listener[l].member /\ listener[l].call # "unused" /\ t \in Tasks /\ FrameTypes
      /\ toHost' = toHost \/ (toHost' = Append(toHost, m) /\ TellsHost(l))
      /\ UNCHANGED <<toFrame, slots, watches, watch, task, runner>>
  BY DEF StopCallback, ToHost, FrameInv, FrameTypes, CallsKnown
<1>2. /\ listener' \in [Listeners -> Callback] /\ \A k \in Listeners \ {l} : listener'[k] = listener[k]
      /\ listener'[l].task = t /\ listener'[l].heard = listener[l].heard
      /\ ~listener'[l].member /\ listener'[l].call # "unused"
  BY <1>1 DEF Callback
<1>3. ASSUME TellsHost(l) PROVE \A k \in Listeners : listener'[k].member => listener'[k].task # t
  BY <1>2, <1>3 DEF TellsHost, Members
<1>4. m \in HostPosts /\ ~m.on /\ m.task = t
  BY <1>1 DEF HostPosts
<1>5. toHost' = toHost \/ (HostGains(m) /\ TellsHost(l))
  BY <1>1, <1>4, MessagesMove
<1> HIDE DEF m
<1>6. \/ toHost' = toHost
      \/ \E x \in HostPosts : /\ ~x.on /\ HostGains(x)
                             /\ \A k \in Listeners : listener'[k].member => listener'[k].task # x.task
  BY <1>3, <1>4, <1>5
<1>7. QED
  BY <1>1, <1>2, <1>6, LeavingKeeps

LEMMA CallTimesOutKeeps == ASSUME NEW l \in Listeners, FrameInv, CallTimesOut(l) PROVE FrameInv'
<1>1. /\ listener' = [listener EXCEPT ![l].call = "settled", ![l].member = FALSE]
      /\ listener \in [Listeners -> Callback]
      /\ UNCHANGED <<toHost, toFrame, slots, watches, watch, task, runner>>
  BY DEF CallTimesOut, Rejected, FrameInv, FrameTypes
<1>2. /\ listener' \in [Listeners -> Callback] /\ \A k \in Listeners \ {l} : listener'[k] = listener[k]
      /\ listener'[l].task = listener[l].task /\ listener'[l].heard = listener[l].heard
      /\ ~listener'[l].member /\ listener'[l].call # "unused"
  BY <1>1 DEF Callback
<1>3. QED
  BY <1>1, <1>2, LeavingKeeps

-----------------------------------------------------------------------------
(* The watcher                                                             *)

\* Steps that leave the callbacks and the messages alone.
LEMMA CallsStay ==
    ASSUME CallsKnown, UnwatchFirst, UNCHANGED <<listener, toHost, toFrame>>
    PROVE  CallsKnown' /\ UnwatchFirst'
BY DEF CallsKnown, UnwatchFirst, Posts, Answers

LEMMA PollingKeeps ==
    ASSUME FrameInv, UNCHANGED <<listener, toHost, toFrame>>,
           FrameTypes', WatchesKnown', SlotsAreWatches',
           \A u \in Tasks, v \in Nat : NoNewer(v, u) => NoNewer(v, u)',
           \A u \in Tasks :
               IF watches'[u] = NoWatch
               THEN u \in runner'.quiet \/ (watches[u] = NoWatch /\ u \notin runner.quiet)
               ELSE watches[u] # NoWatch /\ watch'[watches'[u]].last \in {Unread, watch[watches[u]].last}
    PROVE  FrameInv'
<1>1. CallsKnown' /\ UnwatchFirst'
  BY CallsStay DEF FrameInv
<1>2. \A i, x : (Answers(i, x)' <=> Answers(i, x)) /\ (Tells(i, x)' <=> Tells(i, x))
  BY MessagesStay
<1>3. NewsInOrder'
  BY FrameAssumption, <1>2 DEF FrameInv, FrameTypes, Tells, News, Callback, NewsInOrder
<1>4. NewsReaches'
  BY <1>2, WillHearStays DEF FrameInv, NewsReaches, Granted, CallsKnown, CaughtUp
<1>5. QED
  BY <1>1, <1>3, <1>4 DEF FrameInv

LEMMA TaskMovesOnKeeps == ASSUME NEW t \in Tasks, FrameInv, TaskMovesOn(t) PROVE FrameInv'
<1>1. /\ task' = [task EXCEPT ![t] = @ + 1] /\ task \in [Tasks -> 1..FinalVersion] /\ task[t] < FinalVersion
      /\ UNCHANGED <<listener, toHost, toFrame, slots, watches, watch, runner>>
      /\ FrameTypes /\ FinalVersion \in Nat
  BY FrameAssumption DEF TaskMovesOn, FrameInv, FrameTypes
<1>2. task' \in [Tasks -> 1..FinalVersion] /\ \A u \in Tasks : task[u] \in Nat /\ task'[u] \in Nat /\ task[u] <= task'[u]
  BY <1>1
<1>3. FrameTypes' /\ SlotsAreWatches'
  BY <1>1, <1>2 DEF FrameInv, FrameTypes, SlotsAreWatches
<1>4. \A w \in WatchIds : watch[w].poll \in Int
  BY <1>1 DEF FrameTypes, WatchObject, NoPoll
<1>5. WatchesKnown'
  BY <1>1, <1>2, <1>4 DEF FrameInv, FrameTypes, WatchesKnown
<1>6. \A u \in Tasks, v \in Nat : NoNewer(v, u) => NoNewer(v, u)'
  BY <1>1, <1>2 DEF NoNewer
<1>7. QED
  BY <1>1, <1>3, <1>5, <1>6, PollingKeeps

\* A poll of w is sent, read by the server, or given up.
LEMMA PollMovesKeeps ==
    ASSUME FrameInv, NEW w \in WatchIds, UNCHANGED <<listener, toHost, toFrame, slots, watches, task, runner>>,
           NEW x \in NoPoll..FinalVersion, watch' = [watch EXCEPT ![w].poll = x],
           x # NoPoll => watch[w].task \in Tasks,
           x <= Unread \/ x = task[watch[w].task]
    PROVE  FrameInv'
<1>1. /\ FrameTypes /\ watch \in [WatchIds -> WatchObject] /\ FinalVersion \in Nat
      /\ \A u \in Tasks : task[u] \in Nat \ {0}
      /\ \A u \in Tasks : watches[u] # NoWatch => watches[u] \in WatchIds /\ watch[watches[u]].task = u
  BY FrameAssumption DEF FrameInv, FrameTypes, WatchesKnown
<1>2. /\ watch' \in [WatchIds -> WatchObject]
      /\ \A y \in WatchIds \ {w} : watch'[y] = watch[y]
      /\ watch'[w].poll = x /\ watch'[w].task = watch[w].task /\ watch'[w].last = watch[w].last
  BY <1>1 DEF WatchObject
<1>3. x \in Int /\ x <= Unread => x <= 0
  BY <1>1 DEF NoPoll, Unread
<1>4. FrameTypes' /\ SlotsAreWatches'
  BY <1>2 DEF FrameInv, FrameTypes, SlotsAreWatches
<1>5. WatchesKnown'
  BY <1>1, <1>2, <1>3 DEF FrameInv, WatchesKnown
<1>6. ASSUME NEW u \in Tasks, NEW v \in Nat, NoNewer(v, u) PROVE NoNewer(v, u)'
  BY <1>1, <1>2, <1>3, <1>6 DEF NoNewer, Unread
<1>7. \A u \in Tasks : watches[u] # NoWatch => watch'[watches[u]].last = watch[watches[u]].last
  BY <1>1, <1>2
<1>8. QED
  BY <1>4, <1>5, <1>6, <1>7, PollingKeeps

LEMMA PollTickKeeps == ASSUME NEW t \in Tasks, FrameInv, PollTick(t) PROVE FrameInv'
<1>1. /\ watches[t] \in WatchIds /\ watch' = [watch EXCEPT ![watches[t]].poll = Unread]
      /\ UNCHANGED <<listener, toHost, toFrame, slots, watches, task, runner>>
      /\ watch[watches[t]].task = t
  BY DEF PollTick, FrameInv, FrameTypes, WatchesKnown
<1>2. Unread \in NoPoll..FinalVersion /\ Unread <= Unread
  BY FrameAssumption DEF Unread, NoPoll
<1>3. QED
  BY <1>1, <1>2, PollMovesKeeps

LEMMA ServerReadsTaskKeeps == ASSUME NEW w \in WatchIds, FrameInv, ServerReadsTask(w) PROVE FrameInv'
<1>1. /\ watch' = [watch EXCEPT ![w].poll = task[watch[w].task]]
      /\ UNCHANGED <<listener, toHost, toFrame, slots, watches, task, runner>>
      /\ watch[w].task \in Tasks /\ task \in [Tasks -> 1..FinalVersion]
  BY DEF ServerReadsTask, FrameInv, FrameTypes, WatchesKnown, NoPoll, Unread
<1>2. task[watch[w].task] \in NoPoll..FinalVersion
  BY <1>1, FrameAssumption DEF NoPoll
<1>3. QED
  BY <1>1, <1>2, PollMovesKeeps

\* A watch ends: out of the map and its slot free, the others as they were.
LEMMA WatchEnds ==
    ASSUME FrameInv, NEW t \in Tasks, NEW q \in BOOLEAN, EndWatch(t, q)
    PROVE  /\ watches' \in [Tasks -> WatchIds \cup {NoWatch}] /\ watches'[t] = NoWatch
           /\ \A u \in Tasks \ {t} : watches'[u] = watches[u]
           /\ slots' \in SUBSET Tasks /\ SlotsAreWatches'
           /\ runner' \in [live : BOOLEAN, quiet : SUBSET Tasks]
           /\ \A u \in Tasks : u \in runner'.quiet <=> u \in runner.quiet \/ (q /\ u = t)
BY DEF EndWatch, FrameInv, FrameTypes, SlotsAreWatches

LEMMA EndingKeepsWatches ==
    ASSUME FrameInv, NEW t \in Tasks, NEW q \in BOOLEAN, EndWatch(t, q), task' = task,
           \A u \in Tasks \ {t} : watches[u] # NoWatch => watch'[watches[u]] = watch[watches[u]],
           \A w \in WatchIds : watch'[w].poll # NoPoll => watch'[w].task \in Tasks
    PROVE  WatchesKnown' /\ \A u \in Tasks, v \in Nat : NoNewer(v, u) => NoNewer(v, u)'
BY WatchEnds DEF FrameInv, WatchesKnown, NoNewer

LEMMA EndingKeeps ==
    ASSUME FrameInv, NEW t \in Tasks, EndWatch(t, TRUE), UNCHANGED <<listener, toHost, toFrame, task>>,
           watch' \in [WatchIds -> WatchObject],
           \A u \in Tasks \ {t} : watches[u] # NoWatch => watch'[watches[u]] = watch[watches[u]],
           \A w \in WatchIds : watch'[w].poll # NoPoll => watch'[w].task \in Tasks
    PROVE  FrameInv'
BY WatchEnds, EndingKeepsWatches, PollingKeeps DEF FrameInv, FrameTypes

LEMMA PollFindsTimeUpKeeps == ASSUME NEW t \in Tasks, FrameInv, PollFindsTimeUp(t) PROVE FrameInv'
BY EndingKeeps DEF PollFindsTimeUp, FrameInv, FrameTypes, WatchesKnown

LEMMA PollFailsKeeps == ASSUME NEW w \in WatchIds, FrameInv, PollFails(w) PROVE FrameInv'
<1>1. /\ watch[w].poll # NoPoll /\ watch' = [watch EXCEPT ![w].poll = NoPoll]
      /\ UNCHANGED <<listener, toHost, toFrame, task>>
      /\ watch \in [WatchIds -> WatchObject] /\ watch[w].task \in Tasks /\ WatchesKnown
      /\ NoPoll \in NoPoll..FinalVersion /\ NoPoll <= Unread
  BY FrameAssumption DEF PollFails, FrameInv, FrameTypes, WatchesKnown, NoPoll, Unread
<1>2. CASE UNCHANGED <<slots, watches, runner>>
  BY <1>1, <1>2, PollMovesKeeps
<1>3. CASE StillThisWatch(w) /\ EndWatch(watch[w].task, TRUE)
  <2>1. /\ watch' \in [WatchIds -> WatchObject] /\ \A y \in WatchIds \ {w} : watch'[y] = watch[y]
        /\ watch'[w].poll = NoPoll
    BY <1>1 DEF WatchObject
  <2>2. \A u \in Tasks \ {watch[w].task} : watches[u] # NoWatch => watch'[watches[u]] = watch[watches[u]]
    BY <2>1 DEF FrameInv, FrameTypes, WatchesKnown
  <2>3. \A y \in WatchIds : watch'[y].poll # NoPoll => watch'[y].task \in Tasks
    BY <1>1, <2>1 DEF WatchesKnown
  <2>4. QED
    BY <1>1, <1>3, <2>1, <2>2, <2>3, EndingKeeps
<1>4. QED
  BY <1>2, <1>3 DEF PollFails

-----------------------------------------------------------------------------
(* The requests                                                            *)

\* The first request is handled; a watch is answered with m.
Handles(m) ==
    /\ HostHandles /\ UNCHANGED <<listener, task>>
    /\ m \in Replies /\ m.by = Head(toHost).by
    /\ IF Head(toHost).on THEN FrameGains(m) ELSE toFrame' = toFrame

LEMMA HostMoves ==
    ASSUME NEW m, Handles(m)
    PROVE  /\ \A i \in DOMAIN toHost' : /\ i \in Nat \ {0} /\ i + 1 \in DOMAIN toHost
                                      /\ toHost'[i] = toHost[i + 1]
                                      /\ \A k \in Listeners : Posts(i, k)' <=> Posts(i + 1, k)
           /\ \A i \in DOMAIN toHost : i \in Nat \ {0} /\ (i # 1 => i - 1 \in DOMAIN toHost')
           /\ 1 \in DOMAIN toHost /\ toHost[1] = Head(toHost)
BY DEF Handles, HostHandles, Posts

LEMMA AnswerMoves ==
    ASSUME NEW m, Handles(m)
    PROVE  /\ \A i \in DOMAIN toFrame : i \in DOMAIN toFrame' /\ toFrame'[i] = toFrame[i]
           /\ \A i \in DOMAIN toFrame' : i \in DOMAIN toFrame \/ (Head(toHost).on /\ toFrame'[i] = m)
           /\ \A i \in DOMAIN toFrame : \A x : (Answers(i, x)' <=> Answers(i, x)) /\ (Tells(i, x)' <=> Tells(i, x))
           /\ \A i \in DOMAIN toFrame' : \A x : Tells(i, x)' => i \in DOMAIN toFrame
BY KindsApart DEF Handles, FrameGains, Answers, Tells

LEMMA RequestKeepsCalls == ASSUME FrameInv, NEW m, Handles(m) PROVE CallsKnown'
<1>1. /\ listener' = listener /\ CallsKnown /\ m.by = Head(toHost).by /\ m \in Replies
      /\ toHost \in Seq(HostPosts)
  BY DEF Handles, FrameInv, FrameTypes
<1>2. /\ \A i \in DOMAIN toHost' : /\ i \in Nat \ {0} /\ i + 1 \in DOMAIN toHost
                                   /\ toHost'[i] = toHost[i + 1]
                                   /\ \A k \in Listeners : Posts(i, k)' <=> Posts(i + 1, k)
      /\ 1 \in DOMAIN toHost /\ toHost[1] = Head(toHost)
  BY HostMoves
<1>3. ASSUME NEW i \in DOMAIN toFrame', NEW k \in Listeners, Answers(i, k)'
      PROVE  (i \in DOMAIN toFrame /\ Answers(i, k)) \/ Posts(1, k)
  BY <1>3, AnswerMoves, <1>1, <1>2 DEF Answers, Posts
<1>4. ASSUME NEW i \in DOMAIN toHost', NEW k \in Listeners, Posts(i, k)'
      PROVE  /\ toHost'[i].task = listener'[k].task /\ listener'[k].call # "unused"
             /\ listener'[k].member => listener'[k].call = "pending"
             /\ \A j \in DOMAIN toHost' : Posts(j, k)' => j = i
             /\ \A j \in DOMAIN toFrame' : ~Answers(j, k)'
  BY <1>2, <1>4, <1>1, <1>3 DEF FrameInv, CallsKnown
<1>5. \A i \in DOMAIN toFrame', k \in Listeners : Answers(i, k)' => listener'[k].call # "unused"
  BY <1>1, <1>2, <1>3 DEF CallsKnown
<1>6. \A l \in Listeners : listener'[l].member => listener'[l].call # "unused" /\ listener'[l].task \in Tasks
  BY <1>1 DEF CallsKnown
<1>7. QED
  BY <1>4, <1>5, <1>6 DEF CallsKnown

LEMMA RequestKeepsUnwatches == ASSUME FrameInv, NEW m, Handles(m) PROVE UnwatchFirst'
BY HostMoves DEF Handles, FrameInv, UnwatchFirst

LEMMA RequestKeepsNews ==
    ASSUME FrameInv, NEW m, Handles(m),
           \A u \in Tasks, v \in Nat : NoNewer(v, u) => NoNewer(v, u)'
    PROVE  NewsInOrder'
<1>1. listener' = listener
  BY DEF Handles
<1>2. /\ \A i \in DOMAIN toFrame : i \in DOMAIN toFrame' /\ toFrame'[i] = toFrame[i]
      /\ \A i \in DOMAIN toFrame : \A x : Tells(i, x)' <=> Tells(i, x)
      /\ \A i \in DOMAIN toFrame' : \A x : Tells(i, x)' => i \in DOMAIN toFrame
  BY AnswerMoves
<1>3. /\ \A i \in DOMAIN toFrame, t \in Tasks : Tells(i, t) => toFrame[i].version \in Nat
      /\ \A l \in Listeners : listener[l].heard \in Nat
  BY FrameAssumption DEF FrameInv, FrameTypes, Tells, News, Callback
<1>4. QED
  BY <1>1, <1>2, <1>3 DEF FrameInv, NewsInOrder

LEMMA RequestKeepsHearing == ASSUME NEW m, Handles(m), NEW l \in Listeners, NEW v, WillHear(l, v) PROVE WillHear(l, v)'
BY KindsApart, WillHearBeside, WillHearStays DEF Handles

LEMMA RequestGrants ==
    ASSUME NEW m, Handles(m), NEW l \in Listeners, Granted(l)'
    PROVE  Granted(l) \/ (Head(toHost).on /\ m.ok /\ m.by = l)
BY AnswerMoves DEF Granted, Answers, Handles

LEMMA RefuseRequestKeeps == ASSUME FrameInv, RefuseRequest PROVE FrameInv'
<1> DEFINE m == [by |-> Head(toHost).by, ok |-> FALSE]
<1>1. /\ toHost # <<>> /\ toHost' = Tail(toHost) /\ FrameTypes
      /\ IF Head(toHost).on THEN toFrame' = Append(toFrame, m) ELSE toFrame' = toFrame
      /\ UNCHANGED <<listener, slots, watches, watch, task, runner>>
  BY DEF RefuseRequest, ToFrame, FrameInv
<1>2. HostHandles
  BY <1>1, MessagesMove
<1>3. m \in Replies /\ m.by = Head(toHost).by /\ ~m.ok
  BY <1>2 DEF HostHandles, HostPosts, Replies
<1>4. IF Head(toHost).on THEN FrameGains(m) ELSE toFrame' = toFrame
  BY <1>1, <1>3, MessagesMove
<1> HIDE DEF m
<1>5. Handles(m)
  BY <1>1, <1>2, <1>3, <1>4 DEF Handles
<1>6. toHost' \in Seq(HostPosts) /\ toFrame' \in Seq(Replies \cup News)
  BY <1>1, <1>2, <1>4 DEF HostHandles, FrameGains, FrameTypes
<1>7. FrameTypes'
  BY <1>1, <1>6 DEF FrameTypes
<1>8. WatchesKnown' /\ SlotsAreWatches'
  BY <1>1 DEF FrameInv, WatchesKnown, SlotsAreWatches
<1>9. \A u \in Tasks, v \in Nat : NoNewer(v, u) => NoNewer(v, u)'
  BY <1>1 DEF NoNewer
<1>10. NewsReaches'
  BY <1>5, RequestKeepsHearing, <1>3, RequestGrants, <1>1 DEF FrameInv, NewsReaches,
     CaughtUp
<1>11. QED
  BY <1>5, <1>7, <1>8, <1>9, <1>10, RequestKeepsCalls, RequestKeepsUnwatches, RequestKeepsNews DEF FrameInv

LEMMA HandleUnwatchKeeps == ASSUME FrameInv, HandleUnwatch PROVE FrameInv'
<1> DEFINE t == Head(toHost).task
           m == [by |-> Head(toHost).by, ok |-> TRUE]
<1>1. /\ toHost # <<>> /\ toHost' = Tail(toHost) /\ FrameTypes /\ ~Head(toHost).on
      /\ EndWatch(t, FALSE) /\ UNCHANGED <<listener, toFrame, watch, task>>
  BY DEF HandleUnwatch, FrameInv
<1>2. HostHandles
  BY <1>1, MessagesMove
<1>3. m \in Replies /\ m.by = Head(toHost).by /\ t \in Tasks
  BY <1>2 DEF HostHandles, HostPosts, Replies
<1>4. Handles(m)
  BY <1>1, <1>2, <1>3 DEF Handles
<1>5. ASSUME NEW l \in Listeners, listener[l].task = t PROVE ~Granted(l)
  <2>1. SUFFICES ASSUME listener[l].member PROVE ~Granted(l)
    BY DEF Granted
  <2>2. 1 \in DOMAIN toHost /\ toHost[1] = Head(toHost)
    BY <1>2 DEF HostHandles
  <2>3. PICK j \in DOMAIN toHost : Posts(j, l)
    BY <1>1, <1>5, <2>1, <2>2 DEF FrameInv, UnwatchFirst
  <2>4. listener[l].call = "pending" /\ \A i \in DOMAIN toFrame : ~Answers(i, l)
    BY <2>1, <2>3 DEF FrameInv, CallsKnown
  <2>5. QED
    BY <2>4 DEF Granted
<1> HIDE DEF m, t
<1>6. /\ watches' \in [Tasks -> WatchIds \cup {NoWatch}] /\ watches'[t] = NoWatch
      /\ \A u \in Tasks \ {t} : watches'[u] = watches[u]
      /\ slots' \in SUBSET Tasks /\ SlotsAreWatches'
      /\ runner' \in [live : BOOLEAN, quiet : SUBSET Tasks]
      /\ \A u \in Tasks : u \in runner'.quiet <=> u \in runner.quiet
  BY <1>1, <1>3, WatchEnds
<1>7. FrameTypes'
  BY <1>1, <1>2, <1>6 DEF FrameTypes, HostHandles
<1>8. WatchesKnown' /\ \A u \in Tasks, v \in Nat : NoNewer(v, u) => NoNewer(v, u)'
  BY <1>1, <1>3, EndingKeepsWatches DEF FrameInv, WatchesKnown
<1>9. NewsReaches'
  BY <1>4, RequestKeepsHearing, <1>1, RequestGrants, <1>5, <1>6 DEF FrameInv, NewsReaches,
     Granted, CallsKnown, CaughtUp
<1>10. QED
  BY <1>4, <1>6, <1>7, <1>8, <1>9, RequestKeepsCalls, RequestKeepsUnwatches, RequestKeepsNews DEF FrameInv

\* A watch starts, or polls at once for a callback more.
LEMMA WatchStarts ==
    ASSUME FrameInv, NEW t \in Tasks, StartWatch(t)
    PROVE  \E w \in WatchIds :
             /\ watches' = [watches EXCEPT ![t] = w]
             /\ \A u \in Tasks \ {t} : watches[u] # w
             /\ \/ w = watches[t]
                \/ watches[t] = NoWatch /\ watch[w].poll = NoPoll
             /\ watch' \in [WatchIds -> WatchObject] /\ \A y \in WatchIds \ {w} : watch'[y] = watch[y]
             /\ watch'[w].task = t /\ watch'[w].last = Unread /\ watch'[w].poll \in {Unread, watch[w].poll}
<1>1. /\ watches \in [Tasks -> WatchIds \cup {NoWatch}] /\ watch \in [WatchIds -> WatchObject]
      /\ \A u \in Tasks : watches[u] # NoWatch => watch[watches[u]].task = u
  BY DEF FrameInv, FrameTypes, WatchesKnown
<1>2. Unread \in 0..FinalVersion /\ Unread \in NoPoll..FinalVersion
  BY FrameAssumption DEF Unread, NoPoll
<1>3. CASE watches[t] # NoWatch
  <2> DEFINE w == watches[t]
  <2>1. w \in WatchIds /\ watch[w].task = t /\ watch[w] \in WatchObject
    BY <1>1, <1>3
  <2>2. watch' = [watch EXCEPT ![w] = Restarted(w)] /\ watches' = watches
    BY <1>3 DEF StartWatch
  <2>3. /\ Restarted(w) \in WatchObject /\ Restarted(w).task = t /\ Restarted(w).last = Unread
        /\ Restarted(w).poll \in {Unread, watch[w].poll}
    BY <1>2, <2>1 DEF Restarted, WatchObject
  <2>4. watches' = [watches EXCEPT ![t] = w]
    BY <1>1, <2>2
  <2>5. \A u \in Tasks \ {t} : watches[u] # w
    BY <1>1, <1>3, <2>1
  <2>6. /\ watch' \in [WatchIds -> WatchObject] /\ \A y \in WatchIds \ {w} : watch'[y] = watch[y]
        /\ watch'[w] = Restarted(w)
    BY <1>1, <2>1, <2>2, <2>3
  <2>7. QED
    BY <2>1, <2>3, <2>4, <2>5, <2>6
<1>4. CASE watches[t] = NoWatch
  BY <1>4, <1>2, <1>1 DEF StartWatch, Unused, WatchObject
<1>5. QED
  BY <1>3, <1>4

LEMMA HandleWatchKeeps == ASSUME FrameInv, HandleWatch PROVE FrameInv'
<1> DEFINE t == Head(toHost).task
           m == [by |-> Head(toHost).by, ok |-> TRUE]
<1>1. /\ toHost # <<>> /\ toHost' = Tail(toHost) /\ FrameTypes /\ Head(toHost).on
      /\ StartWatch(t) /\ toFrame' = Append(toFrame, m) /\ UNCHANGED <<listener, task>>
  BY DEF HandleWatch, ToFrame, FrameInv
<1>2. HostHandles
  BY <1>1, MessagesMove
<1>3. m \in Replies /\ m.by = Head(toHost).by /\ t \in Tasks
  BY <1>2 DEF HostHandles, HostPosts, Replies
<1>4. FrameGains(m)
  BY <1>1, <1>3, MessagesMove
<1>5. Handles(m)
  BY <1>1, <1>2, <1>3, <1>4 DEF Handles
<1>6. ASSUME NEW l \in Listeners, m.by = l PROVE listener[l].task = t
  <2>1. 1 \in DOMAIN toHost /\ toHost[1] = Head(toHost)
    BY <1>2 DEF HostHandles
  <2>2. Posts(1, l)
    BY <1>1, <1>3, <1>6, <2>1 DEF Posts
  <2>3. QED
    BY <2>1, <2>2 DEF FrameInv, CallsKnown
<1> HIDE DEF m, t
<1>7. PICK w \in WatchIds :
        /\ watches' = [watches EXCEPT ![t] = w]
        /\ \A u \in Tasks \ {t} : watches[u] # w
        /\ w = watches[t] \/ (watches[t] = NoWatch /\ watch[w].poll = NoPoll)
        /\ watch' \in [WatchIds -> WatchObject] /\ \A y \in WatchIds \ {w} : watch'[y] = watch[y]
        /\ watch'[w].task = t /\ watch'[w].last = Unread /\ watch'[w].poll \in {Unread, watch[w].poll}
  BY <1>1, <1>3, WatchStarts
<1>8. /\ watches \in [Tasks -> WatchIds \cup {NoWatch}] /\ slots \in SUBSET Tasks /\ SlotsAreWatches
      /\ runner \in [live : BOOLEAN, quiet : SUBSET Tasks] /\ WatchesKnown /\ task' = task
      /\ \A u \in Tasks : task[u] \in Nat /\ Unread <= task[u]
      /\ NoWatch \notin WatchIds
  BY <1>1, FrameAssumption DEF FrameInv, FrameTypes, Unread, WatchIds, NoWatch
<1>9. /\ watches' \in [Tasks -> WatchIds \cup {NoWatch}] /\ watches'[t] = w
      /\ \A u \in Tasks \ {t} : watches'[u] = watches[u]
  BY <1>3, <1>7, <1>8
<1>10. slots' \in SUBSET Tasks /\ SlotsAreWatches'
  BY <1>1, <1>3, <1>8, <1>9 DEF StartWatch, SlotsAreWatches
<1>11. /\ runner' \in [live : BOOLEAN, quiet : SUBSET Tasks]
       /\ \A u \in Tasks \ {t} : u \in runner'.quiet <=> u \in runner.quiet
  BY <1>1, <1>8 DEF StartWatch
<1>12. FrameTypes'
  BY <1>1, <1>2, <1>4, <1>7, <1>9, <1>10, <1>11 DEF FrameTypes, HostHandles, FrameGains
<1>13. WatchesKnown'
  BY <1>3, <1>7, <1>8, <1>9 DEF WatchesKnown, NoPoll, Unread
<1>14. ASSUME NEW u \in Tasks, NEW v \in Nat, NoNewer(v, u) PROVE NoNewer(v, u)'
  BY <1>7, <1>8, <1>9, <1>14 DEF NoNewer, Unread, NoPoll
<1>15. NewsReaches'
  BY <1>5, RequestKeepsHearing, RequestGrants, <1>6, <1>7, <1>8, <1>9, <1>1, <1>11 DEF
     FrameInv, NewsReaches, Granted, CallsKnown, CaughtUp
<1>16. QED
  BY <1>5, <1>10, <1>12, <1>13, <1>14, <1>15, RequestKeepsCalls, RequestKeepsUnwatches, RequestKeepsNews DEF FrameInv

-----------------------------------------------------------------------------
(* The messages to the frame                                               *)

LEMMA FrameMoves ==
    ASSUME FrameHandles
    PROVE  /\ \A i \in DOMAIN toFrame' : /\ i \in Nat \ {0} /\ i + 1 \in DOMAIN toFrame
                                       /\ toFrame'[i] = toFrame[i + 1]
                                       /\ \A x : (Answers(i, x)' <=> Answers(i + 1, x)) /\ (Tells(i, x)' <=> Tells(i + 1, x))
           /\ 1 \in DOMAIN toFrame /\ toFrame[1] = Head(toFrame)
BY DEF FrameHandles, Answers, Tells

\* A message to the frame is handled: what the callbacks' calls and the unwatches keep.
LEMMA HandlingKeepsCalls ==
    ASSUME FrameInv, FrameHandles, toHost' = toHost,
           \A l \in Listeners : /\ listener'[l].task = listener[l].task
                                /\ listener'[l].member => listener[l].member
                                /\ listener[l].call # "unused" => listener'[l].call # "unused"
                                /\ listener'[l].call = listener[l].call \/ Answers(1, l)
    PROVE  CallsKnown' /\ UnwatchFirst'
BY FrameMoves, MessagesStay DEF FrameInv, CallsKnown, UnwatchFirst

LEMMA HandlingKeepsOrder ==
    ASSUME FrameInv, FrameHandles, UNCHANGED <<watches, watch, task>>,
           \A l \in Listeners : /\ listener'[l].task = listener[l].task
                                /\ \/ listener'[l].heard = listener[l].heard
                                   \/ Tells(1, listener[l].task) /\ listener'[l].heard = Head(toFrame).version
    PROVE  NewsInOrder'
BY FrameMoves DEF NoNewer, FrameInv, NewsInOrder

LEMMA HandlingKeeps ==
    ASSUME FrameInv, FrameHandles, UNCHANGED <<toHost, slots, watches, watch, task, runner>>,
           listener' \in [Listeners -> Callback], CallsKnown', UnwatchFirst', NewsInOrder',
           \A l \in Listeners : /\ listener'[l].task = listener[l].task
                                /\ Granted(l)' => /\ Granted(l)
                                                  /\ IF Tells(1, listener[l].task)
                                                     THEN listener'[l].heard = Head(toFrame).version
                                                     ELSE listener'[l].heard = listener[l].heard
    PROVE  FrameInv'
<1>1. FrameTypes' /\ WatchesKnown' /\ SlotsAreWatches'
  BY DEF FrameInv, FrameTypes, WatchesKnown, SlotsAreWatches, FrameHandles
<1>2. ASSUME NEW l \in Listeners, Granted(l)', NEW v, WillHear(l, v) PROVE WillHear(l, v)'
  BY <1>2, WillHearOn
<1>3. NewsReaches'
  BY <1>2 DEF FrameInv, NewsReaches, CaughtUp
<1>4. QED
  BY <1>1, <1>3 DEF FrameInv

LEMMA HandleReplyKeeps == ASSUME FrameInv, HandleReply PROVE FrameInv'
<1> DEFINE m == Head(toFrame)
           k == m.by
<1>1. /\ toFrame # <<>> /\ toFrame' = Tail(toFrame) /\ "by" \in DOMAIN m /\ FrameTypes
      /\ listener \in [Listeners -> Callback] /\ UNCHANGED <<toHost, slots, watches, watch, task, runner>>
  BY DEF HandleReply, FrameInv, FrameTypes
<1>2. FrameHandles
  BY <1>1, MessagesMove
<1>3. m \in Replies /\ m \notin News /\ k \in Listeners
  BY <1>1, <1>2, KindsApart DEF FrameHandles, Replies
<1>4. /\ \A t : ~Tells(1, t)
      /\ \A l \in Listeners : Answers(1, l) <=> l = k
      /\ 1 \in DOMAIN toFrame /\ toFrame[1] = m
  BY <1>2, <1>3 DEF FrameHandles, Tells, Answers
<1>5. \/ listener' = listener /\ listener[k].call # "pending"
      \/ m.ok /\ listener' = [listener EXCEPT ![k].call = "settled"]
      \/ listener' = [listener EXCEPT ![k].call = "settled", ![k].member = FALSE]
  BY DEF HandleReply, Rejected
<1>6. listener[k].call # "unused"
  BY <1>3, <1>4 DEF FrameInv, CallsKnown
<1> HIDE DEF m, k
<1>7. /\ listener' \in [Listeners -> Callback]
      /\ \A l \in Listeners : listener'[l].task = listener[l].task /\ listener'[l].heard = listener[l].heard
      /\ \A l \in Listeners : listener'[l].member => listener[l].member
      /\ \A l \in Listeners \ {k} : listener'[l] = listener[l]
      /\ listener'[k].call # "unused"
      /\ listener'[k].member => m.ok \/ listener'[k] = listener[k]
  <2>1. CASE listener' = listener /\ listener[k].call # "pending"
    BY <1>1, <1>3, <1>6, <2>1
  <2>2. CASE m.ok /\ listener' = [listener EXCEPT ![k].call = "settled"]
    BY <1>1, <1>3, <2>2 DEF Callback
  <2>3. CASE listener' = [listener EXCEPT ![k].call = "settled", ![k].member = FALSE]
    BY <1>1, <1>3, <2>3 DEF Callback
  <2>4. QED
    BY <1>5, <2>1, <2>2, <2>3
<1>8. CallsKnown' /\ UnwatchFirst'
  BY <1>1, <1>2, <1>4, <1>7, HandlingKeepsCalls
<1>9. NewsInOrder'
  BY <1>1, <1>2, <1>7, HandlingKeepsOrder
<1>10. ASSUME NEW l \in Listeners, Granted(l)' PROVE Granted(l)
  BY <1>2, <1>7, <1>10, FrameMoves, <1>4 DEF Granted
<1>11. QED
  BY <1>1, <1>2, <1>4, <1>7, <1>8, <1>9, <1>10, HandlingKeeps

\* News are heard by the callbacks of the task.
LEMMA NewsHeard ==
    ASSUME FrameInv, HandleTaskEvent
    PROVE  /\ FrameHandles /\ Head(toFrame) \in News /\ listener' \in [Listeners -> Callback]
           /\ \A l \in Listeners : /\ listener'[l].task = listener[l].task /\ (listener'[l].member <=> listener[l].member)
                                    /\ listener'[l].call = listener[l].call
           /\ \A l \in Listeners : listener[l].member /\ Tells(1, listener[l].task)
                                  => listener'[l].heard = Head(toFrame).version
           /\ \A l \in Listeners : ~(listener[l].member /\ Tells(1, listener[l].task))
                                  => listener'[l].heard = listener[l].heard
<1> DEFINE m == Head(toFrame)
           G(l) == IF l \in Members(m.task) THEN [listener[l] EXCEPT !.heard = m.version] ELSE listener[l]
<1>1. /\ toFrame # <<>> /\ toFrame' = Tail(toFrame) /\ "version" \in DOMAIN m /\ FrameTypes
      /\ listener \in [Listeners -> Callback] /\ listener' = [l \in Listeners |-> G(l)]
  BY DEF HandleTaskEvent, FrameInv, FrameTypes
<1>2. FrameHandles
  BY <1>1, MessagesMove
<1>3. m \in News /\ m.version \in 0..FinalVersion
  BY <1>1, <1>2, KindsApart DEF FrameHandles, News
<1>4. ASSUME NEW l \in Listeners
      PROVE  /\ G(l) \in Callback /\ G(l).task = listener[l].task /\ (G(l).member <=> listener[l].member)
             /\ G(l).call = listener[l].call
             /\ G(l).heard = IF l \in Members(m.task) THEN m.version ELSE listener[l].heard
  <2>1. listener[l] \in Callback
    BY <1>1
  <2> HIDE DEF m
  <2>2. CASE l \in Members(m.task)
    BY <1>3, <2>1, <2>2 DEF Callback
  <2>3. CASE l \notin Members(m.task)
    BY <2>1, <2>3
  <2>4. QED
    BY <2>2, <2>3
<1>5. \A t : Tells(1, t) <=> m.task = t
  BY <1>2, <1>3 DEF FrameHandles, Tells
<1>6. \A l \in Listeners : l \in Members(m.task) <=> listener[l].member /\ Tells(1, listener[l].task)
  BY <1>5 DEF Members
<1> HIDE DEF m, G
<1>7. listener' \in [Listeners -> Callback] /\ \A l \in Listeners : listener'[l] = G(l)
  BY <1>1, <1>4
<1>8. \A l \in Listeners : /\ listener'[l].task = listener[l].task /\ (listener'[l].member <=> listener[l].member)
                           /\ listener'[l].call = listener[l].call
  BY <1>4, <1>7
<1>9. ASSUME NEW l \in Listeners
      PROVE  /\ listener[l].member /\ Tells(1, listener[l].task) => listener'[l].heard = m.version
             /\ ~(listener[l].member /\ Tells(1, listener[l].task)) => listener'[l].heard = listener[l].heard
  BY <1>4, <1>6, <1>7
<1>10. QED
  BY <1>2, <1>3, <1>7, <1>8, <1>9 DEF m

LEMMA HandleTaskEventKeeps == ASSUME FrameInv, HandleTaskEvent PROVE FrameInv'
<1>1. UNCHANGED <<toHost, slots, watches, watch, task, runner>>
  BY DEF HandleTaskEvent
<1>2. FrameHandles /\ listener' \in [Listeners -> Callback]
  BY NewsHeard
<1>3. \A l \in Listeners : /\ listener'[l].task = listener[l].task /\ (listener'[l].member <=> listener[l].member)
                           /\ listener'[l].call = listener[l].call
  BY NewsHeard
<1>4. \A l \in Listeners : \/ listener'[l].heard = listener[l].heard
                           \/ Tells(1, listener[l].task) /\ listener'[l].heard = Head(toFrame).version
  BY NewsHeard
<1>5. ASSUME NEW l \in Listeners, listener[l].member
      PROVE  /\ Tells(1, listener[l].task) => listener'[l].heard = Head(toFrame).version
             /\ ~Tells(1, listener[l].task) => listener'[l].heard = listener[l].heard
  BY <1>5, NewsHeard
<1>6. CallsKnown' /\ UnwatchFirst'
  BY <1>1, <1>2, <1>3, HandlingKeepsCalls
<1>7. NewsInOrder'
  BY <1>1, <1>2, <1>3, <1>4, HandlingKeepsOrder
<1>8. \A l \in Listeners : Granted(l)' => Granted(l) /\ listener[l].member
  BY <1>2, <1>3, FrameMoves DEF Granted
<1>9. QED
  BY <1>1, <1>2, <1>3, <1>5, <1>6, <1>7, <1>8, HandlingKeeps

-----------------------------------------------------------------------------
(* An answer to a poll                                                     *)

\* News are posted to the frame.
LEMMA NewsMove ==
    ASSUME NEW m \in News, FrameGains(m)
    PROVE  /\ \A i \in DOMAIN toFrame : i \in DOMAIN toFrame' /\ toFrame'[i] = toFrame[i]
           /\ \A i \in DOMAIN toFrame : \A x : (Answers(i, x)' <=> Answers(i, x)) /\ (Tells(i, x)' <=> Tells(i, x))
           /\ \A i \in DOMAIN toFrame' : \A x : Answers(i, x)' => i \in DOMAIN toFrame
BY KindsApart DEF FrameGains, Answers, Tells

LEMMA NewsKeepCalls ==
    ASSUME FrameInv, NEW m \in News, FrameGains(m), UNCHANGED <<listener, toHost>>
    PROVE  CallsKnown' /\ UnwatchFirst'
BY NewsMove, MessagesStay DEF FrameInv, CallsKnown, UnwatchFirst

LEMMA NewsKeepOrder ==
    ASSUME FrameInv, NEW m \in News, FrameGains(m), UNCHANGED listener,
           \A u \in Tasks, v \in Nat : NoNewer(v, u) => NoNewer(v, u)',
           NoNewer(m.version, m.task)',
           \A v \in Nat : NoNewer(v, m.task) => v <= m.version
    PROVE  NewsInOrder'
<1>1. /\ \A i \in DOMAIN toFrame, t \in Tasks : Tells(i, t) => toFrame[i].version \in Nat
      /\ \A l \in Listeners : listener[l].heard \in Nat
      /\ m.task \in Tasks /\ m.version \in Nat
  BY FrameAssumption DEF FrameInv, FrameTypes, Tells, News, Callback
<1>2. PICK n \in DOMAIN toFrame' :
        /\ toFrame'[n] = m
        /\ \A i \in DOMAIN toFrame' : i = n \/ i \in DOMAIN toFrame
        /\ \A i \in DOMAIN toFrame : i \in Nat /\ n \in Nat /\ i < n
  BY DEF FrameGains
<1>3. /\ \A i \in DOMAIN toFrame : toFrame'[i] = toFrame[i]
      /\ \A i \in DOMAIN toFrame : \A x : Tells(i, x)' <=> Tells(i, x)
      /\ \A x : Tells(n, x)' => x = m.task
  BY <1>2, NewsMove DEF Tells
<1>4. ASSUME NEW i \in DOMAIN toFrame', NEW t \in Tasks, Tells(i, t)'
      PROVE  /\ NoNewer(toFrame[i].version, t)'
             /\ \A j \in DOMAIN toFrame' : Tells(j, t)' /\ i < j => toFrame'[i].version <= toFrame'[j].version
             /\ \A l \in Listeners : listener'[l].task = t => listener'[l].heard <= toFrame'[i].version
  BY <1>2, <1>3, <1>4, <1>1 DEF FrameGains, FrameInv, NewsInOrder
<1>5. \A l \in Listeners, t \in Tasks : listener'[l].task = t => NoNewer(listener[l].heard, t)'
  BY <1>1 DEF FrameInv, NewsInOrder
<1>6. QED
  BY <1>4, <1>5 DEF NewsInOrder

\* The running watch w of task t has seen a version, and posts it if it is news.
LEMMA NewsArrive ==
    ASSUME FrameInv, NEW w \in WatchIds, PollAnswered(w), StillThisWatch(w)
    PROVE  \E t \in Tasks, v \in 1..FinalVersion :
             /\ watches[t] = w /\ watch[w].task = t /\ watch[w].poll = v /\ v <= task[t]
             /\ watch' \in [WatchIds -> WatchObject] /\ \A y \in WatchIds \ {w} : watch'[y] = watch[y]
             /\ watch'[w].task = t /\ watch'[w].last = v /\ watch'[w].poll = NoPoll
             /\ \/ FrameGains([task |-> t, version |-> v])
                \/ toFrame' = toFrame /\ watch[w].last = v
             /\ \/ v = FinalVersion /\ EndWatch(t, FALSE)
                \/ UNCHANGED <<slots, watches, runner>>
<1> DEFINE t == watch[w].task
           v == watch[w].poll
           m == [task |-> t, version |-> v]
<1>1. /\ watch[w].poll \notin {NoPoll, Unread} /\ watches[t] = w
      /\ watch' = [watch EXCEPT ![w].poll = NoPoll, ![w].last = v]
      /\ IF v # watch[w].last THEN toFrame' = Append(toFrame, m) ELSE toFrame' = toFrame
      /\ IF v = FinalVersion THEN EndWatch(t, FALSE) ELSE UNCHANGED <<slots, watches, runner>>
      /\ FrameTypes /\ watch \in [WatchIds -> WatchObject]
  BY DEF PollAnswered, StillThisWatch, ToFrame, FrameInv, FrameTypes
<1>2. v \in 1..FinalVersion /\ t \in Tasks
  BY <1>1, FrameAssumption DEF WatchObject, NoPoll, Unread, FrameInv, WatchesKnown
<1>3. v <= task[t]
  BY <1>1, <1>2 DEF FrameInv, WatchesKnown, NoWatch, WatchIds
<1>4. m \in News
  BY <1>2 DEF News
<1>5. FrameGains(m) \/ (toFrame' = toFrame /\ watch[w].last = v)
  BY <1>1, <1>4, MessagesMove
<1> HIDE DEF m
<1>6. /\ watch' \in [WatchIds -> WatchObject] /\ \A y \in WatchIds \ {w} : watch'[y] = watch[y]
      /\ watch'[w].task = t /\ watch'[w].last = v /\ watch'[w].poll = NoPoll
  <2>1. NoPoll \in NoPoll..FinalVersion /\ v \in 0..FinalVersion
    BY <1>2, FrameAssumption DEF NoPoll
  <2> HIDE DEF v
  <2>2. QED
    BY <1>1, <2>1 DEF WatchObject
<1>7. QED
  BY <1>1, <1>2, <1>3, <1>5, <1>6 DEF m

LEMMA PollAnsweredKeeps == ASSUME NEW w \in WatchIds, FrameInv, PollAnswered(w) PROVE FrameInv'
<1>1. UNCHANGED <<listener, toHost, task>> /\ FrameTypes
  BY DEF PollAnswered, FrameInv
<1>2. CASE ~StillThisWatch(w)
  BY <1>2, FrameAssumption, <1>1, PollMovesKeeps DEF PollAnswered, NoPoll, Unread
<1>3. CASE StillThisWatch(w)
  <2>1. PICK t \in Tasks, v \in 1..FinalVersion :
          /\ watches[t] = w /\ watch[w].task = t /\ watch[w].poll = v /\ v <= task[t]
          /\ watch' \in [WatchIds -> WatchObject] /\ \A y \in WatchIds \ {w} : watch'[y] = watch[y]
          /\ watch'[w].task = t /\ watch'[w].last = v /\ watch'[w].poll = NoPoll
          /\ \/ FrameGains([task |-> t, version |-> v])
             \/ toFrame' = toFrame /\ watch[w].last = v
          /\ \/ v = FinalVersion /\ EndWatch(t, FALSE)
             \/ UNCHANGED <<slots, watches, runner>>
    BY <1>3, NewsArrive
  <2> DEFINE m == [task |-> t, version |-> v]
  <2>2. m \in News /\ m.task = t /\ m.version = v
    BY DEF News
  <2> HIDE DEF m
  <2>3. FrameGains(m) \/ (toFrame' = toFrame /\ watch[w].last = v)
    BY <2>1 DEF m
  <2>4. /\ watches' \in [Tasks -> WatchIds \cup {NoWatch}] /\ \A u \in Tasks \ {t} : watches'[u] = watches[u]
        /\ watches'[t] = w \/ (watches'[t] = NoWatch /\ v = FinalVersion)
        /\ slots' \in SUBSET Tasks /\ SlotsAreWatches'
        /\ runner' \in [live : BOOLEAN, quiet : SUBSET Tasks]
        /\ \A u \in Tasks : u \in runner'.quiet <=> u \in runner.quiet
    BY WatchEnds, <2>1 DEF FrameInv, FrameTypes, SlotsAreWatches
  <2>5. \A u \in Tasks : watches[u] # NoWatch => watches[u] \in WatchIds /\ (u # t => watches[u] # w)
    BY <2>1 DEF FrameInv, FrameTypes, WatchesKnown
  <2>6. /\ v \in Nat \ {0} /\ w # NoWatch /\ NoPoll < 0
        /\ \A u \in Tasks : task[u] \in Nat /\ NoPoll <= task[u]
        /\ v <= task[t] /\ task' = task
    BY <1>1, <2>1, FrameAssumption DEF FrameTypes, WatchIds, NoWatch, NoPoll
  <2> DEFINE o == watch'[watches'[t]]
  <2>0. /\ watches'[t] # NoWatch => o.task = t /\ o.last = v /\ o.poll = NoPoll
        /\ \A u \in Tasks \ {t} : watches[u] # NoWatch => watch'[watches'[u]] = watch[watches[u]]
    BY <2>1, <2>4, <2>5
  <2> HIDE DEF o
  <2>7. FrameTypes'
    BY <1>1, <2>1, <2>3, <2>4 DEF FrameTypes, FrameGains
  <2>8. WatchesKnown'
    BY <2>1, <2>0, <2>4, <2>6, <1>1 DEF FrameInv, WatchesKnown, o
  <2>9. ASSUME NEW u \in Tasks, NEW x \in Nat, NoNewer(x, u) PROVE NoNewer(x, u)'
    BY <2>6, <2>9, <2>0, <2>4 DEF NoNewer, o, Unread, NoPoll
  <2>10. CallsKnown' /\ UnwatchFirst'
    BY <1>1, <2>2, <2>3, NewsKeepCalls, CallsStay DEF FrameInv
  <2>11. NewsInOrder'
    <3>1. CASE FrameGains(m)
      BY <2>1, <2>2, <2>6, <2>0, <1>1, <2>9, <3>1, NewsKeepOrder DEF NoNewer, Unread, o,
         NoPoll
    <3>2. CASE toFrame' = toFrame
      BY FrameAssumption, <1>1, <2>9, <3>2, MessagesStay DEF FrameInv, FrameTypes, Tells,
         News, Callback, NewsInOrder
    <3>3. QED
      BY <2>3, <3>1, <3>2
  <2>12. NewsReaches'
    <3>1. ASSUME NEW l \in Listeners, Granted(l)'
          PROVE  listener[l].task \in Tasks /\ CaughtUp(l, listener[l].task)
      BY <1>1, <2>2, <2>3, <3>1, NewsMove, MessagesStay DEF Granted, FrameInv, NewsReaches,
         CallsKnown
    <3>2. ASSUME NEW l \in Listeners, listener[l].task # t, NEW x, WillHear(l, x) PROVE WillHear(l, x)'
      BY <1>1, <2>2, <2>3, <3>2, WillHearBeside, WillHearStays
    <3>3. ASSUME NEW l \in Listeners, listener[l].task = t, CaughtUp(l, t) PROVE WillHear(l, v)'
      BY <1>1, <2>2, <3>3, WillHearTheNewest, <2>1, <2>6, WillHearStays, <2>3 DEF CaughtUp,
         Unread
    <3>4. ASSUME NEW l \in Listeners, Granted(l)' PROVE CaughtUp(l, listener[l].task)'
      <4>1. CASE listener[l].task = t
        BY <1>1, <3>1, <3>3, <3>4, <4>1, <2>0, <2>4, <2>6 DEF o, CaughtUp
      <4>2. CASE listener[l].task # t
        BY <1>1, <2>0, <2>4, <3>1, <3>2, <3>4, <4>2 DEF CaughtUp
      <4>3. QED
        BY <4>1, <4>2
    <3>5. QED
      BY <3>4 DEF NewsReaches
  <2>13. QED
    BY <2>4, <2>7, <2>8, <2>10, <2>11, <2>12 DEF FrameInv
<1>4. QED
  BY <1>2, <1>3

LEMMA StopRunnerKeeps == ASSUME FrameInv, StopRunner PROVE FrameInv'
<1>1. /\ listener' = [l \in Listeners |-> NotWatching] /\ runner' = [live |-> FALSE, quiet |-> Tasks]
      /\ watches' = [t \in Tasks |-> NoWatch] /\ slots' = {} /\ toHost' = <<>> /\ toFrame' = <<>>
      /\ UNCHANGED <<watch, task>> /\ FrameTypes /\ WatchesKnown
      /\ \A t \in Tasks : task[t] \in Nat
  BY DEF StopRunner, FrameInv, FrameTypes
<1>2. FrameTypes'
  BY <1>1, FrameAssumption DEF FrameTypes, Callback, NotWatching
<1>3. CallsKnown' /\ UnwatchFirst'
  BY <1>1 DEF CallsKnown, UnwatchFirst, NotWatching
<1>4. WatchesKnown' /\ SlotsAreWatches'
  BY <1>1 DEF WatchesKnown, SlotsAreWatches
<1>5. NewsInOrder'
  BY <1>1 DEF NewsInOrder, NoNewer, NotWatching
<1>6. NewsReaches'
  BY <1>1 DEF NewsReaches, Granted, NotWatching
<1>7. QED
  BY <1>2, <1>3, <1>4, <1>5, <1>6 DEF FrameInv

-----------------------------------------------------------------------------
(* The specification                                                       *)

LEMMA FrameStarts == FrameInit => FrameInv
<1> SUFFICES ASSUME FrameInit PROVE FrameInv
  OBVIOUS
<1>1. /\ listener = [l \in Listeners |-> NotWatching] /\ runner = [live |-> TRUE, quiet |-> {}]
      /\ watches = [t \in Tasks |-> NoWatch] /\ slots = {} /\ toHost = <<>> /\ toFrame = <<>>
      /\ watch = [w \in WatchIds |-> [task |-> NoTask, last |-> Unread, poll |-> NoPoll]]
      /\ task = [t \in Tasks |-> 1]
  BY DEF FrameInit
<1>2. /\ NotWatching \in Callback /\ [task |-> NoTask, last |-> Unread, poll |-> NoPoll] \in WatchObject
      /\ 1 \in 1..FinalVersion
  BY FrameAssumption DEF NotWatching, Callback, WatchObject, Unread, NoPoll
<1>3. FrameTypes
  BY <1>1, <1>2 DEF FrameTypes
<1>4. CallsKnown /\ UnwatchFirst
  BY <1>1 DEF CallsKnown, UnwatchFirst, NotWatching
<1>5. WatchesKnown /\ SlotsAreWatches
  BY <1>1 DEF WatchesKnown, SlotsAreWatches
<1>6. NewsInOrder
  BY <1>1 DEF NewsInOrder, NoNewer, NotWatching
<1>7. NewsReaches
  BY <1>1 DEF NewsReaches, Granted, NotWatching
<1>8. QED
  BY <1>3, <1>4, <1>5, <1>6, <1>7 DEF FrameInv

LEMMA FrameSteps == FrameInv /\ [FrameNext]_frameVars => FrameInv'
<1> SUFFICES ASSUME FrameInv, [FrameNext]_frameVars PROVE FrameInv'
  OBVIOUS
<1>1. ASSUME NEW l \in Listeners, StopCallback(l) \/ CallTimesOut(l) \/ \E t \in Tasks : WatchCall(l, t) PROVE FrameInv'
  BY <1>1, StopCallbackKeeps, CallTimesOutKeeps, WatchCallKeeps
<1>2. CASE HandleReply \/ HandleTaskEvent
  BY <1>2, HandleReplyKeeps, HandleTaskEventKeeps
<1>3. CASE HandleWatch \/ HandleUnwatch \/ RefuseRequest
  BY <1>3, HandleWatchKeeps, HandleUnwatchKeeps, RefuseRequestKeeps
<1>4. ASSUME NEW t \in Tasks, PollTick(t) \/ PollFindsTimeUp(t) \/ TaskMovesOn(t) PROVE FrameInv'
  BY <1>4, PollTickKeeps, PollFindsTimeUpKeeps, TaskMovesOnKeeps
<1>5. ASSUME NEW w \in WatchIds, ServerReadsTask(w) \/ PollAnswered(w) \/ PollFails(w) PROVE FrameInv'
  BY <1>5, ServerReadsTaskKeeps, PollAnsweredKeeps, PollFailsKeeps
<1>6. CASE StopRunner
  BY <1>6, StopRunnerKeeps
<1>7. CASE UNCHANGED frameVars
  BY <1>7, PollingKeeps DEF frameVars, FrameInv, FrameTypes, WatchesKnown, SlotsAreWatches,
     NoNewer
<1>8. QED
  BY <1>1, <1>2, <1>3, <1>4, <1>5, <1>6, <1>7 DEF FrameNext

THEOREM FrameInvariance == FrameSpec => []FrameInv
BY FrameStarts, FrameSteps, PTL DEF FrameSpec

LEMMA FrameIsRight == FrameInv => FrameTypeOK /\ WatchersHearTheNews /\ SlotsAreWatches
<1>1. ASSUME FrameInv, NEW l \in Listeners, listener[l].member, listener[l].call = "settled",
             \A i \in DOMAIN toFrame : "version" \notin DOMAIN toFrame[i]
      PROVE  LET t == listener[l].task  w == watches[t] IN
             IF w = NoWatch THEN t \in runner.quiet \/ listener[l].heard = FinalVersion
             ELSE watch[w].last \in {Unread, listener[l].heard}
  BY <1>1, KindsApart DEF FrameInv, NewsReaches, Granted, Tells, WillHear, CaughtUp
<1>2. FrameInv => WatchersHearTheNews
  BY <1>1 DEF WatchersHearTheNews
<1>3. QED
  BY <1>2 DEF FrameInv, FrameTypes, FrameTypeOK

\* However many callbacks and tasks there are, and in whatever order the messages
\* and the answers of polls arrive: a granted callback has heard what the host
\* posted last, once nothing is posted, and the guard's slots are the watches that
\* run (task-watch.ts, start, poll and end).
THEOREM TheNewsAreHeard == FrameSpec => [](WatchersHearTheNews /\ SlotsAreWatches)
BY FrameIsRight, FrameInvariance, PTL

\* What a step does to what a callback has heard: nothing before its call.
NothingHeardYet == \A l \in Listeners : listener[l].call = "unused" => listener[l].heard = 0

HearsOn(l) ==
    \/ listener'[l] = NotWatching /\ ~runner'.live
    \/ listener[l].call = "unused" /\ listener'[l].heard = 0 /\ listener'[l].call = "pending"
    \/ /\ listener'[l].heard = listener[l].heard
       /\ listener'[l].call = "unused" => listener[l].call = "unused"
    \/ /\ listener'[l].heard >= listener[l].heard
       /\ listener'[l].call # "unused"

LEMMA CallbacksHearOn == ASSUME FrameInv, [FrameNext]_frameVars, NEW l \in Listeners PROVE HearsOn(l)
<1>1. listener \in [Listeners -> Callback] /\ listener[l] \in Callback
  BY DEF FrameInv, FrameTypes
<1>2. ASSUME listener' = listener PROVE HearsOn(l)
  BY <1>2 DEF HearsOn
<1>3. ASSUME NEW k \in Listeners, NEW t \in Tasks, WatchCall(k, t) PROVE HearsOn(l)
  BY <1>3, <1>1 DEF WatchCall, HearsOn
<1>4. ASSUME NEW k \in Listeners, StopCallback(k) \/ CallTimesOut(k) PROVE HearsOn(l)
  BY <1>4, <1>1 DEF StopCallback, CallTimesOut, Rejected, HearsOn, Callback
<1>5. ASSUME HandleReply PROVE HearsOn(l)
  <2> DEFINE k == Head(toFrame).by
  <2>1. \/ listener' = listener
        \/ listener' = [listener EXCEPT ![k].call = "settled"]
        \/ listener' = [listener EXCEPT ![k].call = "settled", ![k].member = FALSE]
    BY <1>5 DEF HandleReply, Rejected
  <2> HIDE DEF k
  <2>2. QED
    BY <1>1, <2>1 DEF HearsOn, Callback
<1>6. ASSUME HandleTaskEvent PROVE HearsOn(l)
  <2>1. CASE listener[l].member /\ Tells(1, listener[l].task)
    BY <1>6, <2>1, NewsHeard, <1>1, FrameAssumption DEF FrameHandles, FrameInv, CallsKnown,
       NewsInOrder, Callback, News, HearsOn
  <2>2. CASE ~(listener[l].member /\ Tells(1, listener[l].task))
    BY <1>6, <2>2, NewsHeard DEF HearsOn
  <2>3. QED
    BY <2>1, <2>2
<1>7. ASSUME StopRunner PROVE HearsOn(l)
  BY <1>7 DEF StopRunner, HearsOn
<1>8. ASSUME HandleWatch \/ HandleUnwatch \/ RefuseRequest PROVE listener' = listener
  BY <1>8 DEF HandleWatch, HandleUnwatch, RefuseRequest
<1>9. ASSUME NEW t \in Tasks, PollTick(t) \/ PollFindsTimeUp(t) \/ TaskMovesOn(t) PROVE listener' = listener
  BY <1>9 DEF PollTick, PollFindsTimeUp, TaskMovesOn
<1>10. ASSUME NEW w \in WatchIds, ServerReadsTask(w) \/ PollAnswered(w) \/ PollFails(w) PROVE listener' = listener
  BY <1>10 DEF ServerReadsTask, PollAnswered, PollFails
<1>11. CASE UNCHANGED frameVars
  BY <1>2, <1>11 DEF frameVars
<1>12. QED
  BY <1>2, <1>3, <1>4, <1>5, <1>6, <1>7, <1>8, <1>9, <1>10, <1>11 DEF FrameNext

LEMMA NothingHeardFirst == FrameInit => NothingHeardYet
BY DEF FrameInit, NothingHeardYet, NotWatching

LEMMA NothingHeardStill == FrameInv /\ NothingHeardYet /\ [FrameNext]_frameVars => NothingHeardYet'
<1> SUFFICES ASSUME FrameInv, NothingHeardYet, [FrameNext]_frameVars, NEW l \in Listeners,
                    listener'[l].call = "unused"
             PROVE  listener'[l].heard = 0
  BY DEF NothingHeardYet
<1>1. HearsOn(l)
  BY CallbacksHearOn
<1>2. QED
  BY <1>1 DEF HearsOn, NothingHeardYet, NotWatching

\* However watches of a task end, start again and are polled out of order, no
\* step brings a callback an older version than one it has heard.
LEMMA StepsHearOn == FrameInv /\ NothingHeardYet /\ [FrameNext]_frameVars => NeverHearsOlder
<1> SUFFICES ASSUME FrameInv, NothingHeardYet, [FrameNext]_frameVars, runner'.live, NEW l \in Listeners
             PROVE  listener'[l].heard >= listener[l].heard
  BY DEF NeverHearsOlder
<1>1. HearsOn(l) /\ listener[l].heard \in Nat
  BY CallbacksHearOn, FrameAssumption DEF FrameInv, FrameTypes, Callback
<1>2. QED
  BY <1>1 DEF HearsOn, NothingHeardYet

THEOREM NothingOlderIsHeard == FrameSpec => [][NeverHearsOlder]_frameVars
<1>1. FrameSpec => []NothingHeardYet
  BY NothingHeardFirst, NothingHeardStill, FrameInvariance, PTL DEF FrameSpec
<1>2. QED
  BY <1>1, StepsHearOn, FrameInvariance, PTL DEF FrameSpec

-----------------------------------------------------------------------------
(* Connections.  ConnectionsInv is the inductive invariant: what a value in the*)
(* cache, in a lookup and in a waiting call is worth, whatever is saved and*)
(* rotated meanwhile.                                                      *)

ServedType == served \in [floor: [Settings -> Changes], failed: [Settings -> Nat],
                          changed: [Settings -> [Changes -> Times]], pressed: BOOLEAN]

\* A value that was the secret's at some moment since: if it has been replaced,
\* then not before.
HeldSince(v, since) ==
    /\ v.of \in Settings
    /\ v.change <= secret[v.of]
    /\ v.change < secret[v.of] => served.changed[v.of][v.change + 1] >= since

FloorOK == \A s \in Settings : served.floor[s] <= secret[s]

CacheOK ==
    cached.value.of # 0 =>
        /\ HeldSince(cached.value, cached.expires - Ttl)
        /\ cached.value.change >= served.floor[cached.value.of]
        /\ cached.expires <= time + Ttl

LookupOK(l) ==
    LET e == lookup[l] IN
    /\ e.pc = "idle" => e.of = 0
    /\ e.pc # "idle" =>
          /\ e.of \in Settings /\ e.started <= time /\ time <= e.started + RpcTimeout
          /\ e.generation <= generation
          /\ \E r \in Requests : request[r].waits = l /\ request[r].generation = e.generation
    /\ e.pc = "read" =>
          /\ e.value.of = e.of /\ HeldSince(e.value, e.started)
          /\ e.generation = generation => e.value.change >= served.floor[e.of]

\* A call waits for a lookup of its own settings that cannot bring a value
\* too old for it; one that goes on has such a value.
RequestOK(q) ==
    /\ q.pc # "idle" => q.of \in Settings
    /\ q.waits # NoLookup =>
          LET e == lookup[q.waits] IN
          /\ q.pc = "secret" /\ e.pc # "idle" /\ e.of = q.of /\ e.generation = q.generation
          /\ e.pc = "asked" => q.floor <= secret[q.of] /\ q.oldest <= secret[q.of]
          /\ e.pc = "read" => q.floor <= e.value.change /\ q.oldest <= e.value.change
    /\ q.pc = "send" => q.value.of = q.of /\ q.value.change >= q.floor /\ q.value.change >= q.oldest

\* Calls and checks back off from a failed lookup as long as it asks for.
FailureOK ==
    /\ failure.callUntil <= failure.availableUntil
    /\ failure.callUntil <= time + CallRetry
    /\ \A s \in Settings : served.failed[s] <= failure.callUntil \/ served.failed[s] <= time
    /\ ~served.pressed

ConnectionsInv ==
    /\ ConnectionsTypeOK /\ ServedType /\ FloorOK /\ CacheOK /\ FailureOK
    /\ \A l \in Lookups : LookupOK(l)
    /\ \A r \in Requests : RequestOK(request[r])

-----------------------------------------------------------------------------
LEMMA LeastNatural ==
    ASSUME NEW T \in SUBSET Nat, T # {}
    PROVE  \E n \in T : \A k \in T : n <= k
<1> DEFINE R == OpToRel(<, Nat)
<1>1. IsWellFoundedOn(R, Nat)
  BY NatLessThanWellFounded
<1>2. \A x, y \in Nat : x < y => <<x, y>> \in R
  BY DEF OpToRel
<1> HIDE DEF R
<1>3. \E n \in T : \A k \in T : ~ (<<k, n>> \in R)
  BY <1>1, WFMin
<1>4. ASSUME NEW n \in T, NEW k \in T, ~ (<<k, n>> \in R)
      PROVE  n <= k
  BY <1>2, <1>4
<1>5. QED
  BY <1>3, <1>4, Zenon

LEMMA ConnectionNumbers ==
    /\ Ttl \in Nat /\ CallRetry \in Nat /\ RpcTimeout \in Nat /\ MaxSaves \in Nat
    /\ MaxRotations \in Nat /\ MaxTime \in Nat /\ CallRetry <= Ttl /\ RpcTimeout < Ttl
    /\ Times \subseteq Nat /\ Changes \subseteq Nat /\ Deadlines \subseteq Nat
    /\ Settings \subseteq Nat /\ 0 \notin Settings /\ 0 \in 0..(MaxSaves + 1)
    /\ Settings \subseteq 0..(MaxSaves + 1)
    /\ 0 \in Times /\ 0 \in Changes /\ 0 \in Deadlines
BY ConnectionsAssumption DEF Times, Changes, Deadlines, Settings

LEMMA ConnectionRecords ==
    NotAsking \in Request /\ NotRunning \in Running /\ NotFailing \in Failing /\ NotCached \in Entry
BY ConnectionNumbers DEF NotAsking, NotRunning, NotFailing, NotCached, NoValue, Request, Running,
               Failing, Entry, ValueOf, Settings, Times, Changes, Deadlines

LEMMA RunningTypes ==
    ASSUME NEW e \in Running
    PROVE  /\ e.started \in Nat /\ e.started \in Int /\ e.generation \in Nat
           /\ e.value \in ValueOf /\ e.value.change \in Nat
BY ConnectionsAssumption DEF Running, ValueOf, Changes, Times

\* What a call that turns to the cache notes: the value at the last save, and
\* the oldest value that was not replaced Ttl ago, which every value that was
\* held less than Ttl ago is not older than.
LEMMA OldestKept ==
    ASSUME ConnectionsInv, NEW r \in Requests, Asking(r)
    PROVE  LET q == Turned(r)  s == request[r].of IN
           /\ q \in Request /\ q.pc = "secret" /\ q.kind = request[r].kind /\ q.of = s
           /\ q.waits = NoLookup /\ s \in Settings
           /\ q.generation = generation /\ q.floor = served.floor[s]
           /\ q.oldest \in 0..secret[s]
           /\ \A v \in ValueOf, t \in Int :
                 v.of = s /\ HeldSince(v, t) /\ t + Ttl > time => q.oldest <= v.change
<1> DEFINE s == request[r].of
           Young(n) == n = secret[s] \/ served.changed[s][n + 1] + Ttl > time
           T == {n \in 0..secret[s] : Young(n)}
           Oldest(n) == Young(n) /\ \A k \in 0..(n - 1) : served.changed[s][k + 1] + Ttl <= time
           oldest == CHOOSE n \in 0..secret[s] : Oldest(n)
<1>1. /\ request[r] \in Request /\ request[r].pc = "secret" /\ request[r].waits = NoLookup
      /\ s \in Settings
  BY DEF ConnectionsInv, ConnectionsTypeOK, Asking, At, RequestOK
<1>2. /\ secret[s] \in Changes /\ secret[s] \in Nat /\ time \in Nat /\ generation \in 0..MaxSaves
      /\ served.floor[s] \in Changes
      /\ \A k \in 0..(secret[s] - 1) : served.changed[s][k + 1] \in Nat
  <2>1. /\ secret[s] \in Changes /\ time \in Times /\ generation \in 0..MaxSaves
        /\ served.floor[s] \in Changes /\ served.changed[s] \in [Changes -> Times]
    BY <1>1 DEF ConnectionsInv, ConnectionsTypeOK, ServedType
  <2>2. \A k \in 0..(secret[s] - 1) : k + 1 \in Changes
    <3>1. PICK top : top = secret[s]
      OBVIOUS
    <3>2. top \in 0..MaxRotations /\ MaxRotations \in Nat
      BY <2>1, <3>1, ConnectionNumbers DEF Changes
    <3>3. \A k \in 0..(top - 1) : k + 1 \in 0..MaxRotations
      BY <3>2
    <3>4. QED
      BY <3>1, <3>3 DEF Changes
  <2>3. QED
    BY <2>1, <2>2, ConnectionNumbers
<1>3. \E n \in 0..secret[s] : Oldest(n)
  <2>1. T \in SUBSET Nat /\ secret[s] \in T
    BY <1>2
  <2>2. PICK n \in T : \A k \in T : n <= k
    BY <2>1, LeastNatural
  <2>3. ASSUME NEW k \in 0..(n - 1)
        PROVE  served.changed[s][k + 1] + Ttl <= time
    BY <1>2, <2>2, ConnectionNumbers
  <2>4. QED
    BY <2>2, <2>3
<1> HIDE DEF Oldest
<1>4. oldest \in 0..secret[s] /\ Oldest(oldest)
  BY <1>3
<1>5. Turned(r) = [request[r] EXCEPT !.generation = generation, !.floor = served.floor[s], !.oldest = oldest]
  BY DEF Turned, Oldest
<1> HIDE DEF oldest
<1>6. oldest \in Changes
  BY <1>2, <1>4, ConnectionNumbers DEF Changes
<1>7. ASSUME NEW v \in ValueOf, NEW t \in Int, v.of = s, HeldSince(v, t), t + Ttl > time
      PROVE  oldest <= v.change
  <2>1. v.change \in Nat
    BY ConnectionNumbers DEF ValueOf
  <2>2. CASE v.change >= secret[s]
    BY <1>2, <1>4, <2>1, <2>2
  <2>3. CASE v.change < secret[s]
    BY <1>2, <1>7, <2>1, <2>3, ConnectionNumbers, <1>4 DEF HeldSince, Oldest
  <2>4. QED
    BY <1>2, <2>1, <2>2, <2>3
<1>8. Turned(r) \in Request
  BY <1>1, <1>2, <1>5, <1>6 DEF Request
<1>9. QED
  BY <1>1, <1>4, <1>5, <1>7, <1>8 DEF Request

-----------------------------------------------------------------------------
(* Steps of a call or a check                                              *)

\* The lookups that a call does not wait for keep those that do.
LEMMA WaitersStay ==
    ASSUME ConnectionsInv, NEW r \in Requests, request[r].waits = NoLookup,
           NEW q \in Request, request' = [request EXCEPT ![r] = q],
           NEW l \in Lookups, lookup[l].pc # "idle"
    PROVE  \E b \in Requests : request'[b].waits = l /\ request'[b].generation = lookup[l].generation
BY ConnectionsAssumption DEF ConnectionsInv, LookupOK, ConnectionsTypeOK

LEMMA RequestMoves ==
    ASSUME ConnectionsInv, NEW r \in Requests, request[r].waits = NoLookup,
           NEW q \in Request, request' = [request EXCEPT ![r] = q], RequestOK(q),
           UNCHANGED <<setting, secret, cached, inflight, lookup, generation, time, served>>,
           failure' \in Failing, FailureOK'
    PROVE  ConnectionsInv'
<1> USE DEF ConnectionsInv
<1>1. ConnectionsTypeOK' /\ ServedType'
  BY DEF ConnectionsTypeOK, ServedType
<1>2. FloorOK' /\ CacheOK'
  BY DEF FloorOK, CacheOK, HeldSince
<1>3. ASSUME NEW l \in Lookups
      PROVE  LookupOK(l)'
  <2>1. LookupOK(l)
    OBVIOUS
  <2>2. lookup[l].pc # "idle" => \E b \in Requests :
            request'[b].waits = l /\ request'[b].generation = lookup[l].generation
    BY WaitersStay
  <2>3. QED
    BY <2>1, <2>2 DEF LookupOK, HeldSince
<1>4. ASSUME NEW b \in Requests
      PROVE  RequestOK(request[b])'
  BY DEF ConnectionsTypeOK, RequestOK
<1>5. QED
  BY <1>1, <1>2, <1>3, <1>4

LEMMA AskingFits ==
    ASSUME ConnectionsInv, NEW r \in Requests, Asking(r), ~BacksOff(r)
    PROVE  \A s \in Settings : served.failed[s] <= time
<1>1. failure \in Failing /\ FailureOK /\ served.failed \in [Settings -> Nat] /\ time \in Nat
  BY ConnectionNumbers DEF ConnectionsInv, ConnectionsTypeOK, ServedType
<1>2. failure.callUntil \in Nat /\ failure.availableUntil \in Nat
  BY <1>1, ConnectionNumbers DEF Failing
<1>3. failure.callUntil <= time
  BY <1>1, <1>2 DEF BacksOff, FailureOK
<1>4. QED
  BY <1>1, <1>2, <1>3 DEF FailureOK

LEMMA NotAskingOK == RequestOK(NotAsking)
BY DEF RequestOK, NotAsking

LEMMA RequestEnds ==
    ASSUME ConnectionsInv, NEW r \in Requests,
           ReadConfig(r, "check") \/ ReadConfig(r, "call") \/ BackOff(r) \/ Fetch(r) \/ CallFails(r)
    PROVE  ConnectionsInv'
<1>1. request[r] \in Request /\ RequestOK(request[r]) /\ setting \in Settings
  BY DEF ConnectionsInv, ConnectionsTypeOK
<1>2. request[r].waits = NoLookup
  BY <1>1 DEF At, RequestOK, ReadConfig, BackOff, Fetch, CallFails, Asking
<1>3. failure' \in Failing /\ FailureOK'
  BY DEF ConnectionsInv, ConnectionsTypeOK, FailureOK, ReadConfig, BackOff, Fetch, CallFails
<1>4. ASSUME NEW kind \in {"check", "call"}, ReadConfig(r, kind)
      PROVE  ConnectionsInv'
  <2> DEFINE q == [NotAsking EXCEPT !.pc = "secret", !.kind = kind, !.of = setting]
  <2>1. q \in Request /\ RequestOK(q)
    BY <1>1, ConnectionNumbers, ConnectionRecords DEF NotAsking, Request, RequestOK
  <2>2. QED
    BY <1>2, <1>3, <1>4, <2>1, RequestMoves DEF ReadConfig
<1>5. CASE BackOff(r) \/ Fetch(r) \/ CallFails(r)
  BY <1>2, <1>3, <1>5, NotAskingOK, ConnectionRecords, RequestMoves DEF BackOff, Fetch, CallFails
<1>6. QED
  BY <1>4, <1>5

LEMMA CacheKnown ==
    ASSUME ConnectionsInv, NEW r \in Requests, FindCached(r)
    PROVE  ConnectionsInv'
<1> DEFINE t == Turned(r)
           a == [t EXCEPT !.value = cached.value]
           q == AfterSecret(a)
<1>1. /\ t \in Request /\ t.pc = "secret" /\ t.of = request[r].of /\ t.waits = NoLookup /\ t.of \in Settings
      /\ t.floor = served.floor[t.of]
      /\ \A v \in ValueOf, since \in Int :
            v.of = t.of /\ HeldSince(v, since) /\ since + Ttl > time => t.oldest <= v.change
  BY OldestKept DEF FindCached
<1>2. /\ cached.value \in ValueOf /\ cached.expires \in Nat /\ time \in Nat
      /\ cached.value.of = t.of /\ cached.expires > time
  BY <1>1, ConnectionNumbers DEF ConnectionsInv, ConnectionsTypeOK, Entry, FindCached, Fresh
<1> HIDE DEF t
<1>3. HeldSince(cached.value, cached.expires - Ttl) /\ cached.value.change >= t.floor
  BY <1>1, <1>2, ConnectionNumbers DEF ConnectionsInv, CacheOK
<1>4. t.oldest <= cached.value.change
  BY <1>2, ConnectionNumbers, <1>1, <1>3
<1>5. /\ a \in Request /\ a.pc = "secret" /\ a.of = t.of /\ a.value = cached.value
      /\ a.floor = t.floor /\ a.oldest = t.oldest /\ a.waits = NoLookup
  BY <1>1, <1>2 DEF Request
<1> HIDE DEF a
<1>6. q \in Request /\ RequestOK(q)
  <2>1. CASE a.kind = "check"
    BY <2>1, ConnectionRecords, NotAskingOK DEF AfterSecret
  <2>2. CASE a.kind # "check"
    <3>1. q = [a EXCEPT !.pc = "send", !.waits = NoLookup]
      BY <2>2 DEF AfterSecret
    <3>2. /\ q \in Request /\ q.pc = "send" /\ q.waits = NoLookup /\ q.of = a.of
          /\ q.value = a.value /\ q.floor = a.floor /\ q.oldest = a.oldest
      BY <1>5, <3>1 DEF Request
    <3> HIDE DEF q
    <3>3. RequestOK(q)
      BY <1>1, <1>2, <1>3, <1>4, <1>5, <3>2 DEF RequestOK
    <3>4. QED
      BY <3>2, <3>3
  <2>3. QED
    BY <2>1, <2>2
<1>7. failure' \in Failing /\ FailureOK'
  BY AskingFits, <1>2, ConnectionNumbers, ConnectionRecords DEF FindCached, ConnectionsInv,
     FailureOK, NotFailing
<1>8. QED
  <2>1. request[r].waits = NoLookup /\ request' = [request EXCEPT ![r] = q]
    BY DEF FindCached, Asking, a, t
  <2>2. UNCHANGED <<setting, secret, cached, inflight, lookup, generation, time, served>>
    BY DEF FindCached
  <2> HIDE DEF q
  <2>3. QED
    BY <1>6, <1>7, <2>1, <2>2, RequestMoves

LEMMA JoinKnown ==
    ASSUME ConnectionsInv, NEW r \in Requests, JoinLookup(r)
    PROVE  ConnectionsInv'
<1> DEFINE t == Turned(r)
           l == inflight
           q == [t EXCEPT !.waits = l]
<1>1. /\ t \in Request /\ t.pc = "secret" /\ t.of = request[r].of /\ t.of \in Settings
      /\ t.floor = served.floor[t.of] /\ t.oldest \in 0..secret[t.of] /\ t.generation = generation
      /\ \A v \in ValueOf, since \in Int :
            v.of = t.of /\ HeldSince(v, since) /\ since + Ttl > time => t.oldest <= v.change
  BY OldestKept DEF JoinLookup
<1>2. request[r].waits = NoLookup /\ request' = [request EXCEPT ![r] = q]
  BY DEF JoinLookup, Asking
<1> HIDE DEF t
<1>3. l \in Lookups /\ lookup[l].of = t.of /\ lookup[l].generation = generation
  BY <1>1 DEF ConnectionsInv, ConnectionsTypeOK, JoinLookup, Joinable
<1>4. lookup[l] \in Running /\ LookupOK(l) /\ lookup[l].pc # "idle"
  BY <1>1, <1>3, ConnectionNumbers DEF ConnectionsInv, ConnectionsTypeOK, LookupOK
<1>5. /\ q \in Request /\ q.pc = "secret" /\ q.of = t.of /\ q.waits = l /\ q.floor = t.floor
      /\ q.oldest = t.oldest /\ q.generation = t.generation
  BY <1>1, <1>3 DEF Request
<1> HIDE DEF q
<1>6. t.floor <= secret[t.of] /\ t.oldest <= secret[t.of]
  BY <1>1 DEF ConnectionsInv, FloorOK
<1>7. ASSUME lookup[l].pc = "read"
      PROVE  t.floor <= lookup[l].value.change /\ t.oldest <= lookup[l].value.change
  <2>1. /\ lookup[l].value \in ValueOf /\ lookup[l].started \in Int /\ time \in Nat
        /\ time <= lookup[l].started + RpcTimeout /\ HeldSince(lookup[l].value, lookup[l].started)
        /\ lookup[l].value.of = t.of /\ lookup[l].value.change >= t.floor
        /\ lookup[l].value.change \in Nat /\ t.floor \in Nat
    <3>1. lookup[l].value \in ValueOf /\ lookup[l].started \in Times /\ time \in Times
      BY <1>4 DEF Running, ConnectionsInv, ConnectionsTypeOK
    <3>2. lookup[l].value.change \in Nat /\ t.floor \in Nat
      BY <1>1, <3>1, ConnectionNumbers DEF ValueOf, ConnectionsInv, ServedType
    <3>3. /\ time <= lookup[l].started + RpcTimeout
          /\ HeldSince(lookup[l].value, lookup[l].started)
          /\ lookup[l].value.of = t.of /\ lookup[l].value.change >= t.floor
      BY <1>1, <1>3, <1>4, <1>7 DEF LookupOK
    <3>4. lookup[l].started \in Nat /\ time \in Nat
      BY <3>1, ConnectionNumbers
    <3>5. QED
      BY <3>1, <3>2, <3>3, <3>4
  <2>2. lookup[l].started + Ttl > time
    BY <2>1, ConnectionNumbers
  <2>3. QED
    BY <1>1, <2>1, <2>2
<1>8. RequestOK(q)
  BY <1>1, <1>3, <1>4, <1>5, <1>6, <1>7 DEF RequestOK, Running
<1>9. failure' \in Failing /\ FailureOK'
  BY DEF ConnectionsInv, ConnectionsTypeOK, FailureOK, JoinLookup
<1>10. QED
  BY <1>2, <1>5, <1>8, <1>9, RequestMoves DEF JoinLookup

LEMMA StartKnown ==
    ASSUME ConnectionsInv, NEW r \in Requests, StartLookup(r)
    PROVE  ConnectionsInv'
<1> DEFINE t == Turned(r)
<1>1. /\ t \in Request /\ t.pc = "secret" /\ t.of = request[r].of /\ t.of \in Settings
      /\ t.floor = served.floor[t.of] /\ t.oldest \in 0..secret[t.of] /\ t.generation = generation
  BY OldestKept DEF StartLookup
<1>2. PICK l \in Lookups :
        /\ lookup[l].pc = "idle"
        /\ lookup' = [lookup EXCEPT ![l] = [NotRunning EXCEPT !.pc = "asked",
                            !.of = request[r].of, !.generation = generation, !.started = time]]
        /\ inflight' = l
        /\ request' = [request EXCEPT ![r] = [t EXCEPT !.waits = l]]
        /\ served' = [served EXCEPT !.pressed = @ \/ time < served.failed[request[r].of]]
  BY DEF StartLookup
<1>3. /\ request[r].waits = NoLookup /\ Asking(r) /\ ~BacksOff(r)
      /\ UNCHANGED <<setting, secret, cached, failure, generation, time>>
  BY DEF StartLookup, Asking
<1> HIDE DEF t
<1> DEFINE q == [t EXCEPT !.waits = l]
           e == [NotRunning EXCEPT !.pc = "asked", !.of = t.of, !.generation = generation, !.started = time]
<1>4. /\ q \in Request /\ q.pc = "secret" /\ q.of = t.of /\ q.waits = l /\ q.floor = t.floor
      /\ q.oldest = t.oldest /\ q.generation = generation
  BY <1>1 DEF Request
<1>5. /\ e \in Running /\ e.pc = "asked" /\ e.of = t.of /\ e.generation = generation
      /\ e.started = time
  BY <1>1, ConnectionNumbers, ConnectionRecords DEF NotRunning, Running, ConnectionsInv, ConnectionsTypeOK
<1>6. lookup' = [lookup EXCEPT ![l] = e] /\ request' = [request EXCEPT ![r] = q]
  BY <1>1, <1>2
<1> HIDE DEF q, e
<1>7. served' = served
  BY <1>1, <1>3, AskingFits, ConnectionNumbers, <1>2 DEF ConnectionsInv, ConnectionsTypeOK,
     ServedType, FailureOK
<1>8. ConnectionsTypeOK' /\ ServedType'
  <2>1. lookup' \in [Lookups -> Running] /\ request' \in [Requests -> Request]
    BY <1>4, <1>5, <1>6 DEF ConnectionsInv, ConnectionsTypeOK
  <2>2. QED
    BY <1>2, <1>3, <1>7, <2>1 DEF ConnectionsInv, ConnectionsTypeOK, ServedType
<1>9. FloorOK' /\ CacheOK' /\ FailureOK'
  BY <1>3, <1>7 DEF ConnectionsInv, FloorOK, CacheOK, HeldSince, FailureOK
<1>10. ASSUME NEW k \in Lookups
       PROVE  LookupOK(k)'
  <2>1. CASE k = l
    BY <1>6, <2>1, <1>3, <1>5, ConnectionNumbers, <1>1, <1>4 DEF ConnectionsInv,
       ConnectionsTypeOK, LookupOK
  <2>2. CASE k # l
    BY <1>6, <2>2, <1>3, <1>4, WaitersStay, <1>7 DEF ConnectionsInv, ConnectionsTypeOK,
       LookupOK, HeldSince
  <2>3. QED
    BY <2>1, <2>2
<1>11. ASSUME NEW b \in Requests
       PROVE  RequestOK(request[b])'
  BY <1>6, <1>1, <1>3, <1>4, <1>5, <1>2 DEF ConnectionsInv, ConnectionsTypeOK, FloorOK,
     RequestOK, Request
<1>12. QED
  BY <1>8, <1>9, <1>10, <1>11 DEF ConnectionsInv

-----------------------------------------------------------------------------
(* A lookup settles: every call that waited for it goes on or ends         *)

LEMMA Settles ==
    ASSUME ConnectionsInv, NEW l \in Lookups, Settled(l),
           request' \in [Requests -> Request],
           \A r \in Requests \ Waiting(l) : request'[r] = request[r],
           \A r \in Waiting(l) : request'[r].waits = NoLookup /\ RequestOK(request'[r]),
           UNCHANGED <<setting, secret, generation, time>>,
           served' = [served EXCEPT !.failed = served'.failed], served'.failed \in [Settings -> Nat],
           cached' \in Entry, CacheOK', failure' \in Failing, FailureOK'
    PROVE  ConnectionsInv'
<1>1. /\ served'.floor = served.floor /\ served'.changed = served.changed
      /\ served'.pressed = served.pressed /\ ServedType'
  BY DEF ConnectionsInv, ServedType
<1>2. /\ lookup' = [lookup EXCEPT ![l] = NotRunning]
      /\ inflight' \in Lookups \cup {NoLookup}
  BY DEF Settled, ConnectionsInv, ConnectionsTypeOK
<1>3. ConnectionsTypeOK'
  BY <1>2, ConnectionRecords DEF ConnectionsInv, ConnectionsTypeOK
<1>4. FloorOK'
  BY <1>1 DEF ConnectionsInv, FloorOK
<1>5. ASSUME NEW k \in Lookups
      PROVE  LookupOK(k)'
  BY <1>2, <1>1 DEF ConnectionsInv, ConnectionsTypeOK, LookupOK, NotRunning, Waiting,
     HeldSince
<1>6. ASSUME NEW b \in Requests
      PROVE  RequestOK(request[b])'
  BY <1>2 DEF RequestOK, Waiting, ConnectionsInv, ConnectionsTypeOK, Request
<1>7. QED
  BY <1>1, <1>3, <1>4, <1>5, <1>6 DEF ConnectionsInv

\* What is known of the lookup that settles.
LEMMA SettlingKnown ==
    ASSUME ConnectionsInv, NEW l \in Lookups, lookup[l].pc # "idle"
    PROVE  LET e == lookup[l] IN
           /\ e \in Running /\ e.of \in Settings /\ e.started \in Nat /\ time \in Nat
           /\ e.started <= time /\ e.generation \in Nat
           /\ e.generation = generation <=> WaitingNow(l) # {}
           /\ \A r \in Waiting(l) :
                 /\ request[r] \in Request /\ RequestOK(request[r])
                 /\ request[r].of = e.of /\ request[r].waits = l /\ l # NoLookup
BY ConnectionsAssumption, RunningTypes, ConnectionNumbers DEF ConnectionsInv,
   ConnectionsTypeOK, Waiting, RequestOK, LookupOK, WaitingNow

LEMMA AnswerKnown ==
    ASSUME ConnectionsInv, NEW l \in Lookups, LookupAnswers(l)
    PROVE  ConnectionsInv'
<1> DEFINE e == lookup[l]
           After(r) == AfterSecret([request[r] EXCEPT !.value = e.value])
<1>1. /\ e.pc = "read" /\ e \in Running /\ e.of \in Settings /\ e.started \in Nat /\ time \in Nat
      /\ e.started <= time
      /\ e.generation = generation <=> WaitingNow(l) # {}
  BY SettlingKnown DEF LookupAnswers
<1>2. e.value \in ValueOf /\ e.value.of = e.of /\ HeldSince(e.value, e.started)
      /\ (e.generation = generation => e.value.change >= served.floor[e.of])
  BY <1>1 DEF Running, ConnectionsInv, LookupOK
<1>3. ASSUME NEW r \in Waiting(l)
      PROVE  After(r) \in Request /\ After(r).waits = NoLookup /\ RequestOK(After(r))
  <2>1. /\ request[r] \in Request /\ RequestOK(request[r]) /\ request[r].of = e.of
        /\ request[r].waits = l /\ l # NoLookup
    BY <1>1, SettlingKnown
  <2>2. request[r].floor <= e.value.change /\ request[r].oldest <= e.value.change
    BY <1>1, <2>1 DEF RequestOK
  <2> DEFINE a == [request[r] EXCEPT !.value = e.value]
  <2>3. /\ a \in Request /\ a.of = e.of /\ a.value = e.value /\ a.kind = request[r].kind
        /\ a.floor = request[r].floor /\ a.oldest = request[r].oldest
    BY <1>2, <2>1 DEF Request
  <2> HIDE DEF a
  <2>4. CASE a.kind = "check"
    BY <2>4, ConnectionRecords, NotAskingOK DEF AfterSecret, NotAsking, a
  <2>5. CASE a.kind # "check"
    <3> DEFINE q == [a EXCEPT !.pc = "send", !.waits = NoLookup]
    <3>1. After(r) = q
      BY <2>5 DEF AfterSecret, a
    <3>2. /\ q \in Request /\ q.pc = "send" /\ q.waits = NoLookup /\ q.of = a.of
          /\ q.value = a.value /\ q.floor = a.floor /\ q.oldest = a.oldest
      BY <2>3 DEF Request
    <3> HIDE DEF q
    <3>3. RequestOK(q)
      BY <1>1, <1>2, <2>2, <2>3, <3>2 DEF RequestOK
    <3>4. QED
      BY <3>1, <3>2, <3>3
  <2>6. QED
    BY <2>4, <2>5
<1>4. request' = [r \in Requests |-> IF r \in Waiting(l) THEN After(r) ELSE request[r]]
  BY DEF LookupAnswers
<1> HIDE DEF After
<1>5. /\ request' \in [Requests -> Request]
      /\ \A r \in Requests \ Waiting(l) : request'[r] = request[r]
      /\ \A r \in Waiting(l) : request'[r].waits = NoLookup /\ RequestOK(request'[r])
  BY <1>3, <1>4 DEF Waiting, ConnectionsInv, ConnectionsTypeOK
<1>6. /\ UNCHANGED <<setting, secret, generation, time>> /\ Settled(l)
      /\ cached' = IF e.generation = generation
                   THEN [value |-> e.value, expires |-> e.started + Ttl] ELSE cached
      /\ failure' = IF e.generation = generation THEN NotFailing ELSE failure
      /\ served' = [served EXCEPT !.failed =
                      IF e.generation = generation THEN [s \in Settings |-> 0] ELSE @]
  BY <1>1 DEF LookupAnswers, StillCurrent, Expires
<1>7. /\ served' = [served EXCEPT !.failed = served'.failed] /\ served'.failed \in [Settings -> Nat]
      /\ served'.floor = served.floor /\ served'.changed = served.changed
      /\ served'.pressed = served.pressed
  BY <1>6 DEF ConnectionsInv, ServedType
<1>8. cached' \in Entry /\ CacheOK'
  <2>1. CASE e.generation = generation
    BY <1>1, ConnectionNumbers, <1>6, <2>1, <1>2, <1>7 DEF ConnectionsInv,
       ConnectionsTypeOK, Deadlines, Times, HeldSince, Entry, CacheOK
  <2>2. CASE e.generation # generation
    BY <1>6, <2>2, <1>7 DEF ConnectionsInv, ConnectionsTypeOK, CacheOK, HeldSince
  <2>3. QED
    BY <2>1, <2>2
<1>9. failure' \in Failing /\ FailureOK'
  BY <1>6, <1>1, <1>7, ConnectionNumbers, ConnectionRecords DEF ConnectionsInv, ServedType,
     NotFailing, FailureOK, ConnectionsTypeOK
<1>10. QED
  BY <1>5, <1>6, <1>7, <1>8, <1>9, Settles

LEMMA FailKnown ==
    ASSUME ConnectionsInv, NEW l \in Lookups, NEW limited \in BOOLEAN, LookupFails(l, limited)
    PROVE  ConnectionsInv'
<1> DEFINE e == lookup[l]
           wait == time + CallRetry
           check == time + (IF limited THEN CallRetry ELSE Ttl)
<1>1. /\ e \in Running /\ e.of \in Settings /\ time \in Nat
      /\ e.generation = generation <=> WaitingNow(l) # {}
  BY SettlingKnown DEF LookupFails
<1>2. /\ UNCHANGED <<setting, secret, cached, generation, time>> /\ Settled(l)
      /\ request' = [r \in Requests |-> IF r \in Waiting(l) THEN NotAsking ELSE request[r]]
      /\ failure' = IF e.generation = generation
                    THEN [availableUntil |-> check, callUntil |-> wait] ELSE failure
      /\ served' = [served EXCEPT !.failed[e.of] = IF e.generation = generation THEN wait ELSE @]
  BY <1>1 DEF LookupFails
<1>3. /\ request' \in [Requests -> Request]
      /\ \A r \in Requests \ Waiting(l) : request'[r] = request[r]
      /\ \A r \in Waiting(l) : request'[r].waits = NoLookup /\ RequestOK(request'[r])
  BY <1>2, NotAskingOK, ConnectionRecords DEF NotAsking, Waiting, ConnectionsInv,
     ConnectionsTypeOK
<1>4. wait \in Nat /\ wait \in Deadlines /\ check \in Deadlines /\ wait <= check
  BY <1>1, ConnectionNumbers DEF ConnectionsInv, ConnectionsTypeOK, Times, Deadlines
<1>5. /\ served' = [served EXCEPT !.failed = served'.failed] /\ served'.failed \in [Settings -> Nat]
      /\ served'.floor = served.floor /\ served'.changed = served.changed
      /\ served'.pressed = served.pressed
      /\ \A s \in Settings : s # e.of => served'.failed[s] = served.failed[s]
      /\ served'.failed[e.of] = IF e.generation = generation THEN wait ELSE served.failed[e.of]
  BY <1>1, <1>2, <1>4 DEF ConnectionsInv, ServedType
<1>6. cached' \in Entry /\ CacheOK'
  BY <1>2, <1>5 DEF ConnectionsInv, ConnectionsTypeOK, CacheOK, HeldSince
<1>7. failure' \in Failing /\ FailureOK'
  <2>1. CASE e.generation = generation
    <3>1. failure' = [availableUntil |-> check, callUntil |-> wait]
      BY <1>2, <2>1
    <3>2. failure' \in Failing /\ failure'.callUntil <= failure'.availableUntil
      BY <1>4, <3>1 DEF Failing
    <3>3. ASSUME NEW s \in Settings
          PROVE  served'.failed[s] <= wait
      <4>1. served.failed[s] <= failure.callUntil \/ served.failed[s] <= time
        BY DEF ConnectionsInv, FailureOK
      <4>2. failure.callUntil <= wait /\ failure.callUntil \in Nat /\ served.failed[s] \in Nat
        BY ConnectionNumbers DEF ConnectionsInv, ConnectionsTypeOK, ServedType, FailureOK, Failing
      <4>3. served.failed[s] <= wait
        BY <1>1, <1>4, <4>1, <4>2, ConnectionNumbers
      <4>4. QED
        BY <1>4, <1>5, <2>1, <4>3
    <3>4. QED
      BY <1>2, <1>4, <1>5, <3>1, <3>2, <3>3 DEF ConnectionsInv, FailureOK
  <2>2. CASE e.generation # generation
    BY <1>2, <1>5, <2>2 DEF ConnectionsInv, ConnectionsTypeOK, FailureOK
  <2>3. QED
    BY <2>1, <2>2
<1>8. QED
  BY <1>2, <1>3, <1>5, <1>6, <1>7, Settles

-----------------------------------------------------------------------------
(* The core saves, rotates, answers, and time passes                       *)

LEMMA NextChange ==
    ASSUME ConnectionsInv, NEW s \in Settings, NEW n \in Nat, n < secret[s]
    PROVE  n + 1 \in Changes
BY ConnectionsAssumption DEF ConnectionsInv, ConnectionsTypeOK, Changes

LEMMA RotateKnown ==
    ASSUME ConnectionsInv, NEW s \in Settings, RotateSecret(s)
    PROVE  ConnectionsInv'
<1>1. secret[s] \in Nat /\ secret[s] + 1 \in Changes /\ time \in Times /\ time \in Nat
  BY ConnectionNumbers DEF ConnectionsInv, ConnectionsTypeOK, RotateSecret, Changes
<1>2. /\ secret' \in [Settings -> Changes] /\ secret'[s] = secret[s] + 1
      /\ \A k \in Settings : secret[k] \in Nat /\ secret[k] <= secret'[k]
                             /\ (k # s => secret'[k] = secret[k])
  BY <1>1, ConnectionNumbers DEF ConnectionsInv, ConnectionsTypeOK, RotateSecret
<1>3. /\ ServedType' /\ served'.floor = served.floor /\ served'.failed = served.failed
      /\ served'.pressed = served.pressed
      /\ served'.changed[s][secret[s] + 1] = time
      /\ \A k \in Settings, n \in Changes :
            <<k, n>> # <<s, secret[s] + 1>> => served'.changed[k][n] = served.changed[k][n]
  BY <1>1 DEF ConnectionsInv, ServedType, RotateSecret
<1>4. UNCHANGED <<setting, cached, inflight, lookup, failure, generation, request, time>>
  BY DEF RotateSecret
<1>5. ASSUME NEW v \in ValueOf, NEW since \in Int, since <= time, HeldSince(v, since)
      PROVE  HeldSince(v, since)'
  <2>1. v.of \in Settings /\ v.change \in Nat /\ v.change <= secret[v.of]
    BY <1>5, ConnectionNumbers DEF HeldSince, ValueOf
  <2>2. CASE v.of = s /\ v.change = secret[s]
    BY <1>1, <1>2, <1>3, <1>5, <2>1, <2>2 DEF HeldSince
  <2>3. CASE v.of # s
    BY <1>2, <2>1, <2>3, NextChange, <1>3, <1>5 DEF HeldSince
  <2>4. CASE v.of = s /\ v.change < secret[s]
    BY <1>1, <2>1, <2>4, NextChange, <1>3, <1>2, <1>5 DEF HeldSince
  <2>5. QED
    BY <1>1, <2>1, <2>2, <2>3, <2>4
<1>6. ConnectionsTypeOK'
  BY <1>2, <1>4 DEF ConnectionsInv, ConnectionsTypeOK
<1>7. FloorOK' /\ FailureOK'
  <2>1. \A k \in Settings : served.floor[k] \in Nat
    BY ConnectionNumbers DEF ConnectionsInv, ServedType
  <2>2. QED
    BY <1>2, <1>3, <1>4, <2>1 DEF ConnectionsInv, FloorOK, FailureOK
<1>8. CacheOK'
  <2>1. ASSUME cached.value.of # 0
        PROVE  HeldSince(cached.value, cached.expires - Ttl)'
    <3>1. /\ cached.value \in ValueOf /\ cached.expires \in Nat
          /\ HeldSince(cached.value, cached.expires - Ttl) /\ cached.expires <= time + Ttl
      BY <2>1, ConnectionNumbers DEF ConnectionsInv, ConnectionsTypeOK, CacheOK, Entry
    <3>2. cached.expires - Ttl \in Int /\ cached.expires - Ttl <= time
      BY <1>1, <3>1, ConnectionNumbers
    <3>3. PICK v \in ValueOf, since \in Int : v = cached.value /\ since = cached.expires - Ttl
      BY <3>1, <3>2
    <3>4. HeldSince(v, since)'
      BY <1>5, <3>1, <3>2, <3>3
    <3>5. QED
      BY <1>4, <3>3, <3>4 DEF HeldSince
  <2>2. QED
    BY <1>3, <1>4, <2>1 DEF ConnectionsInv, CacheOK
<1>9. ASSUME NEW l \in Lookups
      PROVE  LookupOK(l)'
  BY RunningTypes, <1>5, <1>4, <1>3 DEF ConnectionsInv, ConnectionsTypeOK, LookupOK,
     HeldSince
<1>10. ASSUME NEW r \in Requests
       PROVE  RequestOK(request[r])'
  <2>1. RequestOK(request[r]) /\ request[r] \in Request
    BY DEF ConnectionsInv, ConnectionsTypeOK
  <2>2. request[r].floor \in Nat /\ request[r].oldest \in Nat
    BY <2>1, ConnectionNumbers DEF Request
  <2>3. QED
    BY <1>2, <1>4, <2>1, <2>2 DEF RequestOK
<1>11. QED
  BY <1>3, <1>6, <1>7, <1>8, <1>9, <1>10 DEF ConnectionsInv

LEMMA SaveKnown ==
    ASSUME ConnectionsInv, SaveSettings
    PROVE  ConnectionsInv'
<1>1. setting' \in Settings
  BY ConnectionsAssumption DEF ConnectionsInv, ConnectionsTypeOK, SaveSettings, Settings
<1>2. UNCHANGED <<secret, cached, inflight, lookup, failure, generation, request, time, served>>
  BY DEF SaveSettings
<1>3. QED
  BY SMTT(20), <1>1, <1>2
     DEF ConnectionsInv, ConnectionsTypeOK, ServedType, FloorOK, CacheOK, FailureOK, LookupOK,
         RequestOK, HeldSince

\* The worker is told: nothing from before is kept, neither in the cache nor
\* by a lookup that is under way.
LEMMA ToldKnown ==
    ASSUME ConnectionsInv, ConfigChanged
    PROVE  ConnectionsInv'
<1>1. /\ generation \in 0..MaxSaves /\ generation' = generation + 1 /\ generation' \in 0..MaxSaves
      /\ cached' = NotCached /\ inflight' = NoLookup /\ failure' = NotFailing
      /\ UNCHANGED <<setting, secret, lookup, request, time>>
  BY ConnectionsAssumption DEF ConnectionsInv, ConnectionsTypeOK, ConfigChanged, Settings
<1>2. /\ served'.floor = secret /\ served'.failed = [s \in Settings |-> 0]
      /\ served'.changed = served.changed /\ served'.pressed = served.pressed /\ ServedType'
  BY DEF ConnectionsInv, ConnectionsTypeOK, ServedType, ConfigChanged
<1>3. ConnectionsTypeOK'
  BY <1>1, ConnectionRecords DEF ConnectionsInv, ConnectionsTypeOK
<1>4. FloorOK' /\ CacheOK'
  <2>1. \A s \in Settings : secret[s] \in Nat
    BY ConnectionNumbers DEF ConnectionsInv, ConnectionsTypeOK
  <2>2. QED
    BY <1>1, <1>2, <2>1 DEF FloorOK, CacheOK, NotCached, NoValue
<1>5. FailureOK'
  BY ConnectionNumbers, <1>1, <1>2, ConnectionsAssumption DEF ConnectionsInv,
     ConnectionsTypeOK, FailureOK, NotFailing
<1>6. ASSUME NEW l \in Lookups
      PROVE  LookupOK(l)'
  BY RunningTypes, <1>1, ConnectionsAssumption, <1>2 DEF ConnectionsInv, ConnectionsTypeOK,
     LookupOK, HeldSince
<1>7. ASSUME NEW r \in Requests
      PROVE  RequestOK(request[r])'
  BY <1>1 DEF ConnectionsInv, RequestOK
<1>8. QED
  BY <1>2, <1>3, <1>4, <1>5, <1>6, <1>7 DEF ConnectionsInv

LEMMA TickKnown ==
    ASSUME ConnectionsInv, PassTime
    PROVE  ConnectionsInv'
<1>1. time \in Nat /\ time' = time + 1 /\ time' \in Times
  BY ConnectionsAssumption DEF ConnectionsInv, ConnectionsTypeOK, PassTime, Times
<1>2. UNCHANGED <<setting, secret, cached, inflight, lookup, failure, generation, request, served>>
  BY DEF PassTime
<1>3. ConnectionsTypeOK' /\ ServedType' /\ FloorOK'
  BY <1>1, <1>2 DEF ConnectionsInv, ConnectionsTypeOK, ServedType, FloorOK
<1>4. CacheOK'
  <2>1. cached.expires \in Nat
    BY ConnectionNumbers DEF ConnectionsInv, ConnectionsTypeOK, Entry
  <2>2. cached.expires <= time + Ttl => cached.expires <= time' + Ttl
    BY <1>1, <2>1, ConnectionsAssumption
  <2>3. QED
    BY <1>2, <2>2 DEF ConnectionsInv, CacheOK, HeldSince
<1>5. FailureOK'
  <2>1. failure.callUntil \in Nat /\ \A s \in Settings : served.failed[s] \in Nat
    BY ConnectionNumbers DEF ConnectionsInv, ConnectionsTypeOK, ServedType, Failing
  <2>2. /\ failure.callUntil <= time + CallRetry => failure.callUntil <= time' + CallRetry
        /\ \A s \in Settings : served.failed[s] <= time => served.failed[s] <= time'
    BY <1>1, <2>1, ConnectionsAssumption
  <2>3. QED
    BY <1>2, <2>2 DEF ConnectionsInv, FailureOK
<1>6. ASSUME NEW l \in Lookups
      PROVE  LookupOK(l)'
  BY RunningTypes, <1>1, ConnectionsAssumption, <1>2 DEF ConnectionsInv, ConnectionsTypeOK,
     LookupOK, PassTime, HeldSince
<1>7. ASSUME NEW r \in Requests
      PROVE  RequestOK(request[r])'
  BY <1>2 DEF ConnectionsInv, RequestOK
<1>8. QED
  BY <1>3, <1>4, <1>5, <1>6, <1>7 DEF ConnectionsInv

LEMMA CoreReadKnown ==
    ASSUME ConnectionsInv, NEW l \in Lookups, CoreReads(l)
    PROVE  ConnectionsInv'
<1> DEFINE e == lookup[l]
           s == e.of
           v == [of |-> s, change |-> secret[s]]
           read == [e EXCEPT !.pc = "read", !.value = v]
<1>1. e \in Running /\ e.pc = "asked" /\ LookupOK(l) /\ s \in Settings /\ secret[s] \in Changes
  BY DEF ConnectionsInv, ConnectionsTypeOK, CoreReads, LookupOK
<1>2. lookup' = [lookup EXCEPT ![l] = read]
  BY DEF CoreReads, ConnectionsInv, ConnectionsTypeOK
<1>3. UNCHANGED <<setting, secret, cached, inflight, failure, generation, request, time, served>>
  BY DEF CoreReads
<1>4. secret[s] \in Nat /\ v \in ValueOf
  BY <1>1, ConnectionNumbers DEF ValueOf
<1>5. /\ read \in Running /\ read.pc = "read" /\ read.value = v /\ read.of = s
      /\ read.generation = e.generation /\ read.started = e.started
  BY <1>1, <1>4 DEF Running
<1> HIDE DEF read
<1>6. ConnectionsTypeOK' /\ ServedType'
  BY <1>2, <1>3, <1>5 DEF ConnectionsInv, ConnectionsTypeOK, ServedType
<1>7. FloorOK' /\ CacheOK' /\ FailureOK'
  BY <1>3 DEF ConnectionsInv, FloorOK, CacheOK, FailureOK, HeldSince
<1>8. lookup'[l] = read /\ \A k \in Lookups : k # l => lookup'[k] = lookup[k]
  BY <1>2 DEF ConnectionsInv, ConnectionsTypeOK
<1>9. ASSUME NEW k \in Lookups
      PROVE  LookupOK(k)'
  <2>1. CASE k = l
    <3>1. served.floor[s] <= secret[s]
      BY <1>1 DEF ConnectionsInv, FloorOK
    <3>2. v.of = s /\ v.change = secret[s] /\ v.change <= secret[s] /\ ~ (v.change < secret[s])
      BY <1>4
    <3>3. v.change >= served.floor[s]
      BY <1>1, <1>4, <3>1, <3>2, ConnectionNumbers DEF ConnectionsInv, ServedType
    <3> HIDE DEF v
    <3>4. QED
      BY <1>1, <1>3, <1>5, <1>8, <2>1, <3>2, <3>3 DEF LookupOK, HeldSince
  <2>2. CASE k # l
    BY <1>3, <1>8, <2>2 DEF ConnectionsInv, LookupOK, HeldSince
  <2>3. QED
    BY <2>1, <2>2
<1>10. ASSUME NEW r \in Requests
       PROVE  RequestOK(request[r])'
  BY <1>1, <1>3, <1>5, <1>8, ConnectionsAssumption DEF ConnectionsInv, ConnectionsTypeOK,
     RequestOK, Request
<1>11. QED
  BY <1>6, <1>7, <1>9, <1>10 DEF ConnectionsInv

-----------------------------------------------------------------------------
LEMMA ConnectionsInitially == ConnectionsInit => ConnectionsInv
<1> SUFFICES ASSUME ConnectionsInit
             PROVE  ConnectionsInv
  OBVIOUS
<1> USE DEF ConnectionsInit
<1>1. ConnectionsTypeOK /\ ServedType
  BY ConnectionNumbers, ConnectionRecords, ConnectionsAssumption
     DEF ConnectionsTypeOK, ServedType, Settings
<1>2. FloorOK /\ CacheOK /\ FailureOK
  BY ConnectionsAssumption DEF FloorOK, CacheOK, FailureOK, NotCached, NoValue, NotFailing
<1>3. \A l \in Lookups : LookupOK(l)
  BY DEF LookupOK, NotRunning
<1>4. \A r \in Requests : RequestOK(request[r])
  BY NotAskingOK
<1>5. QED
  BY <1>1, <1>2, <1>3, <1>4 DEF ConnectionsInv

LEMMA ConnectionsInductive ==
    ConnectionsInv /\ [ConnectionsNext]_connectionVars => ConnectionsInv'
<1> SUFFICES ASSUME ConnectionsInv, [ConnectionsNext]_connectionVars
             PROVE  ConnectionsInv'
  OBVIOUS
<1>1. CASE CoreStep
  BY <1>1, SaveKnown, ToldKnown, TickKnown, RotateKnown, CoreReadKnown, AnswerKnown, FailKnown
     DEF CoreStep
<1>2. ASSUME NEW r \in Requests, RequestStep(r)
      PROVE  ConnectionsInv'
  BY <1>2, RequestEnds, CacheKnown, JoinKnown, StartKnown DEF RequestStep
<1>3. CASE UNCHANGED connectionVars
  BY <1>3 DEF connectionVars, ConnectionsInv, ConnectionsTypeOK, ServedType, FloorOK, CacheOK,
              FailureOK, LookupOK, RequestOK, HeldSince
<1>4. QED
  BY <1>1, <1>2, <1>3 DEF ConnectionsNext

\* What a cached value, a lookup and a waiting call are worth, at every await of
\* SecretCache.get and lookupSecret, whatever is saved and rotated meanwhile.
THEOREM ConnectionsInvariance == ConnectionsSpec => []ConnectionsInv
<1>1. QED
  BY ConnectionsInitially, ConnectionsInductive, PTL DEF ConnectionsSpec

LEMMA SecretsAreGood ==
    ConnectionsInv => /\ SecretOfItsSettings /\ SavedSettingsApplyAtOnce
                      /\ RotationTakesEffect /\ BrokenSecretIsLeftAlone
BY DEF ConnectionsInv, SecretOfItsSettings, SavedSettingsApplyAtOnce, RotationTakesEffect,
       BrokenSecretIsLeftAlone, HasSecret, At, RequestOK, FailureOK

\* What goes out to a service is the secret of the settings that name it
\* (SecretCache.get, lookup).
THEOREM SecretsFitTheirSettings == ConnectionsSpec => []SecretOfItsSettings
<1>1. QED
  BY ConnectionsInvariance, SecretsAreGood, PTL

\* No call that turns to the cache after the worker was told of a save gets a
\* value from before it (invalidate, the generation of a lookup).
THEOREM SavesApply == ConnectionsSpec => []SavedSettingsApplyAtOnce
<1>1. QED
  BY ConnectionsInvariance, SecretsAreGood, PTL

\* No call gets a value that was replaced Ttl before it turned to the cache
\* (SECRET_CACHE_MS).
THEOREM RotationsApply == ConnectionsSpec => []RotationTakesEffect
<1>1. QED
  BY ConnectionsInvariance, SecretsAreGood, PTL

\* A failed lookup keeps every call and check from asking again for CallRetry
\* (ConnectionService.failures).
THEOREM BrokenSecretsRest == ConnectionsSpec => []BrokenSecretIsLeftAlone
<1>1. QED
  BY ConnectionsInvariance, SecretsAreGood, PTL

-----------------------------------------------------------------------------
(* DecisionBudget.  BudgetInv is the inductive invariant: it counts the calls*)
(* under way, bounds each by the cap it has read, and says which worker owes*)
(* which row its result, and until when.                                   *)

Outcomes == {"timeout", "error", "budget_exceeded", "answer"}

BatchType ==
    batch \in [surface: Fills, cap: Caps, next: 1..(BatchRows + 1),
               result: [1..BatchRows -> SUBSET Outcomes]]

TallyType ==
    tally \in [answered: [Days -> Nat], filledTo: [Days -> Nat], lost: [Days -> Nat],
               highest: Nat, changes: Nat, questions: Nat]

InFlight(e) == e.pc \in {"fetch", "sleep", "release"}

\* Who decides has read a cap that an admin set, and no other row is past its share.
CapsOK ==
    /\ cap <= tally.highest /\ batch.cap <= tally.highest
    /\ \A c \in Askers : asker[c].pc # "idle" => asker[c].cap <= tally.highest
    /\ CapIsKept

\* A row is begun by one worker, who owes it its one result.
OwedOK(c) ==
    LET i == asker[c].row IN
    /\ asker[c].pc = "idle" => i = 0
    /\ i # 0 => c \in Workers /\ i < batch.next /\ batch.result[i] = {}
    /\ \A b \in Askers : i # 0 /\ b # c => asker[b].row # i

ResultOK(i) ==
    /\ batch.result[i] = {} \/ \E o \in Outcomes : batch.result[i] = {o}
    /\ i >= batch.next => batch.result[i] = {}
    /\ i < batch.next /\ batch.result[i] = {} => \E c \in Workers : asker[c].row = i

\* A row's own time ends within the batch's.
InTime(e) ==
    e.row # 0 =>
        /\ e.pc = "reserve" => instant + e.limit <= BatchDeadline
        /\ InFlight(e) => e.deadline <= BatchDeadline
        /\ e.pc = "sleep" => e.until < e.deadline
        /\ instant <= BatchDeadline

BudgetInv ==
    /\ BudgetTypeOK /\ BatchType /\ TallyType
    /\ FailedCallsCostNothing /\ CapsOK
    /\ \A c \in Askers : OwedOK(c) /\ InTime(asker[c])
    /\ \A i \in 1..BatchRows : ResultOK(i)

-----------------------------------------------------------------------------
LEMMA BudgetNumbers ==
    /\ BatchRows \in Nat /\ RequestDeadline \in Nat /\ BatchDeadline \in Nat
    /\ MaxRetries \in Nat /\ MaxInstant \in Nat /\ RequestDeadline <= BatchDeadline
    /\ Caps \subseteq Nat /\ UsedBefore \subseteq Nat /\ Delays \subseteq Nat
BY BudgetAssumption

LEMMA HighestOfTwo ==
    ASSUME NEW a \in Nat, NEW b \in Nat
    PROVE  Highest({a, b}) \in Nat /\ a <= Highest({a, b}) /\ b <= Highest({a, b})
           /\ Highest({a, b}) \in {a, b}
BY DEF Highest

\* fillShare: it grows with the cap and stays within it.
LEMMA FillShareGrows ==
    ASSUME NEW a \in Nat, NEW b \in Nat, a <= b
    PROVE  FillShare(a) \in Nat /\ FillShare(a) <= FillShare(b) /\ FillShare(a) <= a
BY SMT DEF FillShare

LEMMA NotDecidingIsAsker ==
    ASSUME Caps # {}
    PROVE  NotDeciding \in Asker
BY BudgetNumbers DEF NotDeciding, Asker, Fills, Days

LEMMA AskerTypes ==
    ASSUME NEW e \in Asker
    PROVE  /\ e.row \in 0..BatchRows /\ e.row \in Nat /\ e.cap \in Caps /\ e.cap \in Nat
           /\ e.day \in Days /\ e.limit \in 0..BatchDeadline /\ e.limit \in Nat
           /\ e.deadline \in Nat /\ e.until \in Nat /\ e.attempt \in 0..MaxRetries
           /\ e.surface \in Fills
           /\ e.pc \in {"idle", "reserve", "fetch", "sleep", "release"}
<1>1. /\ e.row \in 0..BatchRows /\ e.cap \in Caps /\ e.day \in Days
      /\ e.limit \in 0..BatchDeadline /\ e.attempt \in 0..MaxRetries /\ e.surface \in Fills
      /\ e.deadline \in 0..(MaxInstant + BatchDeadline)
      /\ e.until \in 0..(MaxInstant + BatchDeadline)
      /\ e.pc \in {"idle", "reserve", "fetch", "sleep", "release"}
  BY DEF Asker
<1>2. /\ 0..BatchRows \subseteq Nat /\ 0..BatchDeadline \subseteq Nat /\ Caps \subseteq Nat
      /\ 0..(MaxInstant + BatchDeadline) \subseteq Nat
  BY BudgetNumbers
<1>3. QED
  BY <1>1, <1>2, Zenon

\* One asker moves: it joins the calls under way of a day, or leaves them.
LEMMA ReservedAfter ==
    ASSUME asker \in [Askers -> Asker], NEW c \in Askers, NEW e \in Asker,
           asker' = [asker EXCEPT ![c] = e], NEW d \in Days
    PROVE  LET was == InFlight(asker[c]) /\ asker[c].day = d
               is  == InFlight(e) /\ e.day = d
           IN /\ Cardinality(Reserved(d)) \in Nat
              /\ (was /\ is) \/ (~was /\ ~is) => Cardinality(Reserved(d)') = Cardinality(Reserved(d))
              /\ was /\ ~is => Cardinality(Reserved(d)') = Cardinality(Reserved(d)) - 1
              /\ ~was /\ is => Cardinality(Reserved(d)') = Cardinality(Reserved(d)) + 1
<1> DEFINE was == InFlight(asker[c]) /\ asker[c].day = d
           is  == InFlight(e) /\ e.day = d
           R   == Reserved(d)
<1>1. IsFiniteSet(R)
  BY BudgetAssumption, FS_Union, FS_Subset DEF Askers, Reserved
<1>2. c \in R <=> was
  BY DEF Reserved, InFlight
<1>3. Reserved(d)' = IF is THEN R \cup {c} ELSE R \ {c}
  <2>1. \A b \in Askers : asker'[b] = IF b = c THEN e ELSE asker[b]
    OBVIOUS
  <2>2. Reserved(d)' = {b \in Askers : InFlight(asker'[b]) /\ asker'[b].day = d}
    BY DEF Reserved, InFlight
  <2>3. R = {b \in Askers : InFlight(asker[b]) /\ asker[b].day = d}
    BY DEF Reserved, InFlight
  <2> HIDE DEF R
  <2>4. ASSUME NEW b \in Askers, b # c
        PROVE  b \in Reserved(d)' <=> b \in R
    BY <2>1, <2>2, <2>3, <2>4
  <2>5. c \in Reserved(d)' <=> is
    BY <2>1, <2>2
  <2>6. R \subseteq Askers /\ Reserved(d)' \subseteq Askers
    BY <2>2, <2>3
  <2>7. QED
    BY <2>4, <2>5, <2>6, <1>2
<1>4. Cardinality(R) \in Nat
  BY <1>1, FS_CardinalityType
<1> HIDE DEF R, was, is
<1>5. CASE was /\ is
  BY <1>2, <1>3, <1>4, <1>5, R \cup {c} = R DEF R, was, is
<1>6. CASE ~was /\ ~is
  BY <1>2, <1>3, <1>4, <1>6, R \ {c} = R DEF R, was, is
<1>7. CASE was /\ ~is
  <2>1. Cardinality(R \ {c}) = Cardinality(R) - 1
    BY <1>1, <1>2, <1>7, FS_RemoveElement
  <2>2. QED
    BY <2>1, <1>3, <1>4, <1>7 DEF R, was, is
<1>8. CASE ~was /\ is
  BY <1>1, <1>2, <1>8, FS_AddElement, <1>3, <1>4 DEF R, was, is
<1>9. QED
  BY <1>5, <1>6, <1>7, <1>8 DEF R, was, is

-----------------------------------------------------------------------------
(* What several operations have in common                                  *)

\* An asker that keeps its row, and the row stays owed.
LEMMA RowsStay ==
    ASSUME BudgetInv, NEW c \in Askers, NEW e \in Asker,
           asker' = [asker EXCEPT ![c] = e], batch' = batch,
           e.row = asker[c].row, e.pc = "idle" => e.row = 0
    PROVE  (\A b \in Askers : OwedOK(b)') /\ (\A i \in 1..BatchRows : ResultOK(i)')
<1>1. /\ \A b \in Askers : OwedOK(b)
      /\ \A i \in 1..BatchRows : ResultOK(i)
      /\ asker \in [Askers -> Asker]
  BY DEF BudgetInv, BudgetTypeOK
<1>2. /\ \A b \in Askers : asker'[b].row = asker[b].row
      /\ \A b \in Askers : b # c => asker'[b] = asker[b]
      /\ asker'[c] = e
  BY <1>1
<1>3. ASSUME NEW b \in Askers
      PROVE  OwedOK(b)'
  BY <1>1, <1>2 DEF OwedOK
<1>4. ASSUME NEW i \in 1..BatchRows
      PROVE  ResultOK(i)'
  BY <1>1, <1>2 DEF Askers, ResultOK
<1>5. QED
  BY <1>3, <1>4

\* The bounds and the deadlines of the others do not change when one moves.
LEMMA OthersStay ==
    ASSUME BudgetInv, NEW c \in Askers, NEW e \in Asker,
           asker' = [asker EXCEPT ![c] = e], UNCHANGED <<instant>>,
           tally'.highest = tally.highest,
           e.pc # "idle" => e.cap <= tally.highest,
           InTime(e)
    PROVE  /\ asker' \in [Askers -> Asker]
           /\ \A b \in Askers : InTime(asker[b])'
           /\ \A b \in Askers : asker'[b].pc # "idle" => asker'[b].cap <= tally'.highest
BY DEF BudgetInv, BudgetTypeOK, CapsOK, InTime, InFlight

\* An asker goes on with what it has reserved (Refused, TryAgain, WakeUp,
\* TimedOut).
LEMMA GoesOn ==
    ASSUME BudgetInv, NEW c \in Askers, NEW e \in Asker,
           asker' = [asker EXCEPT ![c] = e],
           UNCHANGED <<cap, used, today, instant, batch, tally>>,
           InFlight(asker[c]), InFlight(e), e.day = asker[c].day, e.row = asker[c].row,
           e.cap = asker[c].cap, InTime(e)
    PROVE  BudgetInv'
<1>1. asker[c].pc # "idle" /\ e.pc # "idle"
  BY DEF InFlight
<1>2. e.cap <= tally.highest
  BY <1>1 DEF BudgetInv, CapsOK
<1>3. /\ asker' \in [Askers -> Asker]
      /\ \A b \in Askers : InTime(asker[b])'
      /\ \A b \in Askers : asker'[b].pc # "idle" => asker'[b].cap <= tally'.highest
  BY <1>2, OthersStay
<1>4. (\A b \in Askers : OwedOK(b)') /\ (\A i \in 1..BatchRows : ResultOK(i)')
  BY <1>1, RowsStay
<1>5. BudgetTypeOK' /\ BatchType' /\ TallyType'
  BY <1>3 DEF BudgetInv, BudgetTypeOK, BatchType, TallyType
<1>6. FailedCallsCostNothing'
  BY ReservedAfter DEF BudgetInv, BudgetTypeOK, FailedCallsCostNothing
<1>7. CapsOK'
  BY <1>3 DEF BudgetInv, CapsOK, CapIsKept
<1>8. QED
  BY <1>3, <1>4, <1>5, <1>6, <1>7 DEF BudgetInv

\* decideOne returns: a worker stores the row's one result.
LEMMA ReturnStoresTheResult ==
    ASSUME BudgetInv, NEW c \in Askers, NEW outcome \in Outcomes, Returns(c, outcome)
    PROVE  /\ BatchType' /\ batch'.cap = batch.cap
           /\ batch'.next = batch.next
           /\ \A b \in Askers : OwedOK(b)'
           /\ \A i \in 1..BatchRows : ResultOK(i)'
<1> DEFINE row == asker[c].row
<1>1. /\ \A b \in Askers : OwedOK(b)
      /\ \A i \in 1..BatchRows : ResultOK(i)
      /\ asker \in [Askers -> Asker] /\ BatchType /\ row \in 0..BatchRows
  BY AskerTypes DEF BudgetInv, BudgetTypeOK
<1>2. \A b \in Askers : asker'[b] = IF b = c THEN NotDeciding ELSE asker[b]
  BY <1>1 DEF Returns
<1>3. NotDeciding.row = 0 /\ NotDeciding.pc = "idle"
  BY DEF NotDeciding
<1>4. /\ BatchType' /\ batch'.cap = batch.cap /\ batch'.next = batch.next
      /\ \A i \in 1..BatchRows :
            batch'.result[i] = IF c \in Workers /\ i = row THEN batch.result[i] \cup {outcome}
                               ELSE batch.result[i]
  <2>1. CASE c \in Workers
    <3> DEFINE f == [batch.result EXCEPT ![row] = @ \cup {outcome}]
    <3>1. batch' = [batch EXCEPT !.result = f]
      BY <2>1 DEF Returns
    <3>2. f \in [1..BatchRows -> SUBSET Outcomes]
      BY <1>1 DEF BatchType
    <3>3. \A i \in 1..BatchRows : f[i] = IF i = row THEN batch.result[i] \cup {outcome}
                                          ELSE batch.result[i]
      BY <1>1 DEF BatchType
    <3> HIDE DEF f
    <3>4. /\ batch'.result = f /\ batch'.cap = batch.cap /\ batch'.next = batch.next
          /\ BatchType'
      BY <1>1, <3>1, <3>2 DEF BatchType
    <3>5. QED
      BY <2>1, <3>3, <3>4
  <2>2. CASE c \notin Workers
    BY <1>1, <2>2 DEF Returns, BatchType
  <2>3. QED
    BY <2>1, <2>2
<1> HIDE DEF row
<1>5. ASSUME NEW b \in Askers
      PROVE  OwedOK(b)'
  <2>1. CASE b = c
    BY <1>2, <1>3, <2>1 DEF OwedOK
  <2>2. CASE b # c
    <3>1. asker'[b] = asker[b] /\ OwedOK(b) /\ asker[b].row \in 0..BatchRows
      BY <1>1, <1>2, <2>2, AskerTypes
    <3>2. asker[b].row # 0 => /\ batch'.result[asker[b].row] = {}
                              /\ b \in Workers /\ asker[b].row < batch'.next
      <4>1. asker[b].row # 0 => asker[b].row # row /\ asker[b].row \in 1..BatchRows
        BY <2>2, <3>1, BudgetNumbers DEF OwedOK, row
      <4>2. QED
        BY <1>4, <3>1, <4>1 DEF OwedOK
    <3>3. \A a \in Askers : asker[b].row # 0 /\ a # b => asker'[a].row # asker[b].row
      BY <1>2, <1>3, <3>1 DEF OwedOK
    <3>4. asker[b].pc = "idle" => asker[b].row = 0
      BY <3>1 DEF OwedOK
    <3>5. QED
      BY <3>1, <3>2, <3>3, <3>4 DEF OwedOK
  <2>3. QED
    BY <2>1, <2>2
<1>6. ASSUME NEW i \in 1..BatchRows
      PROVE  ResultOK(i)'
  <2>1. ResultOK(i)
    BY <1>1
  <2>2. CASE c \in Workers /\ i = row
    <3>1. OwedOK(c) /\ i # 0
      BY <1>1
    <3>2. batch.result[i] = {} /\ i < batch.next
      BY <3>1, <2>2 DEF OwedOK, row
    <3>3. batch'.result[i] = {outcome} /\ i < batch'.next
      BY <3>2, <2>2, <1>4
    <3>4. batch.next \in 1..(BatchRows + 1) /\ batch'.next = batch.next
      BY <1>1, <1>4 DEF BatchType
    <3>5. ~ (i >= batch'.next)
      BY <3>3, <3>4, BudgetNumbers
    <3>6. QED
      BY <3>3, <3>5 DEF ResultOK
  <2>3. CASE ~ (c \in Workers /\ i = row)
    BY <2>3, <1>4, <1>2, <2>1 DEF Askers, row, ResultOK
  <2>4. QED
    BY <2>2, <2>3
<1>7. QED
  BY <1>4, <1>5, <1>6

LEMMA ReturnEndsTheAsking ==
    ASSUME BudgetInv, NEW c \in Askers, NEW outcome \in Outcomes, Returns(c, outcome),
           UNCHANGED <<cap, today, instant>>,
           TallyType', tally'.highest = tally.highest, used' \in [Days -> Nat],
           FailedCallsCostNothing', CapIsKept'
    PROVE  BudgetInv'
BY NotDecidingIsAsker, OthersStay, ReturnStoresTheResult DEF BudgetInv, BudgetTypeOK,
   Returns, NotDeciding, InTime, CapsOK

\* Before it has reserved, an asker returns as if it had not asked.
LEMMA ReturnsUnreserved ==
    ASSUME BudgetInv, NEW c \in Askers, NEW outcome \in Outcomes, Deciding(c, "reserve"),
           Returns(c, outcome), UNCHANGED <<cap, used, today, instant, tally>>
    PROVE  BudgetInv'
<1>1. /\ asker \in [Askers -> Asker] /\ NotDeciding \in Asker /\ FailedCallsCostNothing
      /\ asker' = [asker EXCEPT ![c] = NotDeciding]
  BY NotDecidingIsAsker DEF BudgetInv, BudgetTypeOK, Returns
<1>2. ~InFlight(asker[c]) /\ ~InFlight(NotDeciding)
  BY DEF InFlight, Deciding, NotDeciding
<1>3. \A d \in Days : Cardinality(Reserved(d)') = Cardinality(Reserved(d))
  BY <1>1, <1>2, ReservedAfter
<1>4. FailedCallsCostNothing'
  BY <1>1, <1>3 DEF FailedCallsCostNothing
<1>5. TallyType' /\ used' \in [Days -> Nat] /\ CapIsKept'
  BY DEF BudgetInv, BudgetTypeOK, TallyType, CapsOK, CapIsKept
<1>6. QED
  BY <1>4, <1>5, ReturnEndsTheAsking

\* What an asker that returns had reserved leaves the calls under way.
LEMMA ReturnLeaves ==
    ASSUME BudgetInv, NEW c \in Askers, InFlight(asker[c]),
           asker' = [asker EXCEPT ![c] = NotDeciding], NEW d \in Days
    PROVE  /\ Cardinality(Reserved(d)) \in Nat
           /\ used \in [Days -> Nat] /\ TallyType /\ asker[c].day \in Days
           /\ used[d] = tally.answered[d] + tally.lost[d] + Cardinality(Reserved(d))
           /\ d = asker[c].day => Cardinality(Reserved(d)') = Cardinality(Reserved(d)) - 1
           /\ d # asker[c].day => Cardinality(Reserved(d)') = Cardinality(Reserved(d))
BY NotDecidingIsAsker, AskerTypes, ReservedAfter DEF BudgetInv, BudgetTypeOK, InFlight,
   NotDeciding, FailedCallsCostNothing

LEMMA AnsweredKeeps ==
    ASSUME BudgetInv, NEW c \in Askers, Answered(c)
    PROVE  BudgetInv'
<1> DEFINE spent == asker[c].day
           f == [tally.answered EXCEPT ![spent] = @ + 1]
<1>1. InFlight(asker[c]) /\ asker' = [asker EXCEPT ![c] = NotDeciding] /\ 1 \in Days
  BY DEF Answered, Deciding, InFlight, Returns, Days
<1>2. TallyType /\ used \in [Days -> Nat] /\ spent \in Days
  BY <1>1, ReturnLeaves
<1>3. /\ f \in [Days -> Nat]
      /\ \A d \in Days : f[d] = IF d = spent THEN tally.answered[d] + 1 ELSE tally.answered[d]
  BY <1>2 DEF TallyType
<1>4. tally' = [tally EXCEPT !.answered = f]
  BY DEF Answered
<1> HIDE DEF f
<1>5. /\ TallyType' /\ tally'.answered = f /\ tally'.lost = tally.lost
      /\ tally'.highest = tally.highest /\ tally'.filledTo = tally.filledTo /\ used' = used
  BY <1>2, <1>3, <1>4 DEF TallyType, Answered
<1>6. ASSUME NEW d \in Days
      PROVE  used'[d] = tally'.answered[d] + tally'.lost[d] + Cardinality(Reserved(d)')
  <2>1. /\ Cardinality(Reserved(d)) \in Nat
        /\ used[d] = tally.answered[d] + tally.lost[d] + Cardinality(Reserved(d))
        /\ d = spent => Cardinality(Reserved(d)') = Cardinality(Reserved(d)) - 1
        /\ d # spent => Cardinality(Reserved(d)') = Cardinality(Reserved(d))
    BY <1>1, ReturnLeaves
  <2>2. tally.answered[d] \in Nat /\ tally.lost[d] \in Nat
    BY <1>2 DEF TallyType
  <2> HIDE DEF spent
  <2>3. QED
    BY <2>1, <2>2, <1>3, <1>5
<1>7. FailedCallsCostNothing'
  BY <1>6 DEF FailedCallsCostNothing
<1>8. CapIsKept'
  BY <1>5 DEF BudgetInv, CapsOK, CapIsKept
<1>9. "answer" \in Outcomes /\ Returns(c, "answer") /\ UNCHANGED <<cap, today, instant>>
  BY DEF Answered, Outcomes
<1>10. QED
  BY <1>2, <1>5, <1>7, <1>8, <1>9, ReturnEndsTheAsking

LEMMA ReleaseFailsKeeps ==
    ASSUME BudgetInv, NEW c \in Askers, ReleaseFails(c)
    PROVE  BudgetInv'
<1> DEFINE spent == asker[c].day
           f == [tally.lost EXCEPT ![spent] = @ + 1]
<1>1. InFlight(asker[c]) /\ asker' = [asker EXCEPT ![c] = NotDeciding] /\ 1 \in Days
  BY DEF ReleaseFails, Deciding, InFlight, Returns, Days
<1>2. TallyType /\ used \in [Days -> Nat] /\ spent \in Days
  BY <1>1, ReturnLeaves
<1>3. /\ f \in [Days -> Nat]
      /\ \A d \in Days : f[d] = IF d = spent THEN tally.lost[d] + 1 ELSE tally.lost[d]
  BY <1>2 DEF TallyType
<1>4. tally' = [tally EXCEPT !.lost = f]
  BY DEF ReleaseFails
<1> HIDE DEF f
<1>5. /\ TallyType' /\ tally'.lost = f /\ tally'.answered = tally.answered
      /\ tally'.highest = tally.highest /\ tally'.filledTo = tally.filledTo /\ used' = used
  BY <1>2, <1>3, <1>4 DEF TallyType, ReleaseFails
<1>6. ASSUME NEW d \in Days
      PROVE  used'[d] = tally'.answered[d] + tally'.lost[d] + Cardinality(Reserved(d)')
  <2>1. /\ Cardinality(Reserved(d)) \in Nat
        /\ used[d] = tally.answered[d] + tally.lost[d] + Cardinality(Reserved(d))
        /\ d = spent => Cardinality(Reserved(d)') = Cardinality(Reserved(d)) - 1
        /\ d # spent => Cardinality(Reserved(d)') = Cardinality(Reserved(d))
    BY <1>1, ReturnLeaves
  <2>2. tally.answered[d] \in Nat /\ tally.lost[d] \in Nat
    BY <1>2 DEF TallyType
  <2> HIDE DEF spent
  <2>3. QED
    BY <2>1, <2>2, <1>3, <1>5
<1>7. FailedCallsCostNothing'
  BY <1>6 DEF FailedCallsCostNothing
<1>8. CapIsKept'
  BY <1>5 DEF BudgetInv, CapsOK, CapIsKept
<1>9. "error" \in Outcomes /\ Returns(c, "error") /\ UNCHANGED <<cap, today, instant>>
  BY DEF ReleaseFails, Outcomes
<1>10. QED
  BY <1>2, <1>5, <1>7, <1>8, <1>9, ReturnEndsTheAsking

LEMMA ReleaseKeeps ==
    ASSUME BudgetInv, NEW c \in Askers, Release(c)
    PROVE  BudgetInv'
<1> DEFINE spent == asker[c].day
<1>1. InFlight(asker[c]) /\ asker' = [asker EXCEPT ![c] = NotDeciding] /\ 1 \in Days
  BY DEF Release, Deciding, InFlight, Returns, Days
<1>2. TallyType /\ used \in [Days -> Nat] /\ spent \in Days
  BY <1>1, ReturnLeaves
<1>3. /\ used' = [used EXCEPT ![spent] = IF @ > 0 THEN @ - 1 ELSE 0]
      /\ tally' = tally
  BY DEF Release, DayReleased
<1>4. /\ used' \in [Days -> Nat]
      /\ \A d \in Days : used'[d] = IF d = spent THEN (IF used[d] > 0 THEN used[d] - 1 ELSE 0)
                                      ELSE used[d]
  BY <1>2, <1>3
<1>5. ASSUME NEW d \in Days
      PROVE  used'[d] = tally'.answered[d] + tally'.lost[d] + Cardinality(Reserved(d)')
  <2>1. /\ Cardinality(Reserved(d)) \in Nat
        /\ used[d] = tally.answered[d] + tally.lost[d] + Cardinality(Reserved(d))
        /\ d = spent => Cardinality(Reserved(d)') = Cardinality(Reserved(d)) - 1
        /\ d # spent => Cardinality(Reserved(d)') = Cardinality(Reserved(d))
    BY <1>1, ReturnLeaves
  <2>2. tally.answered[d] \in Nat /\ tally.lost[d] \in Nat
    BY <1>2 DEF TallyType
  <2>3. d = spent => Cardinality(Reserved(d)) > 0
    <3>1. IsFiniteSet(Reserved(d))
      BY BudgetAssumption, FS_Union, FS_Subset DEF Askers, Reserved
    <3>2. d = spent => c \in Reserved(d)
      BY <1>1 DEF Reserved, InFlight
    <3>3. QED
      BY <2>1, <3>1, <3>2, FS_EmptySet
  <2> HIDE DEF spent
  <2>4. QED
    BY <2>1, <2>2, <2>3, <1>3, <1>4
<1>6. FailedCallsCostNothing'
  BY <1>5 DEF FailedCallsCostNothing
<1>7. CapIsKept'
  BY <1>2, <1>4, <1>3 DEF BudgetInv, CapsOK, TallyType, CapIsKept
<1>8. /\ "error" \in Outcomes /\ Returns(c, "error") /\ UNCHANGED <<cap, today, instant>>
      /\ TallyType' /\ tally'.highest = tally.highest
  BY <1>2, <1>3 DEF Release, Outcomes, TallyType
<1>9. QED
  BY <1>4, <1>6, <1>7, <1>8, ReturnEndsTheAsking

-----------------------------------------------------------------------------
(* The other operations                                                    *)

LEMMA TakeRowKeeps ==
    ASSUME BudgetInv, NEW c \in Workers, TakeRow(c)
    PROVE  BudgetInv'
<1> DEFINE row == batch.next
<1>1. /\ BudgetTypeOK /\ BatchType /\ TallyType /\ CapsOK /\ FailedCallsCostNothing
      /\ \A b \in Askers : OwedOK(b) /\ asker[b] \in Asker
      /\ \A i \in 1..BatchRows : ResultOK(i)
      /\ asker \in [Askers -> Asker] /\ c \in Askers
  BY DEF BudgetInv, BudgetTypeOK, Askers
<1>2. row \in 1..BatchRows /\ batch.result[row] = {} /\ instant \in 0..MaxInstant
  BY <1>1, BudgetNumbers DEF BatchType, BudgetTypeOK, TakeRow, ResultOK, Instants
<1>3. asker[c].pc = "idle" /\ asker[c].row = 0
  BY <1>1 DEF TakeRow, Deciding, OwedOK
<1>4. UNCHANGED <<cap, used, today, instant, tally>>
  BY DEF TakeRow
<1>5. CASE instant >= RequestDeadline
  <2> DEFINE f == [batch.result EXCEPT ![row] = @ \cup {"timeout"}]
  <2>1. batch' = [batch EXCEPT !.next = row + 1, !.result = f] /\ asker' = asker
    BY <1>5 DEF TakeRow, NextRow
  <2>2. /\ f \in [1..BatchRows -> SUBSET Outcomes]
        /\ \A i \in 1..BatchRows : f[i] = IF i = row THEN {"timeout"} ELSE batch.result[i]
    BY <1>1, <1>2 DEF BatchType, Outcomes
  <2> HIDE DEF f
  <2>3. BatchType' /\ batch'.next = row + 1 /\ batch'.result = f /\ batch'.cap = batch.cap
    <3>1. row + 1 \in 1..(BatchRows + 1)
      BY <1>2, BudgetNumbers
    <3> HIDE DEF row
    <3>2. QED
      BY <1>1, <2>1, <2>2, <3>1 DEF BatchType
  <2>4. ASSUME NEW b \in Askers
        PROVE  OwedOK(b)'
    <3>1. OwedOK(b) /\ asker[b].row \in 0..BatchRows
      BY <1>1, AskerTypes
    <3>2. asker[b].row # 0 => asker[b].row \in 1..BatchRows /\ asker[b].row < row
      BY <3>1, BudgetNumbers DEF OwedOK
    <3>3. asker[b].row # 0 => /\ batch'.result[asker[b].row] = {}
                              /\ asker[b].row < batch'.next
      BY <3>1, <3>2, <2>2, <2>3, <1>2 DEF OwedOK
    <3>4. QED
      BY <3>1, <3>3, <2>1 DEF OwedOK
  <2>5. ASSUME NEW i \in 1..BatchRows
        PROVE  ResultOK(i)'
    <3>1. ResultOK(i) /\ "timeout" \in Outcomes /\ i \in Nat
      BY <1>1, BudgetNumbers DEF Outcomes
    <3>2. CASE i = row
      BY <3>2, <2>2, <2>3, <3>1 DEF ResultOK
    <3>3. CASE i # row
      BY <3>1, <3>3, <2>2, <2>3, <1>2, <2>1 DEF ResultOK
    <3>4. QED
      BY <3>2, <3>3
  <2>6. BudgetTypeOK' /\ TallyType' /\ CapsOK'
    BY <1>1, <1>4, <2>1, <2>3 DEF BudgetTypeOK, BatchType, TallyType, CapsOK, CapIsKept
  <2>7. FailedCallsCostNothing' /\ \A b \in Askers : InTime(asker[b])'
    BY <1>1, <1>4, <2>1 DEF BudgetInv, FailedCallsCostNothing, Reserved, InTime, InFlight
  <2>8. QED
    BY <2>3, <2>4, <2>5, <2>6, <2>7 DEF BudgetInv
<1>6. CASE instant < RequestDeadline
  <2> DEFINE e == [NotDeciding EXCEPT !.pc = "reserve", !.row = row, !.surface = batch.surface,
                       !.cap = batch.cap, !.day = today, !.limit = RowLimit]
  <2>1. NotDeciding \in Asker
    BY <1>1, NotDecidingIsAsker DEF BudgetTypeOK
  <2>2. RowLimit \in 0..BatchDeadline /\ instant + RowLimit <= BatchDeadline
    BY <1>2, <1>6, BudgetNumbers DEF RowLimit
  <2>3. /\ e \in Asker /\ e.pc = "reserve" /\ e.row = row /\ e.cap = batch.cap /\ e.limit = RowLimit
    <3>1. /\ row \in 0..BatchRows /\ batch.surface \in Fills /\ batch.cap \in Caps
          /\ today \in Days
      BY <1>1, <1>2 DEF BatchType, BudgetTypeOK
    <3> HIDE DEF row
    <3>2. QED
      BY <2>1, <2>2, <3>1 DEF Asker
  <2>4. batch' = [batch EXCEPT !.next = row + 1] /\ asker' = [asker EXCEPT ![c] = e]
    <3>1. ~ (instant >= RequestDeadline)
      BY <1>2, <1>6, BudgetNumbers
    <3>2. [batch.result EXCEPT ![row] = @] = batch.result
      BY <1>1 DEF BatchType
    <3>3. QED
      BY <1>1, <3>1, <3>2 DEF TakeRow, NextRow, BatchType
  <2> HIDE DEF e
  <2>5. /\ BatchType' /\ batch'.next = row + 1 /\ batch'.result = batch.result
        /\ batch'.cap = batch.cap
    BY SMTT(20), <1>1, <1>2, <2>4, BudgetNumbers DEF BatchType
  <2>6. InTime(e) /\ e.cap <= tally.highest
    BY <1>1, <1>2, <1>6, <2>2, <2>3, BudgetNumbers DEF InTime, InFlight, CapsOK
  <2>7. /\ asker' \in [Askers -> Asker]
        /\ \A b \in Askers : InTime(asker[b])'
        /\ \A b \in Askers : asker'[b].pc # "idle" => asker'[b].cap <= tally'.highest
    BY <1>1, <1>4, <2>3, <2>4, <2>6, OthersStay
  <2>8. \A b \in Askers : asker'[b] = IF b = c THEN e ELSE asker[b]
    BY <1>1, <2>4
  <2>9. ASSUME NEW b \in Askers
        PROVE  OwedOK(b)'
    <3>1. \A a \in Askers : asker[a].row # 0 => asker[a].row < row /\ asker[a].row # row
      <4>1. TAKE a \in Askers
      <4>2. OwedOK(a) /\ asker[a].row \in Nat
        BY <1>1, AskerTypes
      <4>3. QED
        BY <4>2, <1>2, BudgetNumbers DEF OwedOK
    <3>2. OwedOK(b) /\ asker[b].row \in Nat /\ row \in Nat
      BY <1>1, <1>2, AskerTypes, BudgetNumbers
    <3>3. CASE b = c
      BY <2>3, <2>8, <3>3, <1>2, <3>1, <2>5, <3>2 DEF OwedOK
    <3>4. CASE b # c
      BY <2>8, <3>4, <2>3, <3>1, <3>2, <2>5 DEF OwedOK
    <3>5. QED
      BY <3>3, <3>4
  <2>10. ASSUME NEW i \in 1..BatchRows
         PROVE  ResultOK(i)'
    BY <1>1, BudgetNumbers, <2>5, <1>2, <2>3, <2>8, <1>3 DEF Askers, ResultOK
  <2>11. FailedCallsCostNothing'
    BY <1>3, <2>3, <1>1, <2>4, ReservedAfter, <1>4 DEF InFlight, FailedCallsCostNothing
  <2>12. BudgetTypeOK' /\ TallyType' /\ CapsOK'
    BY <1>1, <1>4, <2>5, <2>7 DEF BudgetTypeOK, BatchType, TallyType, CapsOK, CapIsKept
  <2>13. QED
    BY <2>5, <2>7, <2>9, <2>10, <2>11, <2>12 DEF BudgetInv
<1>7. QED
  BY <1>2, <1>5, <1>6, BudgetNumbers

LEMMA BeginDecideKeeps ==
    ASSUME BudgetInv, NEW c \in Others, BeginDecide(c)
    PROVE  BudgetInv'
<1> DEFINE e == [NotDeciding EXCEPT !.pc = "reserve", !.cap = cap, !.day = today,
                                    !.limit = RequestDeadline]
<1>1. /\ BudgetTypeOK /\ BatchType /\ TallyType /\ CapsOK /\ FailedCallsCostNothing
      /\ OwedOK(c) /\ asker \in [Askers -> Asker] /\ c \in Askers
  BY DEF BudgetInv, BudgetTypeOK, Askers
<1>2. NotDeciding \in Asker
  BY <1>1, NotDecidingIsAsker DEF BudgetTypeOK
<1>3. e \in Asker /\ e.pc = "reserve" /\ e.row = 0 /\ e.cap = cap
  <2>1. RequestDeadline \in 0..BatchDeadline /\ NotDeciding.row = 0
    BY BudgetNumbers DEF NotDeciding
  <2>2. QED
    BY <1>1, <1>2, <2>1 DEF Asker, BudgetTypeOK
<1>4. asker' = [asker EXCEPT ![c] = e] /\ UNCHANGED <<cap, used, today, instant, batch>>
  BY DEF BeginDecide
<1> HIDE DEF e
<1>5. asker[c].pc = "idle" /\ asker[c].row = 0
  BY <1>1 DEF BeginDecide, Deciding, OwedOK
<1>6. /\ TallyType' /\ tally'.highest = tally.highest /\ tally'.answered = tally.answered
      /\ tally'.lost = tally.lost /\ tally'.filledTo = tally.filledTo
  BY <1>1 DEF BeginDecide, TallyType
<1>7. InTime(e) /\ e.cap <= tally.highest
  BY <1>1, <1>3 DEF InTime, CapsOK
<1>8. /\ asker' \in [Askers -> Asker]
      /\ \A b \in Askers : InTime(asker[b])'
      /\ \A b \in Askers : asker'[b].pc # "idle" => asker'[b].cap <= tally'.highest
  BY <1>1, <1>3, <1>4, <1>6, <1>7, OthersStay
<1>9. (\A b \in Askers : OwedOK(b)') /\ (\A i \in 1..BatchRows : ResultOK(i)')
  BY <1>1, <1>3, <1>4, <1>5, RowsStay
<1>10. FailedCallsCostNothing'
  BY <1>3, <1>5, <1>1, <1>4, ReservedAfter, <1>6 DEF InFlight, FailedCallsCostNothing
<1>11. BudgetTypeOK' /\ BatchType' /\ CapsOK'
  BY <1>1, <1>4, <1>6, <1>8 DEF BudgetTypeOK, BatchType, CapsOK, CapIsKept
<1>12. QED
  BY <1>6, <1>8, <1>9, <1>10, <1>11 DEF BudgetInv

\* reserveRequests: what is taken from the day is within the cap it was
\* compared with, and so within every later one's highest.
LEMMA ReserveKeeps ==
    ASSUME BudgetInv, NEW c \in Askers, Reserve(c)
    PROVE  BudgetInv'
<1> DEFINE spent == asker[c].day
           limit == LimitOf(asker[c].surface, asker[c].cap)
           deadline == instant + asker[c].limit
           e == [asker[c] EXCEPT !.pc = "fetch", !.deadline = deadline]
           to == IF asker[c].surface = "columns"
                 THEN Highest({tally.filledTo[spent], used[spent] + 1}) ELSE tally.filledTo[spent]
           f == [tally.filledTo EXCEPT ![spent] = to]
<1>1. /\ BudgetTypeOK /\ BatchType /\ TallyType /\ CapsOK /\ FailedCallsCostNothing
      /\ OwedOK(c) /\ InTime(asker[c]) /\ asker \in [Askers -> Asker] /\ asker[c] \in Asker
      /\ used \in [Days -> Nat] /\ instant \in 0..MaxInstant
  BY DEF BudgetInv, BudgetTypeOK, Instants
<1>2. /\ asker[c].pc = "reserve" /\ used[spent] + 1 <= limit
      /\ used' = [used EXCEPT ![spent] = @ + 1]
      /\ UNCHANGED <<cap, today, instant, batch>>
  BY DEF Reserve, Deciding, Fits
<1>3. /\ spent \in Days /\ asker[c].cap \in Nat /\ asker[c].limit \in 0..BatchDeadline
      /\ asker[c].surface \in Fills
  BY <1>1, AskerTypes
<1>4. tally' = [tally EXCEPT !.filledTo = f] /\ asker' = [asker EXCEPT ![c] = e]
  BY <1>1 DEF Reserve, TallyType
<1>5. e \in Asker /\ InFlight(e) /\ e.pc = "fetch" /\ e.day = spent /\ e.cap = asker[c].cap
      /\ e.row = asker[c].row /\ e.deadline = deadline
  <2>1. deadline \in 0..(MaxInstant + BatchDeadline)
    BY <1>1, <1>3, BudgetNumbers
  <2> HIDE DEF deadline
  <2>2. QED
    BY <1>1, <2>1 DEF Asker, InFlight
<1>6. InTime(e)
  BY <1>1, <1>2, <1>5 DEF InTime, InFlight
<1>7. asker[c].cap <= tally.highest /\ tally.highest \in Nat /\ tally.filledTo[spent] \in Nat
      /\ used[spent] \in Nat /\ tally.filledTo[spent] <= FillShare(tally.highest)
  BY <1>1, <1>2, <1>3 DEF CapsOK, TallyType, CapIsKept
<1>8. used[spent] + 1 <= tally.highest
  <2>1. limit <= asker[c].cap /\ limit \in Nat
    BY <1>3, FillShareGrows DEF LimitOf
  <2> HIDE DEF limit
  <2>2. QED
    BY <2>1, <1>2, <1>3, <1>7
<1>9. to \in Nat /\ to <= FillShare(tally.highest)
  <2>1. CASE asker[c].surface = "columns"
    <3>1. /\ FillShare(asker[c].cap) <= FillShare(tally.highest)
          /\ FillShare(asker[c].cap) \in Nat /\ FillShare(tally.highest) \in Nat
      BY <1>3, <1>7, FillShareGrows
    <3>2. used[spent] + 1 <= FillShare(asker[c].cap)
      BY <1>2, <2>1 DEF LimitOf
    <3>3. used[spent] + 1 <= FillShare(tally.highest)
      BY <3>1, <3>2, <1>7
    <3>4. to \in Nat /\ to \in {tally.filledTo[spent], used[spent] + 1}
      BY <1>7, HighestOfTwo, <2>1
    <3> HIDE DEF to
    <3>5. CASE to = tally.filledTo[spent]
      BY <1>7, <3>5
    <3>6. CASE to = used[spent] + 1
      BY <3>3, <3>4, <3>6
    <3>7. QED
      BY <3>4, <3>5, <3>6
  <2>2. CASE asker[c].surface # "columns"
    BY <2>2, <1>7
  <2>3. QED
    BY <2>1, <2>2
<1> HIDE DEF to, limit, deadline, e
<1>10. /\ f \in [Days -> Nat]
       /\ \A d \in Days : f[d] = IF d = spent THEN to ELSE tally.filledTo[d]
  BY <1>1, <1>3, <1>9 DEF TallyType
<1> HIDE DEF f
<1>11. /\ TallyType' /\ tally'.filledTo = f /\ tally'.highest = tally.highest
       /\ tally'.answered = tally.answered /\ tally'.lost = tally.lost
  BY <1>1, <1>4, <1>10 DEF TallyType
<1>12. /\ used' \in [Days -> Nat]
       /\ \A d \in Days : used'[d] = IF d = spent THEN used[d] + 1 ELSE used[d]
  BY <1>1, <1>2, <1>3
<1>13. CapIsKept'
  BY <1>1, <1>8, <1>9, <1>10, <1>11, <1>12 DEF CapsOK, CapIsKept
<1>14. FailedCallsCostNothing'
  <2>1. ~InFlight(asker[c])
    BY <1>2 DEF InFlight
  <2>2. ASSUME NEW d \in Days
        PROVE  used'[d] = tally'.answered[d] + tally'.lost[d] + Cardinality(Reserved(d)')
    <3>1. /\ Cardinality(Reserved(d)) \in Nat
          /\ d = spent => Cardinality(Reserved(d)') = Cardinality(Reserved(d)) + 1
          /\ d # spent => Cardinality(Reserved(d)') = Cardinality(Reserved(d))
      <4>1. /\ Cardinality(Reserved(d)) \in Nat
            /\ e.day = d => Cardinality(Reserved(d)') = Cardinality(Reserved(d)) + 1
            /\ e.day # d => Cardinality(Reserved(d)') = Cardinality(Reserved(d))
        BY <1>1, <1>4, <1>5, <2>1, ReservedAfter
      <4>2. QED
        BY <4>1, <1>5
    <3>2. /\ used[d] = tally.answered[d] + tally.lost[d] + Cardinality(Reserved(d))
          /\ tally.answered[d] \in Nat /\ tally.lost[d] \in Nat
      BY <1>1 DEF FailedCallsCostNothing, TallyType
    <3> HIDE DEF spent
    <3>3. QED
      BY <3>1, <3>2, <1>11, <1>12
  <2>3. QED
    BY <2>2 DEF FailedCallsCostNothing
<1>15. /\ asker' \in [Askers -> Asker]
       /\ \A b \in Askers : InTime(asker[b])'
       /\ \A b \in Askers : asker'[b].pc # "idle" => asker'[b].cap <= tally'.highest
  BY <1>2, <1>4, <1>5, <1>6, <1>7, <1>11, OthersStay
<1>16. (\A b \in Askers : OwedOK(b)') /\ (\A i \in 1..BatchRows : ResultOK(i)')
  BY <1>2, <1>4, <1>5, RowsStay
<1>17. BudgetTypeOK' /\ BatchType' /\ CapsOK'
  BY <1>1, <1>2, <1>11, <1>12, <1>13, <1>15 DEF BudgetTypeOK, BatchType, CapsOK
<1>18. QED
  BY <1>11, <1>14, <1>15, <1>16, <1>17 DEF BudgetInv

\* What every asker that has reserved may count on.
LEMMA FetchingAsker ==
    ASSUME BudgetInv, NEW c \in Askers
    PROVE  asker[c] \in Asker /\ InTime(asker[c]) /\ instant \in Nat /\ asker \in [Askers -> Asker]
BY BudgetNumbers DEF BudgetInv, BudgetTypeOK, Instants

LEMMA GivesUpKeeps ==
    ASSUME BudgetInv, NEW c \in Askers, Deciding(c, "fetch"), GivesUp(c),
           UNCHANGED <<cap, used, today, instant, batch, tally>>
    PROVE  BudgetInv'
<1> DEFINE e == [asker[c] EXCEPT !.pc = "release"]
<1>1. asker[c] \in Asker /\ InTime(asker[c]) /\ asker \in [Askers -> Asker]
  BY FetchingAsker
<1>2. asker' = [asker EXCEPT ![c] = e]
  BY <1>1 DEF GivesUp
<1>3. /\ e \in Asker /\ e.pc = "release" /\ e.day = asker[c].day /\ e.row = asker[c].row
      /\ e.cap = asker[c].cap /\ e.deadline = asker[c].deadline
  BY <1>1 DEF Asker
<1> HIDE DEF e
<1>4. InFlight(asker[c]) /\ InFlight(e) /\ InTime(e)
  BY <1>1, <1>3 DEF Deciding, InFlight, InTime
<1>5. QED
  BY <1>2, <1>3, <1>4, GoesOn

LEMMA TryAgainKeeps ==
    ASSUME BudgetInv, NEW c \in Askers, TryAgain(c)
    PROVE  BudgetInv'
<1>1. PICK delay \in Delays :
         /\ Deciding(c, "fetch") /\ instant < asker[c].deadline
         /\ IF asker[c].attempt >= MaxRetries \/ instant + delay >= asker[c].deadline
            THEN GivesUp(c)
            ELSE asker' = [asker EXCEPT ![c].pc = "sleep", ![c].attempt = @ + 1,
                                        ![c].until = instant + delay]
         /\ UNCHANGED <<cap, used, today, instant, batch, tally>>
  BY DEF TryAgain
<1>2. CASE asker[c].attempt >= MaxRetries \/ instant + delay >= asker[c].deadline
  BY <1>1, <1>2, GivesUpKeeps
<1>3. CASE ~ (asker[c].attempt >= MaxRetries \/ instant + delay >= asker[c].deadline)
  <2> DEFINE until == instant + delay
             attempt == asker[c].attempt + 1
             e == [asker[c] EXCEPT !.pc = "sleep", !.attempt = attempt, !.until = until]
  <2>1. /\ asker[c] \in Asker /\ InTime(asker[c]) /\ asker \in [Askers -> Asker]
        /\ instant \in Nat /\ asker[c].deadline \in 0..(MaxInstant + BatchDeadline)
        /\ asker[c].attempt \in 0..MaxRetries
    BY FetchingAsker DEF Asker
  <2>2. asker' = [asker EXCEPT ![c] = e]
    BY <1>1, <1>3, <2>1
  <2>3. /\ until \in 0..(MaxInstant + BatchDeadline) /\ until < asker[c].deadline
        /\ attempt \in 0..MaxRetries
    BY <1>3, <2>1, BudgetNumbers
  <2> HIDE DEF until, attempt
  <2>4. /\ e \in Asker /\ e.pc = "sleep" /\ e.day = asker[c].day /\ e.row = asker[c].row
        /\ e.cap = asker[c].cap /\ e.deadline = asker[c].deadline /\ e.until = until
    BY <2>1, <2>3 DEF Asker
  <2> HIDE DEF e
  <2>5. InFlight(asker[c]) /\ InFlight(e) /\ InTime(e)
    BY <1>1, <2>1, <2>3, <2>4 DEF Deciding, InFlight, InTime
  <2>6. QED
    BY <1>1, <2>2, <2>4, <2>5, GoesOn
<1>4. QED
  BY <1>2, <1>3

LEMMA WakeUpKeeps ==
    ASSUME BudgetInv, NEW c \in Askers, WakeUp(c)
    PROVE  BudgetInv'
<1> DEFINE e == [asker[c] EXCEPT !.pc = "fetch", !.until = 0]
<1>1. asker[c] \in Asker /\ InTime(asker[c]) /\ asker \in [Askers -> Asker]
  BY FetchingAsker
<1>2. /\ asker' = [asker EXCEPT ![c] = e] /\ asker[c].pc = "sleep"
      /\ UNCHANGED <<cap, used, today, instant, batch, tally>>
  BY <1>1 DEF WakeUp, Deciding
<1>3. /\ e \in Asker /\ e.pc = "fetch" /\ e.day = asker[c].day /\ e.row = asker[c].row
      /\ e.cap = asker[c].cap /\ e.deadline = asker[c].deadline
  <2>1. 0 \in 0..(MaxInstant + BatchDeadline)
    BY BudgetNumbers
  <2>2. QED
    BY <1>1, <2>1 DEF Asker
<1> HIDE DEF e
<1>4. InFlight(asker[c]) /\ InFlight(e) /\ InTime(e)
  BY <1>1, <1>2, <1>3 DEF InFlight, InTime
<1>5. QED
  BY <1>2, <1>3, <1>4, GoesOn

LEMMA SetCapKeeps ==
    ASSUME BudgetInv, NEW k \in Caps, SetCap(k)
    PROVE  BudgetInv'
<1> DEFINE highest == Highest({tally.highest, k})
<1>1. /\ BudgetTypeOK /\ BatchType /\ TallyType /\ CapsOK /\ FailedCallsCostNothing
      /\ tally.highest \in Nat /\ k \in Nat
  BY BudgetNumbers DEF BudgetInv, TallyType
<1>2. highest \in Nat /\ tally.highest <= highest /\ k <= highest
  BY <1>1, HighestOfTwo
<1>3. /\ tally' = [tally EXCEPT !.changes = @ + 1, !.highest = highest] /\ cap' = k
      /\ UNCHANGED <<used, today, instant, batch, asker>>
  BY DEF SetCap
<1> HIDE DEF highest
<1>4. /\ TallyType' /\ tally'.highest = highest /\ tally'.answered = tally.answered
      /\ tally'.lost = tally.lost /\ tally'.filledTo = tally.filledTo
  <2>1. tally.changes + 1 \in Nat /\ tally' = [tally EXCEPT !.changes = tally.changes + 1,
                                                           !.highest = highest]
    BY <1>1, <1>3 DEF TallyType
  <2>2. QED
    BY <1>1, <1>2, <2>1 DEF TallyType
<1>5. CapsOK'
  <2>1. /\ FillShare(tally.highest) <= FillShare(highest) /\ FillShare(tally.highest) \in Nat
        /\ FillShare(highest) \in Nat
    BY <1>1, <1>2, FillShareGrows
  <2>2. cap' <= tally'.highest
    BY <1>2, <1>3, <1>4
  <2>3. batch'.cap <= tally'.highest
    BY <1>1, BudgetNumbers, <1>2, <1>3, <1>4 DEF BatchType, CapsOK
  <2>4. ASSUME NEW c \in Askers, asker'[c].pc # "idle"
        PROVE  asker'[c].cap <= tally'.highest
    BY <1>1, <1>3, <2>4, AskerTypes, <1>2, <1>4 DEF BudgetTypeOK, CapsOK
  <2>5. CapIsKept'
    BY <1>1, <1>2, <1>3, <1>4, <2>1 DEF BudgetTypeOK, TallyType, CapsOK, CapIsKept
  <2>6. QED
    BY <2>2, <2>3, <2>4, <2>5 DEF CapsOK
<1>6. FailedCallsCostNothing'
  BY <1>1, <1>3, <1>4 DEF FailedCallsCostNothing, Reserved
<1>7. BudgetTypeOK' /\ BatchType'
  BY <1>1, <1>3 DEF BudgetTypeOK, BatchType
<1>8. /\ \A c \in Askers : OwedOK(c)' /\ InTime(asker[c])'
      /\ \A i \in 1..BatchRows : ResultOK(i)'
  BY <1>3 DEF BudgetInv, OwedOK, InTime, InFlight, ResultOK
<1>9. QED
  BY <1>4, <1>5, <1>6, <1>7, <1>8 DEF BudgetInv

LEMMA ClockKeeps ==
    ASSUME BudgetInv, Midnight \/ Elapse
    PROVE  BudgetInv'
<1>1. /\ BudgetTypeOK /\ BatchType /\ TallyType /\ CapsOK /\ FailedCallsCostNothing
      /\ instant \in 0..MaxInstant
      /\ \A c \in Askers : OwedOK(c) /\ InTime(asker[c]) /\ asker[c] \in Asker
  BY DEF BudgetInv, BudgetTypeOK, Instants
<1>2. UNCHANGED <<cap, used, batch, asker, tally>>
  BY DEF Midnight, Elapse
<1>3. today' \in Days /\ instant' \in Instants
  BY <1>1, BudgetNumbers DEF Midnight, Elapse, BudgetTypeOK, Days, Instants
<1>4. BudgetTypeOK' /\ BatchType' /\ TallyType' /\ CapsOK'
  BY <1>1, <1>2, <1>3 DEF BudgetTypeOK, BatchType, TallyType, CapsOK, CapIsKept
<1>5. FailedCallsCostNothing'
  BY <1>1, <1>2 DEF FailedCallsCostNothing, Reserved
<1>6. /\ \A c \in Askers : OwedOK(c)'
      /\ \A i \in 1..BatchRows : ResultOK(i)'
  BY <1>2 DEF BudgetInv, OwedOK, ResultOK
<1>7. ASSUME NEW c \in Askers
      PROVE  InTime(asker[c])'
  <2>1. InTime(asker[c]) /\ OwedOK(c) /\ asker'[c] = asker[c]
    BY <1>1, <1>2
  <2>2. CASE instant' = instant
    BY <2>1, <2>2 DEF InTime, InFlight
  <2>3. CASE Elapse
    BY <1>1, AskerTypes, <2>3, <2>1, BudgetNumbers DEF Elapse, Deciding, InTime, InFlight,
       OwedOK
  <2>4. QED
    BY <2>2, <2>3 DEF Midnight
<1>8. QED
  BY <1>4, <1>5, <1>6, <1>7 DEF BudgetInv

-----------------------------------------------------------------------------
LEMMA BudgetInitially == BudgetInit => BudgetInv
<1> SUFFICES ASSUME BudgetInit PROVE BudgetInv
  OBVIOUS
<1>1. PICK n \in UsedBefore :
         /\ used = [d \in Days |-> IF d = 1 THEN n ELSE 0]
         /\ tally = [answered |-> used, filledTo |-> [d \in Days |-> 0],
                     lost |-> [d \in Days |-> 0], highest |-> Highest({cap, n}),
                     changes |-> 0, questions |-> 0]
  BY DEF BudgetInit
<1>2. PICK s \in Fills :
         batch = [surface |-> s, cap |-> cap, next |-> 1, result |-> [i \in 1..BatchRows |-> {}]]
  BY DEF BudgetInit
<1>3. /\ cap \in Caps /\ cap \in Nat /\ n \in Nat /\ today = 1 /\ instant = 0
      /\ asker = [c \in Askers |-> NotDeciding] /\ NotDeciding \in Asker
  BY NotDecidingIsAsker, BudgetNumbers DEF BudgetInit
<1>4. /\ NotDeciding.pc = "idle" /\ NotDeciding.row = 0
  BY DEF NotDeciding
<1> DEFINE highest == Highest({cap, n})
<1>5. highest \in Nat /\ cap <= highest /\ n <= highest
  BY <1>3, HighestOfTwo
<1> HIDE DEF highest
<1>6. /\ used \in [Days -> Nat] /\ \A d \in Days : used[d] <= highest
  BY <1>1, <1>3, <1>5 DEF Days
<1>7. /\ TallyType /\ tally.highest = highest /\ tally.answered = used
      /\ \A d \in Days : tally.lost[d] = 0 /\ tally.filledTo[d] = 0
  BY <1>1, <1>5, <1>6 DEF highest, TallyType
<1>8. BatchType /\ batch.cap = cap /\ batch.next = 1
      /\ \A i \in 1..BatchRows : batch.result[i] = {}
  BY BudgetNumbers, <1>2, <1>3 DEF BatchType
<1>9. BudgetTypeOK
  BY <1>3, <1>6, <1>8, BudgetNumbers DEF BudgetTypeOK, BatchType, Days, Instants
<1>10. FailedCallsCostNothing
  <2>1. ASSUME NEW d \in Days
        PROVE  used[d] = tally.answered[d] + tally.lost[d] + Cardinality(Reserved(d))
    <3>1. Reserved(d) = {}
      BY <1>3, <1>4 DEF Reserved
    <3>2. Cardinality(Reserved(d)) = 0
      BY <3>1, FS_EmptySet
    <3>3. used[d] \in Nat /\ tally.answered[d] = used[d] /\ tally.lost[d] = 0
      BY <1>6, <1>7
    <3>4. QED
      BY <3>2, <3>3
  <2>2. QED
    BY <2>1 DEF FailedCallsCostNothing
<1>11. CapsOK
  BY <1>5, FillShareGrows, <1>7, <1>3, <1>4, <1>6, <1>8 DEF CapsOK, CapIsKept
<1>12. \A c \in Askers : OwedOK(c) /\ InTime(asker[c])
  BY <1>3, <1>4 DEF OwedOK, InTime
<1>13. \A i \in 1..BatchRows : ResultOK(i)
  <2>1. TAKE i \in 1..BatchRows
  <2>2. ~ (i < batch.next)
    BY <1>8, BudgetNumbers
  <2>3. QED
    BY <2>2, <1>8 DEF ResultOK
<1>14. QED
  BY <1>7, <1>8, <1>9, <1>10, <1>11, <1>12, <1>13 DEF BudgetInv

LEMMA BudgetInductive == BudgetInv /\ [BudgetNext]_budgetVars => BudgetInv'
<1> SUFFICES ASSUME BudgetInv, [BudgetNext]_budgetVars PROVE BudgetInv'
  OBVIOUS
<1>1. ASSUME NEW c \in Workers, TakeRow(c) PROVE BudgetInv'
  BY <1>1, TakeRowKeeps
<1>2. ASSUME NEW c \in Others, BeginDecide(c) PROVE BudgetInv'
  BY <1>2, BeginDecideKeeps
<1>3. ASSUME NEW c \in Askers, DecideStep(c) PROVE BudgetInv'
  <2>1. CASE DecideFails(c) \/ BudgetExceeded(c)
    BY <2>1, ReturnsUnreserved DEF DecideFails, BudgetExceeded, Outcomes, Deciding
  <2>2. CASE Reserve(c)
    BY <2>2, ReserveKeeps
  <2>3. CASE Answered(c)
    BY <2>3, AnsweredKeeps
  <2>4. CASE Refused(c) \/ TimedOut(c)
    BY <2>4, GivesUpKeeps DEF Refused, TimedOut
  <2>5. CASE TryAgain(c)
    BY <2>5, TryAgainKeeps
  <2>6. CASE WakeUp(c)
    BY <2>6, WakeUpKeeps
  <2>7. CASE Release(c)
    BY <2>7, ReleaseKeeps
  <2>8. CASE ReleaseFails(c)
    BY <2>8, ReleaseFailsKeeps
  <2>9. QED
    BY <1>3, <2>1, <2>2, <2>3, <2>4, <2>5, <2>6, <2>7, <2>8 DEF DecideStep
<1>4. ASSUME NEW k \in Caps, SetCap(k) PROVE BudgetInv'
  BY <1>4, SetCapKeeps
<1>5. CASE Midnight \/ Elapse
  BY <1>5, ClockKeeps
<1>6. CASE UNCHANGED budgetVars
  <2>1. UNCHANGED <<cap, used, today, instant, batch, asker, tally>>
    BY <1>6 DEF budgetVars
  <2>2. /\ BudgetTypeOK' /\ BatchType' /\ TallyType' /\ CapsOK'
        /\ \A c \in Askers : OwedOK(c)' /\ InTime(asker[c])'
    BY <2>1 DEF BudgetInv, BudgetTypeOK, BatchType, TallyType, CapsOK, CapIsKept, OwedOK, InTime,
                InFlight
  <2>3. FailedCallsCostNothing' /\ \A i \in 1..BatchRows : ResultOK(i)'
    BY <2>1 DEF BudgetInv, FailedCallsCostNothing, Reserved, ResultOK
  <2>4. QED
    BY <2>2, <2>3 DEF BudgetInv
<1>7. QED
  BY <1>1, <1>2, <1>3, <1>4, <1>5, <1>6 DEF BudgetNext

LEMMA BudgetHolds == BudgetInv => FailedCallsCostNothing /\ CapIsKept /\ RowsAreDecidedOnceInTime
<1> SUFFICES ASSUME BudgetInv PROVE RowsAreDecidedOnceInTime
  BY DEF BudgetInv, CapsOK
<1>1. /\ \A i \in 1..BatchRows : ResultOK(i)
      /\ \A c \in Askers : OwedOK(c) /\ InTime(asker[c])
      /\ batch.next \in 1..(BatchRows + 1) /\ instant \in Nat /\ Workers \subseteq Askers
  BY BudgetNumbers DEF BudgetInv, BatchType, BudgetTypeOK, Instants, Askers
<1>2. ASSUME NEW i \in 1..BatchRows
      PROVE  Cardinality(batch.result[i]) <= 1
  <2>1. CASE batch.result[i] = {}
    BY <2>1, FS_EmptySet
  <2>2. ASSUME NEW o \in Outcomes, batch.result[i] = {o}
        PROVE  Cardinality(batch.result[i]) <= 1
    <3>1. Cardinality(batch.result[i]) = 1
      BY <2>2, FS_Singleton
    <3>2. QED
      BY <3>1
  <2>3. QED
    BY <1>1, <2>1, <2>2 DEF ResultOK
<1>3. ASSUME batch.next > BatchRows, \A c \in Workers : Deciding(c, "idle"), NEW i \in 1..BatchRows
      PROVE  batch.result[i] # {}
  BY <1>1, <1>3, BudgetNumbers DEF OwedOK, Deciding, ResultOK
<1>4. ASSUME instant > BatchDeadline, NEW c \in Workers
      PROVE  asker[c].row = 0
  BY <1>1, <1>4, BudgetNumbers DEF InTime
<1>5. QED
  BY <1>2, <1>3, <1>4 DEF RowsAreDecidedOnceInTime

\* Whatever the workers, the questions and the admins do and however late the
\* provider answers, the counts, the caps read and the rows owed agree.
THEOREM BudgetInvariance == BudgetSpec => []BudgetInv
<1>1. QED
  BY BudgetInitially, BudgetInductive, PTL DEF BudgetSpec

\* A failed call costs nothing and gives back on the day it took (decideOne,
\* reserveRequests, releaseRequests).
THEOREM NothingIsLost == BudgetSpec => []FailedCallsCostNothing
<1>1. QED
  BY BudgetInvariance, BudgetHolds, PTL

\* No day passes a cap an admin has set, and AI columns stay within their share of
\* it (reserveRequests, fillShare).
THEOREM CapHolds == BudgetSpec => []CapIsKept
<1>1. QED
  BY BudgetInvariance, BudgetHolds, PTL

\* Each row gets its one result and none is begun or held past the batch's
\* deadline (decideRows, runPool, callSystemOne).
THEOREM RowsDecided == BudgetSpec => []RowsAreDecidedOnceInTime
<1>1. QED
  BY BudgetInvariance, BudgetHolds, PTL

-----------------------------------------------------------------------------
(* DataTables.  TablesInv is the inductive invariant: besides what the     *)
(* catalog tells of the tables, what a call in flight has read that stays  *)
(* so, and that a table nobody has made yet is blank.                      *)

Blank(r, s) == /\ r.status = "none" => r.fields = NoFields /\ s.columns = {} /\ s.checks = {}
               /\ s.life = "live" => r.status # "none" /\ s.name \in Names

\* What a catalog row tells of its table: the columns of its fields, and the
\* choices each is held to.
ToldTable(r, s) ==
    r.status = "active" =>
        /\ s.life = "live" /\ s.name = r.name
        /\ \A f \in Fields : f \in s.columns <=> r.fields[f] # NoField

ToldChecks(r, s) ==
    r.status = "active" =>
        \A n \in Names, f \in Fields, x \in Choices :
            <<n, f, x>> \in s.checks <=> n = r.name /\ r.fields[f] = <<"choices", x>>

Made == {t \in TableIds : catalog[t].status # "none"}

\* What a call holds of the tables made, and of the field it changes.
WorkOK(w, made) ==
    /\ w.op # "none" => w.name \in Names /\ w.to \in Names
    /\ w.pc = "idle" <=> w.op = "none"
    /\ w.pc = "hydrate" => w.op = "rename"
    /\ w.pc = "check" => w.op = "drop"
    /\ w.pc \in {"hydrate", "check", "commit"} /\ w.op # "create" => w.id \in made
    /\ w.op = "addField" => w.spec \in Field
    /\ w.op = "updateField" => HasChoices(w.spec) /\ w.spec \in Field
    /\ w.op = "updateField" /\ w.pc \in {"row", "commit"} => HasChoices(w.seen[w.field])

TablesInv ==
    /\ TablesTypeOK
    /\ \A c \in Clients : WorkOK(work[c], Made)
    /\ \A t \in TableIds : Blank(catalog[t], table[t])
    /\ \A t \in TableIds \ upset.crossed : ToldTable(catalog[t], table[t])
    /\ \A t \in TableIds \ (upset.crossed \cup upset.raced) : ToldChecks(catalog[t], table[t])
    /\ TrashIsKept

-----------------------------------------------------------------------------
(* Fields and the constraints for them                                     *)

LEMMA FieldKinds ==
    /\ NoField \notin Field /\ ~HasChoices(NoField)
    /\ \A f \in Field \cup {NoField} : HasChoices(f) <=> \E x \in Choices : f = <<"choices", x>>
    /\ \A x \in Choices : <<"choices", x>> \in Field /\ <<"choices", x>>[2] = x
    /\ \A n \in Names : <<"relation", n>> \in Field /\ ~HasChoices(<<"relation", n>>)
    /\ \A n, x : <<"relation", n>> # <<"choices", x>> /\ <<"relation", n>> # NoField
BY DEF Field, NoField, HasChoices

LEMMA ChecksOfField ==
    ASSUME NEW n, NEW f, NEW spec \in Field \cup {NoField}, NEW m, NEW g, NEW x
    PROVE  <<m, g, x>> \in ChecksOf(n, f, spec) <=> m = n /\ g = f /\ spec = <<"choices", x>>
BY FieldKinds DEF ChecksOf, HasChoices

LEMMA ChecksAreTriples ==
    ASSUME NEW n \in Names, NEW f \in Fields, NEW spec \in Field \cup {NoField}
    PROVE  ChecksOf(n, f, spec) \subseteq Names \X Fields \X Choices
BY FieldKinds DEF ChecksOf

\* The catalog's promises in the words of the module.
LEMMA TablesAreTold == TablesInv => TablesTypeOK /\ CatalogTellsOfTables /\ ChoicesAreChecked /\ TrashIsKept
<1> SUFFICES ASSUME TablesInv PROVE CatalogTellsOfTables /\ ChoicesAreChecked
  BY DEF TablesInv
<1>1. ASSUME NEW t \in TableIds
      PROVE  /\ table[t].columns \in SUBSET Fields /\ table[t].checks \in SUBSET (Names \X Fields \X Choices)
             /\ catalog[t].name \in Names \cup {NoName}
             /\ \A f \in Fields : catalog[t].fields[f] \in Field \cup {NoField}
  BY DEF TablesInv, TablesTypeOK, Table, CatalogRow
<1>2. CatalogTellsOfTables
  BY <1>1 DEF TablesInv, ToldTable, Columns, CatalogTellsOfTables
<1>3. ChoicesAreChecked
  <2>1. ASSUME NEW t \in TableIds \ (upset.crossed \cup upset.raced), catalog[t].status = "active"
        PROVE  table[t].checks = UNION {ChecksOf(catalog[t].name, f, catalog[t].fields[f]) : f \in Fields}
    <3> DEFINE told == UNION {ChecksOf(catalog[t].name, f, catalog[t].fields[f]) : f \in Fields}
    <3>1. catalog[t].name \in Names
      BY <2>1 DEF TablesInv, Blank, ToldTable
    <3>2. ASSUME NEW n \in Names, NEW f \in Fields, NEW x \in Choices
          PROVE  <<n, f, x>> \in table[t].checks <=> <<n, f, x>> \in told
      <4>1. <<n, f, x>> \in told <=>
              \E g \in Fields : <<n, f, x>> \in ChecksOf(catalog[t].name, g, catalog[t].fields[g])
        OBVIOUS
      <4>2. ASSUME NEW g \in Fields
            PROVE  <<n, f, x>> \in ChecksOf(catalog[t].name, g, catalog[t].fields[g]) <=>
                     n = catalog[t].name /\ f = g /\ catalog[t].fields[g] = <<"choices", x>>
        <5> DEFINE spec == catalog[t].fields[g]
                   name == catalog[t].name
        <5>1. spec \in Field \cup {NoField}
          BY <1>1
        <5> HIDE DEF told, spec, name
        <5>2. <<n, f, x>> \in ChecksOf(name, g, spec) <=> n = name /\ f = g /\ spec = <<"choices", x>>
          BY <5>1, ChecksOfField
        <5>3. QED
          BY <5>2 DEF spec, name
      <4>3. <<n, f, x>> \in table[t].checks <=> n = catalog[t].name /\ catalog[t].fields[f] = <<"choices", x>>
        BY <2>1 DEF TablesInv, ToldChecks
      <4> HIDE DEF told
      <4>4. QED
        BY <4>1, <4>2, <4>3
    <3>3. told \subseteq Names \X Fields \X Choices
      BY <1>1, <3>1, ChecksAreTriples
    <3>4. QED
      BY <1>1, <3>2, <3>3
  <2>2. QED
    BY <2>1 DEF ChoicesAreChecked
<1>4. QED
  BY <1>2, <1>3

-----------------------------------------------------------------------------
(* What a transaction keeps                                                *)

\* A row of which the tables and their checks are told as before.
Like(r, q) ==
    /\ r.status = q.status /\ r.name = q.name
    /\ \A f \in Fields : /\ r.fields[f] = NoField <=> q.fields[f] = NoField
                         /\ \A x \in Choices : r.fields[f] = <<"choices", x>> <=> q.fields[f] = <<"choices", x>>

LEMMA LikeTold ==
    ASSUME NEW r, NEW q, NEW s, Like(r, q), ToldChecks(r, s) PROVE ToldChecks(q, s)
BY DEF Like, ToldChecks

LEMMA UnoccupiedIsWork == Unoccupied \in Work
BY TablesAssumption DEF NoFields, Unoccupied, Work

LEMMA FinishedKeeps ==
    ASSUME TablesInv, NEW c \in Clients, Finished(c), Made \subseteq Made'
    PROVE  work' \in [Clients -> Work] /\ \A d \in Clients : WorkOK(work'[d], Made')
BY UnoccupiedIsWork DEF Finished, TablesInv, TablesTypeOK, WorkOK, Unoccupied

LEMMA NotedKeeps ==
    ASSUME TablesInv, NEW c \in Clients, NEW t \in TableIds, Notes(c, t), work[c].id \in TableIds,
           \A x \in TableIds \ {work[c].id, t} : Like(catalog[x], catalog'[x]) /\ table'[x] = table[x],
           t = work[c].id /\ t \notin upset.crossed => ToldTable(catalog'[t], table'[t]),
           t = work[c].id /\ t \notin upset.crossed \cup upset.raced \cup Racing(c) => ToldChecks(catalog'[t], table'[t])
    PROVE  /\ upset' \in Upset /\ TrashIsKept'
           /\ \A x \in TableIds \ upset'.crossed : ToldTable(catalog'[x], table'[x])
           /\ \A x \in TableIds \ (upset'.crossed \cup upset'.raced) : ToldChecks(catalog'[x], table'[x])
<1>1. upset \in Upset /\ ~upset.lost
  BY DEF TablesInv, TablesTypeOK, TrashIsKept
<1>2. Crossing(c, t) = {work[c].id, t} \ {x \in {t} : work[c].id = t} /\ Racing(c) \in SUBSET TableIds
  BY DEF Crossing, Racing
<1>3. upset' = [upset EXCEPT !.crossed = @ \cup Crossing(c, t), !.raced = @ \cup Racing(c)]
  BY DEF Notes
<1>4. /\ upset'.crossed = upset.crossed \cup Crossing(c, t) /\ upset'.raced = upset.raced \cup Racing(c)
      /\ upset' \in Upset /\ ~upset'.lost
  BY <1>1, <1>2, <1>3 DEF Upset
<1>5. ASSUME NEW x \in TableIds \ upset'.crossed PROVE ToldTable(catalog'[x], table'[x])
  BY <1>2, <1>4, <1>5 DEF TablesInv, ToldTable, Like
<1>6. ASSUME NEW x \in TableIds \ (upset'.crossed \cup upset'.raced) PROVE ToldChecks(catalog'[x], table'[x])
  BY <1>2, <1>4, <1>6, LikeTold DEF TablesInv
<1>7. QED
  BY <1>4, <1>5, <1>6 DEF TrashIsKept

\* A call that only reads keeps what the others hold.
LEMMA ReadingKeeps ==
    ASSUME TablesInv, NEW c \in Clients, work' \in [Clients -> Work], WorkOK(work'[c], Made),
           \A d \in Clients \ {c} : work'[d] = work[d], UNCHANGED <<catalog, table, day>>,
           upset' \in Upset, upset'.crossed = upset.crossed, upset'.raced = upset.raced,
           upset'.lost <=> upset.lost
    PROVE  TablesInv'
BY DEF Made, TablesInv, TablesTypeOK, TrashIsKept

\* A transaction that tells of its table, and leaves the tables nobody made.
LEMMA Committed ==
    ASSUME TablesInv, NEW c \in Clients, NEW t \in TableIds, Notes(c, t), Finished(c), UNCHANGED day,
           work[c].id \in TableIds,
           catalog' \in [TableIds -> CatalogRow], table' \in [TableIds -> Table],
           \A x \in TableIds :
             /\ catalog'[x].status = "none" <=> catalog[x].status = "none"
             /\ catalog[x].status = "none" => catalog'[x] = catalog[x] /\ table'[x] = table[x]
             /\ table'[x].life = "live" => table[x].life = "live" /\ table'[x].name \in Names,
           \A x \in TableIds \ {work[c].id, t} : Like(catalog[x], catalog'[x]) /\ table'[x] = table[x],
           t = work[c].id /\ t \notin upset.crossed => ToldTable(catalog'[t], table'[t]),
           t = work[c].id /\ t \notin upset.crossed \cup upset.raced \cup Racing(c) => ToldChecks(catalog'[t], table'[t])
    PROVE  TablesInv'
BY NotedKeeps, FinishedKeeps DEF Made, TablesInv, Blank, TablesTypeOK

-----------------------------------------------------------------------------
(* Reading the catalog                                                     *)

LEMMA CallBegins == ASSUME TablesInv, NEW c \in Clients, BeginWork(c) PROVE TablesInv'
<1>1. PICK op \in Operations, n \in Names, to \in Names, f \in Fields, spec \in Field \cup {NoField}, hard \in BOOLEAN :
        /\ Doing(c, "idle") /\ upset.calls < MaxCalls
        /\ CASE op = "addField"    -> spec # NoField /\ to = n /\ ~hard
             [] op = "updateField" -> HasChoices(spec) /\ to = n /\ ~hard
             [] op = "removeField" -> spec = NoField /\ to = n
             [] op = "drop"        -> spec = NoField /\ to = n /\ f = Unoccupied.field
             [] op = "rename"      -> spec = NoField /\ to # n /\ f = Unoccupied.field /\ ~hard
             [] op = "create"      -> spec = NoField /\ to = n /\ f = Unoccupied.field /\ ~hard
        /\ IF op = "create" THEN Active(n) = {} ELSE Active(n) # {}
        /\ work' = [work EXCEPT ![c] = [Unoccupied EXCEPT
                !.op = op, !.name = n, !.to = to, !.field = f, !.spec = spec, !.hard = hard,
                !.pc = CASE op = "create" -> "commit"
                         [] op \in {"drop", "rename"} -> "row"
                         [] OTHER -> "info"]]
        /\ upset' = [upset EXCEPT !.calls = @ + 1]
        /\ UNCHANGED <<catalog, table, day>>
  BY DEF BeginWork
<1> DEFINE pc == CASE op = "create" -> "commit" [] op \in {"drop", "rename"} -> "row" [] OTHER -> "info"
           w  == [Unoccupied EXCEPT !.op = op, !.name = n, !.to = to, !.field = f,
                                    !.spec = spec, !.hard = hard, !.pc = pc]
<1>2. /\ op = "create" => pc = "commit"
      /\ op # "create" => pc \in {"row", "info"}
      /\ op = "updateField" => pc = "info"
      /\ pc \in {"commit", "row", "info"}
  BY DEF Operations
<1>3. /\ op = "addField" => spec # NoField
      /\ op = "updateField" => HasChoices(spec)
  BY <1>1
<1>4. work' = [work EXCEPT ![c] = w] /\ upset' = [upset EXCEPT !.calls = @ + 1]
      /\ upset.calls < MaxCalls /\ UNCHANGED <<catalog, table, day>>
  BY <1>1
<1> HIDE DEF pc
<1>5. w \in Work /\ w.op = op /\ w.name = n /\ w.to = to /\ w.spec = spec /\ w.pc = pc
  BY <1>2, UnoccupiedIsWork DEF Work
<1> HIDE DEF w
<1>6. WorkOK(w, Made)
  BY <1>3, FieldKinds, <1>2, <1>5 DEF Operations, WorkOK
<1>7. /\ work' \in [Clients -> Work] /\ work'[c] = w
      /\ \A d \in Clients \ {c} : work'[d] = work[d]
  BY <1>4, <1>5 DEF TablesInv, TablesTypeOK
<1>8. /\ upset' \in Upset /\ upset'.crossed = upset.crossed /\ upset'.raced = upset.raced
      /\ upset'.lost <=> upset.lost
  BY <1>4, TablesAssumption DEF TablesInv, TablesTypeOK, Upset
<1>9. QED
  BY <1>4, <1>6, <1>7, <1>8, ReadingKeeps

LEMMA InfoIsRead == ASSUME TablesInv, NEW c \in Clients, ReadInfo(c) PROVE TablesInv'
<1>1. PICK t \in Active(work[c].name) :
        /\ work[c].pc = "info"
        /\ work[c].op = "updateField" => HasChoices(catalog[t].fields[work[c].field])
        /\ work' = [work EXCEPT ![c].pc = "row", ![c].seen = catalog[t].fields]
        /\ UNCHANGED <<catalog, table, day, upset>>
  BY DEF ReadInfo, Doing
<1>2. catalog[t].fields \in [Fields -> Field \cup {NoField}] /\ work \in [Clients -> Work] /\ upset \in Upset
      /\ WorkOK(work[c], Made)
  BY DEF TablesInv, TablesTypeOK, CatalogRow, Active
<1> DEFINE seen == catalog[t].fields
<1> HIDE DEF seen
<1>3. work' = [work EXCEPT ![c].pc = "row", ![c].seen = seen] /\ seen \in [Fields -> Field \cup {NoField}]
  BY <1>1, <1>2 DEF seen
<1> DEFINE w == [work[c] EXCEPT !.pc = "row", !.seen = seen]
<1>4. work' = [work EXCEPT ![c] = w]
  BY <1>2, <1>3
<1>5. /\ w \in Work /\ w.pc = "row" /\ w.seen = seen /\ w.op = work[c].op /\ w.name = work[c].name
      /\ w.to = work[c].to /\ w.field = work[c].field /\ w.spec = work[c].spec
  <2>1. work[c] \in Work /\ seen \in [Fields -> Field \cup {NoField}]
    BY <1>2, <1>3
  <2>2. QED
    BY <2>1 DEF Work
<1> HIDE DEF w
<1>6. /\ work'[c] = w /\ work' \in [Clients -> Work] /\ \A d \in Clients \ {c} : work'[d] = work[d]
  BY <1>2, <1>4, <1>5
<1>7. WorkOK(work'[c], Made)
  BY <1>1, <1>2, <1>5, <1>6 DEF seen, WorkOK
<1>8. UNCHANGED <<catalog, table, day, upset>>
  BY <1>1
<1>9. QED
  BY <1>2, <1>6, <1>7, <1>8, ReadingKeeps

\* A call moves on, with the id it found or the one it had.
LEMMA WorkMovesOn ==
    ASSUME TablesInv, NEW c \in Clients, NEW w, work' = [work EXCEPT ![c] = w], w \in Work,
           w.pc \in {"hydrate", "check", "commit"}, w.id \in Made,
           w.op = work[c].op, w.name = work[c].name, w.to = work[c].to,
           w.field = work[c].field, w.spec = work[c].spec,
           w.op # "none", w.pc = "hydrate" => w.op = "rename", w.pc = "check" => w.op = "drop",
           w.op = "updateField" => HasChoices(w.seen[w.field]),
           UNCHANGED <<catalog, table, day, upset>>
    PROVE  TablesInv'
BY ReadingKeeps DEF TablesInv, TablesTypeOK, WorkOK

LEMMA RowIsRead == ASSUME TablesInv, NEW c \in Clients, ReadRow(c) PROVE TablesInv'
<1>1. PICK t \in Active(work[c].name) :
        /\ work[c].pc = "row"
        /\ work' = [work EXCEPT ![c].id = t, ![c].pc =
                      CASE work[c].op = "rename" -> "hydrate"
                        [] work[c].op = "drop" -> "check" [] OTHER -> "commit"]
        /\ UNCHANGED <<catalog, table, day, upset>>
  BY DEF ReadRow, Doing
<1> DEFINE pc == CASE work[c].op = "rename" -> "hydrate" [] work[c].op = "drop" -> "check" [] OTHER -> "commit"
<1>2. /\ pc \in {"hydrate", "check", "commit"} /\ (pc = "hydrate" => work[c].op = "rename")
      /\ pc = "check" => work[c].op = "drop"
  OBVIOUS
<1>3. t \in Made
  BY DEF Made, Active
<1>4. work \in [Clients -> Work] /\ work[c].seen \in [Fields -> Field \cup {NoField}] /\ WorkOK(work[c], Made)
  BY DEF TablesInv, TablesTypeOK, Work
<1>5. work' = [work EXCEPT ![c].id = t, ![c].pc = pc] /\ work[c].pc = "row"
      /\ UNCHANGED <<catalog, table, day, upset>>
  BY <1>1
<1> HIDE DEF pc
<1> DEFINE w == [work[c] EXCEPT !.id = t, !.pc = pc]
<1>6. work' = [work EXCEPT ![c] = w]
  BY <1>4, <1>5
<1>7. /\ w \in Work /\ w.pc = pc /\ w.id = t /\ w.op = work[c].op /\ w.name = work[c].name /\ w.to = work[c].to
      /\ w.field = work[c].field /\ w.spec = work[c].spec /\ w.seen = work[c].seen
  BY <1>2, <1>3, <1>4 DEF Work, Made
<1> HIDE DEF w
<1>8. w.op # "none" /\ (w.op = "updateField" => HasChoices(w.seen[w.field]))
  BY <1>4, <1>5, <1>7 DEF WorkOK
<1>9. QED
  <2>1. w.pc \in {"hydrate", "check", "commit"} /\ w.id \in Made
        /\ (w.pc = "hydrate" => w.op = "rename") /\ (w.pc = "check" => w.op = "drop")
    BY <1>2, <1>3, <1>7
  <2>2. UNCHANGED <<catalog, table, day, upset>>
    BY <1>5
  <2>3. QED
    BY <1>6, <1>7, <1>8, <2>1, <2>2, WorkMovesOn

LEMMA TableIsHydrated == ASSUME TablesInv, NEW c \in Clients, Hydrate(c) PROVE TablesInv'
<1> DEFINE seen == catalog[work[c].id].fields
<1>1. work' = [work EXCEPT ![c].pc = "commit", ![c].seen = seen] /\ work[c].pc = "hydrate"
      /\ UNCHANGED <<catalog, table, day, upset>>
  BY DEF Hydrate, Doing
<1>2. work \in [Clients -> Work] /\ WorkOK(work[c], Made)
  BY DEF TablesInv, TablesTypeOK
<1>3. work[c].op = "rename" /\ work[c].id \in Made
  BY <1>1, <1>2 DEF WorkOK
<1>4. seen \in [Fields -> Field \cup {NoField}]
  BY <1>3 DEF TablesInv, TablesTypeOK, CatalogRow, Made
<1> HIDE DEF seen
<1> DEFINE w == [work[c] EXCEPT !.pc = "commit", !.seen = seen]
<1>5. work' = [work EXCEPT ![c] = w]
  BY <1>1, <1>2
<1>6. /\ w \in Work /\ w.pc = "commit" /\ w.id = work[c].id /\ w.op = work[c].op /\ w.name = work[c].name
      /\ w.to = work[c].to /\ w.field = work[c].field /\ w.spec = work[c].spec
  BY <1>2, <1>4, ZenonT(40) DEF Work
<1> HIDE DEF w
<1>7. QED
  BY <1>1, <1>3, <1>5, <1>6, WorkMovesOn

LEMMA ReferencesAreChecked == ASSUME TablesInv, NEW c \in Clients, CheckReferences(c) PROVE TablesInv'
<1>1. work' = [work EXCEPT ![c].pc = "commit"] /\ work[c].pc = "check"
      /\ UNCHANGED <<catalog, table, day, upset>>
  BY DEF CheckReferences, Proceed, Doing
<1>2. work \in [Clients -> Work] /\ WorkOK(work[c], Made) /\ work[c].seen \in [Fields -> Field \cup {NoField}]
  BY DEF TablesInv, TablesTypeOK, Work
<1>3. work[c].op = "drop" /\ work[c].id \in Made
  BY <1>1, <1>2 DEF WorkOK
<1> DEFINE w == [work[c] EXCEPT !.pc = "commit"]
<1>4. work' = [work EXCEPT ![c] = w]
  BY <1>1, <1>2
<1>5. /\ w \in Work /\ w.pc = "commit" /\ w.id = work[c].id /\ w.op = work[c].op /\ w.name = work[c].name
      /\ w.to = work[c].to /\ w.field = work[c].field /\ w.spec = work[c].spec
  BY <1>2 DEF Work
<1> HIDE DEF w
<1>6. QED
  BY <1>1, <1>3, <1>4, <1>5, WorkMovesOn

LEMMA CallIsRolledBack == ASSUME TablesInv, NEW c \in Clients, WorkFails(c) PROVE TablesInv'
BY FinishedKeeps, ReadingKeeps DEF WorkFails, Made, Finished, TablesInv, TablesTypeOK

LEMMA DayPasses == TablesInv /\ NextDay => TablesInv'
<1> SUFFICES ASSUME TablesInv, NextDay PROVE TablesInv'
  OBVIOUS
<1>1. day' \in 0..LastDay /\ UNCHANGED <<catalog, table, work, upset>>
  BY TablesAssumption DEF NextDay, TablesInv, TablesTypeOK
<1>2. QED
  BY <1>1 DEF TablesInv, TablesTypeOK, Made, TrashIsKept

-----------------------------------------------------------------------------
(* The transactions: one field                                             *)

LEMMA FieldWritten ==
    ASSUME NEW r \in CatalogRow, NEW f \in Fields, NEW spec \in Field \cup {NoField}, NEW q,
           q = [r EXCEPT !.fields[f] = spec]
    PROVE  /\ q \in CatalogRow /\ q.status = r.status /\ q.name = r.name /\ q.fields[f] = spec
           /\ \A g \in Fields \ {f} : q.fields[g] = r.fields[g]
BY DEF CatalogRow

\* A row and its table become q and u, which differ in one field at most.
OnlyField(r, s, q, u, f) ==
    /\ q.status = r.status /\ q.name = r.name /\ u.life = s.life /\ u.name = s.name
    /\ \A g \in Fields \ {f} : q.fields[g] = r.fields[g] /\ (g \in u.columns <=> g \in s.columns)
    /\ \A m \in Names, g \in Fields \ {f}, x \in Choices : <<m, g, x>> \in u.checks <=> <<m, g, x>> \in s.checks

FieldTold(q, u, f)    == f \in u.columns <=> q.fields[f] # NoField
FieldChecked(q, u, f) ==
    \A m \in Names, x \in Choices : <<m, f, x>> \in u.checks <=> m = q.name /\ q.fields[f] = <<"choices", x>>

LEMMA OneFieldTold ==
    ASSUME NEW r, NEW s, NEW q, NEW u, NEW f \in Fields, ToldTable(r, s), OnlyField(r, s, q, u, f),
           r.status = "active" => FieldTold(q, u, f)
    PROVE  ToldTable(q, u)
BY DEF OnlyField, FieldTold, ToldTable

LEMMA OneFieldChecked ==
    ASSUME NEW r, NEW s, NEW q, NEW u, NEW f \in Fields, ToldChecks(r, s), OnlyField(r, s, q, u, f),
           r.status = "active" => FieldChecked(q, u, f)
    PROVE  ToldChecks(q, u)
<1>1. ASSUME q.status = "active", NEW m \in Names, NEW g \in Fields, NEW x \in Choices
      PROVE  <<m, g, x>> \in u.checks <=> m = q.name /\ q.fields[g] = <<"choices", x>>
  BY <1>1 DEF OnlyField, FieldChecked, ToldChecks
<1>2. QED
  BY <1>1 DEF ToldChecks

LEMMA ToldAt ==
    ASSUME NEW r, NEW s, NEW m \in Names, NEW g \in Fields, NEW x \in Choices, ToldChecks(r, s), r.status = "active"
    PROVE  <<m, g, x>> \in s.checks <=> m = r.name /\ r.fields[g] = <<"choices", x>>
BY DEF ToldChecks

\* What a call that commits knows of itself and of the table of its name.
LEMMA CommittingKnows ==
    ASSUME TablesInv, NEW c \in Clients, Doing(c, "commit"), work[c].op # "create", work[c].op # "none"
    PROVE  /\ work[c].id \in TableIds /\ catalog[work[c].id].status # "none"
           /\ work[c].name \in Names /\ work[c].to \in Names /\ work[c].field \in Fields
           /\ work[c].seen \in [Fields -> Field \cup {NoField}]
           /\ work[c].op = "addField" => work[c].spec \in Field
           /\ work[c].op = "updateField" => /\ HasChoices(work[c].spec) /\ work[c].spec \in Field
                                            /\ HasChoices(work[c].seen[work[c].field])
BY DEF TablesInv, TablesTypeOK, Doing, WorkOK, Work, Made

LEMMA StoredIsMade ==
    ASSUME TablesInv, NEW n, NEW t \in Stored(n)
    PROVE  /\ t \in TableIds /\ table[t] \in Table /\ table[t].life = "live" /\ table[t].name = n
           /\ n \in Names /\ catalog[t].status # "none" /\ catalog[t] \in CatalogRow
BY DEF TablesInv, TablesTypeOK, Stored, Blank

\* A transaction that writes one row, q, and one table, u.
LEMMA OneRowCommitted ==
    ASSUME TablesInv, NEW c \in Clients, NEW t \in TableIds, Notes(c, t), Finished(c), UNCHANGED day,
           NEW id \in TableIds, id = work[c].id, catalog[id].status # "none", catalog[t].status # "none",
           catalog' \in [TableIds -> CatalogRow], table' \in [TableIds -> Table],
           catalog'[id].status # "none", table'[t].life = "live" => table[t].life = "live" /\ table'[t].name \in Names,
           \A x \in TableIds \ {id} : catalog'[x] = catalog[x],
           \A x \in TableIds \ {t} : table'[x] = table[x],
           t = id /\ t \notin upset.crossed => ToldTable(catalog'[t], table'[t]),
           t = id /\ t \notin upset.crossed \cup upset.raced \cup Racing(c) => ToldChecks(catalog'[t], table'[t])
    PROVE  TablesInv'
BY Committed DEF TablesInv, Blank, Like

\* A transaction that writes one field of a row, and of one table.
LEMMA OneFieldCommitted ==
    ASSUME TablesInv, NEW c \in Clients, NEW t \in TableIds, Notes(c, t), Finished(c), UNCHANGED day,
           NEW id \in TableIds, id = work[c].id, catalog[id].status # "none", catalog[t].status # "none",
           NEW q \in CatalogRow, catalog' = [catalog EXCEPT ![id] = q],
           NEW u \in Table, table' = [table EXCEPT ![t] = u],
           NEW f \in Fields, OnlyField(catalog[id], table[t], q, u, f),
           t = id /\ ToldTable(catalog[id], table[t]) /\ catalog[id].status = "active" => FieldTold(q, u, f),
           /\ t = id /\ ToldTable(catalog[id], table[t]) /\ ToldChecks(catalog[id], table[t])
           /\ catalog[id].status = "active" /\ t \notin Racing(c)
           => FieldChecked(q, u, f)
    PROVE  TablesInv'
<1>1. catalog \in [TableIds -> CatalogRow] /\ table \in [TableIds -> Table]
  BY DEF TablesInv, TablesTypeOK
<1>2. /\ catalog' \in [TableIds -> CatalogRow] /\ table' \in [TableIds -> Table]
      /\ catalog'[id] = q /\ \A x \in TableIds \ {id} : catalog'[x] = catalog[x]
      /\ table'[t] = u /\ \A x \in TableIds \ {t} : table'[x] = table[x]
  BY <1>1
<1>3. ASSUME t = id, t \notin upset.crossed PROVE ToldTable(q, u)
  BY <1>3, OneFieldTold DEF TablesInv
<1>4. ASSUME t = id, t \notin upset.crossed \cup upset.raced \cup Racing(c) PROVE ToldChecks(q, u)
  BY <1>4, OneFieldChecked DEF TablesInv
<1>5. u.life = table[t].life /\ u.name = table[t].name /\ q.status = catalog[id].status
  BY DEF OnlyField
<1>6. table'[t].life = "live" => table[t].life = "live" /\ table'[t].name \in Names
  BY <1>2, <1>5 DEF TablesInv, Blank
<1>7. catalog'[id].status # "none"
  BY <1>2, <1>5
<1>8. QED
  BY <1>2, <1>3, <1>4, <1>6, <1>7, OneRowCommitted

LEMMA FieldIsAdded == ASSUME TablesInv, NEW c \in Clients, AddField(c) PROVE TablesInv'
<1> DEFINE id == work[c].id
           f == work[c].field
           spec == work[c].spec
           n == work[c].name
<1>1. PICK t \in Stored(n) :
        /\ Doing(c, "commit") /\ work[c].op = "addField"
        /\ f \notin table[t].columns /\ catalog[id].fields[f] = NoField
        /\ table' = [table EXCEPT ![t].columns = @ \cup {f}, ![t].checks = @ \cup ChecksOf(n, f, spec)]
        /\ catalog' = IF catalog[id].status = "deleted" THEN catalog ELSE [catalog EXCEPT ![id].fields[f] = spec]
        /\ Notes(c, t) /\ Finished(c) /\ UNCHANGED day
  BY DEF AddField
<1>2. id \in TableIds /\ f \in Fields /\ spec \in Field /\ n \in Names /\ catalog[id].status # "none"
  BY <1>1, CommittingKnows
<1>3. /\ t \in TableIds /\ table[t] \in Table /\ table[t].life = "live" /\ table[t].name = n
      /\ catalog[t].status # "none"
  BY <1>1, StoredIsMade
<1>4. catalog \in [TableIds -> CatalogRow] /\ table \in [TableIds -> Table] /\ catalog[id] \in CatalogRow
  BY <1>2 DEF TablesInv, TablesTypeOK
<1> DEFINE r == [catalog[id] EXCEPT !.fields[f] = spec]
           q == IF catalog[id].status = "deleted" THEN catalog[id] ELSE r
           u == [table[t] EXCEPT !.columns = @ \cup {f}, !.checks = @ \cup ChecksOf(n, f, spec)]
<1>5. /\ r \in CatalogRow /\ r.status = catalog[id].status /\ r.name = catalog[id].name /\ r.fields[f] = spec
      /\ \A g \in Fields \ {f} : r.fields[g] = catalog[id].fields[g]
  <2> HIDE DEF id, f, spec
  <2>1. QED
    BY <1>2, <1>4 DEF CatalogRow
<1>6. catalog' = [catalog EXCEPT ![id] = q] /\ table' = [table EXCEPT ![t] = u]
  BY <1>1, <1>2, <1>4, <1>3
<1>7. /\ u \in Table /\ u.life = table[t].life /\ u.name = table[t].name /\ u.columns = table[t].columns \cup {f}
      /\ u.checks = table[t].checks \cup ChecksOf(n, f, spec)
  BY <1>2, ChecksAreTriples, <1>3 DEF Table
<1> HIDE DEF u, r
<1>8. /\ q \in CatalogRow /\ q.status = catalog[id].status /\ q.name = catalog[id].name
      /\ \A g \in Fields \ {f} : q.fields[g] = catalog[id].fields[g]
      /\ catalog[id].status = "active" => q.fields[f] = spec
  BY <1>4, <1>5
<1> HIDE DEF q, id, f, spec, n
<1>9. ASSUME NEW m \in Names, NEW g \in Fields, NEW x \in Choices
      PROVE  <<m, g, x>> \in u.checks <=> <<m, g, x>> \in table[t].checks \/ (m = n /\ g = f /\ spec = <<"choices", x>>)
  BY <1>2, <1>7, ChecksOfField
<1>10. OnlyField(catalog[id], table[t], q, u, f)
  BY <1>7, <1>8, <1>9 DEF OnlyField
<1>11. ASSUME catalog[id].status = "active" PROVE FieldTold(q, u, f)
  BY <1>2, <1>7, <1>8, <1>11, FieldKinds DEF FieldTold
<1>12. ASSUME t = id, ToldTable(catalog[id], table[t]), ToldChecks(catalog[id], table[t]), catalog[id].status = "active"
       PROVE  FieldChecked(q, u, f)
  <2>1. q.name = n /\ q.fields[f] = spec
    BY <1>3, <1>8, <1>12 DEF ToldTable
  <2>2. ASSUME NEW m \in Names, NEW x \in Choices
        PROVE  <<m, f, x>> \in u.checks <=> m = q.name /\ q.fields[f] = <<"choices", x>>
    <3>1. <<m, f, x>> \notin table[t].checks
      <4>1. catalog[id].fields[f] = NoField /\ NoField # <<"choices", x>>
        BY <1>1, FieldKinds
      <4>2. <<m, f, x>> \in table[t].checks <=> m = catalog[id].name /\ catalog[id].fields[f] = <<"choices", x>>
        BY <1>2, <1>12, ToldAt
      <4>3. QED
        BY <4>1, <4>2
    <3>2. QED
      BY <1>2, <1>9, <2>1, <3>1
  <2>3. QED
    BY <2>2 DEF FieldChecked
<1>13. id = work[c].id
  BY DEF id
<1>14. QED
  BY <1>1, <1>2, <1>3, <1>6, <1>7, <1>8, <1>10, <1>11, <1>12, <1>13, OneFieldCommitted

\* What updateField writes: the new choices, unless the field has gone.
LEMMA FieldRewritten ==
    ASSUME TablesInv, NEW w, w.id \in TableIds, w.field \in Fields, w.spec \in Field
    PROVE  \E q \in CatalogRow :
             /\ Rewritten(w) = [catalog EXCEPT ![w.id] = q]
             /\ q.status = catalog[w.id].status /\ q.name = catalog[w.id].name
             /\ \A g \in Fields \ {w.field} : q.fields[g] = catalog[w.id].fields[g]
             /\ catalog[w.id].fields[w.field] # NoField => q.fields[w.field] = w.spec
             /\ catalog[w.id].fields[w.field] = NoField => q.fields[w.field] = NoField
<1>1. catalog \in [TableIds -> CatalogRow] /\ catalog[w.id] \in CatalogRow
  BY DEF TablesInv, TablesTypeOK
<1>2. CASE catalog[w.id].fields[w.field] = NoField
  BY <1>1, <1>2 DEF Rewritten
<1>3. CASE catalog[w.id].fields[w.field] # NoField
  <2> DEFINE q == [catalog[w.id] EXCEPT !.fields[w.field] = w.spec]
  <2>1. Rewritten(w) = [catalog EXCEPT ![w.id] = q]
    BY <1>3 DEF Rewritten
  <2>2. /\ q \in CatalogRow /\ q.status = catalog[w.id].status /\ q.name = catalog[w.id].name
        /\ \A g \in Fields \ {w.field} : q.fields[g] = catalog[w.id].fields[g]
        /\ q.fields[w.field] = w.spec
    BY <1>1 DEF CatalogRow
  <2> HIDE DEF q
  <2>3. QED
    BY <1>3, <2>1, <2>2
<1>4. QED
  BY <1>2, <1>3

LEMMA FieldIsUpdated == ASSUME TablesInv, NEW c \in Clients, UpdateField(c) PROVE TablesInv'
<1> DEFINE id == work[c].id
           f == work[c].field
           spec == work[c].spec
           n == work[c].name
           others(t) == {k \in table[t].checks : ~(k[1] = n /\ k[2] = f)}
<1>1. PICK t \in Stored(n) :
        /\ Doing(c, "commit") /\ work[c].op = "updateField"
        /\ f \in table[t].columns
        /\ table' = [table EXCEPT ![t].checks = others(t) \cup ChecksOf(n, f, spec)]
        /\ catalog' = Rewritten(work[c])
        /\ Notes(c, t) /\ Finished(c) /\ UNCHANGED day
  BY DEF UpdateField
<1>2. /\ id \in TableIds /\ f \in Fields /\ spec \in Field /\ n \in Names /\ catalog[id].status # "none"
      /\ HasChoices(spec)
  BY <1>1, CommittingKnows
<1>3. /\ t \in TableIds /\ table[t] \in Table /\ table[t].life = "live" /\ table[t].name = n
      /\ catalog[t].status # "none"
  BY <1>1, StoredIsMade
<1>4. table \in [TableIds -> Table]
  BY DEF TablesInv, TablesTypeOK
<1>5. PICK q \in CatalogRow :
        /\ catalog' = [catalog EXCEPT ![id] = q]
        /\ q.status = catalog[id].status /\ q.name = catalog[id].name
        /\ \A g \in Fields \ {f} : q.fields[g] = catalog[id].fields[g]
        /\ catalog[id].fields[f] # NoField => q.fields[f] = spec
  BY <1>1, <1>2, FieldRewritten
<1> DEFINE u == [table[t] EXCEPT !.checks = others(t) \cup ChecksOf(n, f, spec)]
<1>6. table' = [table EXCEPT ![t] = u]
  BY <1>1, <1>3, <1>4
<1>7. /\ u \in Table /\ u.life = table[t].life /\ u.name = table[t].name /\ u.columns = table[t].columns
      /\ u.checks = others(t) \cup ChecksOf(n, f, spec)
  BY <1>2, ChecksAreTriples, <1>3 DEF Table
<1>8. id = work[c].id
  OBVIOUS
<1> HIDE DEF u, id, f, spec, n
<1>9. ASSUME NEW m \in Names, NEW g \in Fields, NEW x \in Choices
      PROVE  <<m, g, x>> \in u.checks <=> (<<m, g, x>> \in table[t].checks /\ ~(m = n /\ g = f))
                                            \/ (m = n /\ g = f /\ spec = <<"choices", x>>)
  BY <1>2, ChecksOfField, <1>7
<1> HIDE DEF others
<1>10. OnlyField(catalog[id], table[t], q, u, f)
  BY <1>5, <1>7, <1>9 DEF OnlyField
<1>11. ASSUME t = id, ToldTable(catalog[id], table[t]), catalog[id].status = "active"
       PROVE  FieldTold(q, u, f) /\ q.fields[f] = spec
  BY <1>1, <1>2, <1>11, FieldKinds, <1>5, <1>7 DEF ToldTable, FieldTold
<1>12. ASSUME t = id, ToldTable(catalog[id], table[t]), ToldChecks(catalog[id], table[t]), catalog[id].status = "active"
       PROVE  FieldChecked(q, u, f)
  <2>1. q.name = n /\ q.fields[f] = spec
    BY <1>3, <1>5, <1>11, <1>12 DEF ToldTable
  <2>2. ASSUME NEW m \in Names, NEW x \in Choices
        PROVE  <<m, f, x>> \in u.checks <=> m = q.name /\ q.fields[f] = <<"choices", x>>
    <3>1. <<m, f, x>> \in table[t].checks => m = n
      BY <1>2, <1>12, ToldAt, <1>5, <2>1
    <3>2. QED
      BY <1>2, <1>9, <2>1, <3>1
  <2>3. QED
    BY <2>2 DEF FieldChecked
<1>13. QED
  BY <1>1, <1>2, <1>3, <1>5, <1>6, <1>7, <1>8, <1>10, <1>11, <1>12, OneFieldCommitted

LEMMA OptionsAreUpdated == ASSUME TablesInv, NEW c \in Clients, UpdateOptions(c) PROVE TablesInv'
<1> DEFINE id == work[c].id
           f == work[c].field
           spec == work[c].spec
<1>1. /\ Doing(c, "commit") /\ work[c].op = "updateField" /\ spec = work[c].seen[f]
      /\ catalog' = Rewritten(work[c])
      /\ Notes(c, id) /\ Finished(c) /\ UNCHANGED <<table, day>>
  BY DEF UpdateOptions
<1>2. /\ id \in TableIds /\ f \in Fields /\ spec \in Field /\ catalog[id].status # "none"
      /\ spec # NoField
  BY <1>1, CommittingKnows, FieldKinds
<1>3. table \in [TableIds -> Table]
  BY DEF TablesInv, TablesTypeOK
<1>4. PICK q \in CatalogRow :
        /\ catalog' = [catalog EXCEPT ![id] = q]
        /\ q.status = catalog[id].status /\ q.name = catalog[id].name
        /\ \A g \in Fields \ {f} : q.fields[g] = catalog[id].fields[g]
        /\ catalog[id].fields[f] # NoField => q.fields[f] = spec
        /\ catalog[id].fields[f] = NoField => q.fields[f] = NoField
  BY <1>1, <1>2, FieldRewritten
<1>5. table' = [table EXCEPT ![id] = table[id]] /\ table[id] \in Table
  BY <1>1, <1>2, <1>3
<1>6. OnlyField(catalog[id], table[id], q, table[id], f)
  BY <1>4 DEF OnlyField
<1>7. ASSUME ToldTable(catalog[id], table[id]), catalog[id].status = "active"
      PROVE  FieldTold(q, table[id], f)
  BY <1>2, <1>4, <1>7 DEF ToldTable, FieldTold
<1>8. ASSUME ToldChecks(catalog[id], table[id]), catalog[id].status = "active", id \notin Racing(c)
      PROVE  FieldChecked(q, table[id], f)
  BY <1>1, <1>8, <1>2, <1>4 DEF Racing, ToldChecks, FieldChecked
<1>9. QED
  BY <1>1, <1>2, <1>4, <1>5, <1>6, <1>7, <1>8, OneFieldCommitted

LEMMA FieldIsRemoved == ASSUME TablesInv, NEW c \in Clients, RemoveField(c) PROVE TablesInv'
<1> DEFINE id == work[c].id
           f == work[c].field
           n == work[c].name
           trash(t) == IF work[c].hard THEN table[t].trash ELSE table[t].trash \cup {<<f, day>>}
<1>1. PICK t \in Stored(n) :
        /\ Doing(c, "commit") /\ work[c].op = "removeField"
        /\ table' = [table EXCEPT ![t].columns = @ \ {f}, ![t].checks = {k \in @ : k[2] # f}, ![t].trash = trash(t)]
        /\ catalog' = [catalog EXCEPT ![id].fields[f] = NoField]
        /\ Notes(c, t) /\ Finished(c) /\ UNCHANGED day
  BY DEF RemoveField
<1>2. id \in TableIds /\ f \in Fields /\ catalog[id].status # "none"
  BY <1>1, CommittingKnows
<1>3. t \in TableIds /\ table[t] \in Table /\ catalog[t].status # "none"
  BY <1>1, StoredIsMade
<1>4. catalog \in [TableIds -> CatalogRow] /\ table \in [TableIds -> Table] /\ catalog[id] \in CatalogRow
      /\ day \in 0..LastDay
  BY <1>2 DEF TablesInv, TablesTypeOK
<1> DEFINE q == [catalog[id] EXCEPT !.fields[f] = NoField]
           u == [table[t] EXCEPT !.columns = @ \ {f}, !.checks = {k \in @ : k[2] # f}, !.trash = trash(t)]
<1>5. /\ q \in CatalogRow /\ q.status = catalog[id].status /\ q.name = catalog[id].name /\ q.fields[f] = NoField
      /\ \A g \in Fields \ {f} : q.fields[g] = catalog[id].fields[g]
  <2> HIDE DEF id, f
  <2>1. QED
    BY <1>2, <1>4 DEF CatalogRow
<1>6. catalog' = [catalog EXCEPT ![id] = q] /\ table' = [table EXCEPT ![t] = u]
  BY <1>1, <1>2, <1>3, <1>4
<1>7. /\ u \in Table /\ u.life = table[t].life /\ u.name = table[t].name /\ u.columns = table[t].columns \ {f}
      /\ u.checks = {k \in table[t].checks : k[2] # f}
  <2>1. trash(t) \subseteq Fields \X (0..LastDay)
    BY <1>2, <1>3, <1>4 DEF Table
  <2> HIDE DEF trash
  <2>2. QED
    BY <1>3, <2>1 DEF Table
<1>8. id = work[c].id
  OBVIOUS
<1> HIDE DEF u, q, id, f, n, trash
<1>9. OnlyField(catalog[id], table[t], q, u, f)
  BY <1>5, <1>7 DEF OnlyField
<1>10. FieldTold(q, u, f) /\ FieldChecked(q, u, f)
  BY <1>5, <1>7, FieldKinds DEF FieldTold, FieldChecked
<1>11. QED
  BY <1>1, <1>2, <1>3, <1>5, <1>6, <1>7, <1>8, <1>9, <1>10, OneFieldCommitted

-----------------------------------------------------------------------------
(* The transactions: one table                                             *)

LEMMA TableIsCreated == ASSUME TablesInv, NEW c \in Clients, CreateTable(c) PROVE TablesInv'
<1> DEFINE n == work[c].name
<1>1. PICK t \in TableIds :
        /\ Doing(c, "commit") /\ work[c].op = "create" /\ catalog[t].status = "none"
        /\ table' = [table EXCEPT ![t].life = "live", ![t].name = n]
        /\ catalog' = [catalog EXCEPT ![t].status = "active", ![t].name = n]
        /\ Finished(c) /\ UNCHANGED <<day, upset>>
  BY DEF CreateTable
<1>2. n \in Names
  BY <1>1 DEF TablesInv, WorkOK
<1>3. /\ catalog \in [TableIds -> CatalogRow] /\ table \in [TableIds -> Table]
      /\ catalog[t] \in CatalogRow /\ table[t] \in Table
  BY DEF TablesInv, TablesTypeOK
<1>4. catalog[t].fields = NoFields /\ table[t].columns = {} /\ table[t].checks = {}
  BY <1>1 DEF TablesInv, Blank
<1> DEFINE q == [catalog[t] EXCEPT !.status = "active", !.name = n]
           u == [table[t] EXCEPT !.life = "live", !.name = n]
<1>5. catalog' = [catalog EXCEPT ![t] = q] /\ table' = [table EXCEPT ![t] = u]
  BY <1>1, <1>3
<1>6. /\ q \in CatalogRow /\ q.status = "active" /\ q.name = n /\ q.fields = NoFields
      /\ u \in Table /\ u.life = "live" /\ u.name = n /\ u.columns = {} /\ u.checks = {}
  BY <1>2, <1>3, <1>4 DEF CatalogRow, Table
<1> HIDE DEF q, u, n
<1>7. /\ catalog' \in [TableIds -> CatalogRow] /\ table' \in [TableIds -> Table]
      /\ catalog'[t] = q /\ table'[t] = u
      /\ \A x \in TableIds \ {t} : catalog'[x] = catalog[x] /\ table'[x] = table[x]
  BY <1>3, <1>5, <1>6
<1>8. ToldTable(q, u) /\ ToldChecks(q, u) /\ Blank(q, u)
  BY <1>6, FieldKinds, <1>2 DEF NoFields, ToldTable, ToldChecks, Blank
<1>9. Made \subseteq Made'
  BY <1>6, <1>7 DEF Made
<1>10. work' \in [Clients -> Work] /\ \A d \in Clients : WorkOK(work'[d], Made')
  BY <1>1, <1>9, FinishedKeeps
<1>11. TablesTypeOK' /\ TrashIsKept'
  BY <1>1, <1>7, <1>10 DEF TablesInv, TablesTypeOK, TrashIsKept
<1>12. ASSUME NEW x \in TableIds
       PROVE  /\ Blank(catalog'[x], table'[x])
              /\ x \notin upset'.crossed => ToldTable(catalog'[x], table'[x])
              /\ x \notin upset'.crossed \cup upset'.raced => ToldChecks(catalog'[x], table'[x])
  BY <1>7, <1>8, <1>1 DEF TablesInv
<1>13. QED
  BY <1>10, <1>11, <1>12 DEF TablesInv

LEMMA TableIsDropped == ASSUME TablesInv, NEW c \in Clients, DropTable(c) PROVE TablesInv'
<1> DEFINE id == work[c].id
           life == IF work[c].hard THEN "gone" ELSE "trash"
           status == IF work[c].hard THEN "deleted" ELSE "trashed"
<1>1. PICK t \in Stored(work[c].name) :
        /\ Doing(c, "commit") /\ work[c].op = "drop"
        /\ table' = [table EXCEPT ![t].life = life, ![t].stamp = day]
        /\ catalog' = [catalog EXCEPT ![id].status = status]
        /\ Notes(c, t) /\ Finished(c) /\ UNCHANGED day
  BY DEF DropTable
<1>2. id \in TableIds /\ catalog[id].status # "none"
  BY <1>1, CommittingKnows
<1>3. t \in TableIds /\ table[t] \in Table /\ catalog[t].status # "none"
  BY <1>1, StoredIsMade
<1>4. catalog \in [TableIds -> CatalogRow] /\ table \in [TableIds -> Table] /\ catalog[id] \in CatalogRow
      /\ day \in 0..LastDay
  BY <1>2 DEF TablesInv, TablesTypeOK
<1>5. life \in {"gone", "trash"} /\ status \in {"deleted", "trashed"}
  OBVIOUS
<1>6. id = work[c].id
  OBVIOUS
<1> DEFINE q == [catalog[id] EXCEPT !.status = status]
           u == [table[t] EXCEPT !.life = life, !.stamp = day]
<1> HIDE DEF life, status, id
<1>7. catalog' = [catalog EXCEPT ![id] = q] /\ table' = [table EXCEPT ![t] = u]
  BY <1>1, <1>2, <1>3, <1>4
<1>8. q \in CatalogRow /\ q.status = status /\ u \in Table /\ u.life = life
  BY <1>3, <1>4, <1>5 DEF CatalogRow, Table
<1> HIDE DEF q, u
<1>9. /\ catalog' \in [TableIds -> CatalogRow] /\ table' \in [TableIds -> Table]
      /\ catalog'[id] = q /\ table'[t] = u
      /\ \A x \in TableIds \ {id} : catalog'[x] = catalog[x]
      /\ \A x \in TableIds \ {t} : table'[x] = table[x]
  BY <1>2, <1>3, <1>4, <1>7, <1>8
<1>10. catalog'[id].status # "none" /\ catalog'[id].status # "active" /\ table'[t].life # "live"
  BY <1>5, <1>8, <1>9
<1>11. ToldTable(catalog'[id], table'[t]) /\ ToldChecks(catalog'[id], table'[t])
  BY <1>10 DEF ToldTable, ToldChecks
<1>12. QED
  BY <1>1, <1>2, <1>3, <1>6, <1>9, <1>10, <1>11, OneRowCommitted

\* purgeTrash drops what has expired, and no active table.
LEMMA TrashIsPurged == TablesInv /\ PurgeTrash => TablesInv'
<1> SUFFICES ASSUME TablesInv, PurgeTrash PROVE TablesInv'
  OBVIOUS
<1> DEFINE goes(t) == table[t].life = "trash" /\ Expired(table[t].stamp)
           columns(t) == {x \in table[t].trash : table[t].life = "live" /\ Expired(x[2])}
<1>1. /\ table' = [t \in TableIds |-> [table[t] EXCEPT
                    !.life = IF goes(t) THEN "gone" ELSE @, !.trash = @ \ columns(t)]]
      /\ catalog' = [t \in TableIds |-> [catalog[t] EXCEPT
                    !.status = IF goes(t) /\ @ = "trashed" THEN "deleted" ELSE @]]
      /\ upset' = [upset EXCEPT !.lost = @ \/ \E t \in TableIds :
                    \/ goes(t) /\ day - table[t].stamp < Retention
                    \/ \E x \in columns(t) : day - x[2] < Retention]
      /\ UNCHANGED <<work, day>>
  BY DEF PurgeTrash
<1>2. /\ catalog \in [TableIds -> CatalogRow] /\ table \in [TableIds -> Table]
      /\ day \in Int /\ Retention \in Int /\ upset \in Upset /\ ~upset.lost
  BY TablesAssumption DEF TablesInv, TablesTypeOK, TrashIsKept
<1>3. ASSUME NEW t \in TableIds PROVE ~(goes(t) /\ day - table[t].stamp < Retention)
  BY <1>2, TablesAssumption DEF Table, Expired
<1>4. ASSUME NEW t \in TableIds, NEW x \in columns(t) PROVE ~(day - x[2] < Retention)
  BY <1>2, TablesAssumption DEF Table, Expired
<1> DEFINE early == \E t \in TableIds : \/ goes(t) /\ day - table[t].stamp < Retention
                                        \/ \E x \in columns(t) : day - x[2] < Retention
<1>5. upset' = [upset EXCEPT !.lost = @ \/ early]
  BY <1>1
<1> HIDE DEF goes, columns
<1>6. ~early
  BY <1>3, <1>4
<1> HIDE DEF early
<1>7. upset' \in Upset /\ ~upset'.lost /\ upset'.crossed = upset.crossed /\ upset'.raced = upset.raced
  BY <1>2, <1>5, <1>6 DEF Upset
<1>8. ASSUME NEW t \in TableIds
      PROVE  /\ catalog'[t] \in CatalogRow /\ table'[t] \in Table
             /\ catalog'[t].name = catalog[t].name /\ catalog'[t].fields = catalog[t].fields
             /\ catalog'[t].status = "none" <=> catalog[t].status = "none"
             /\ catalog'[t].status = "active" => catalog[t].status = "active"
             /\ table'[t].name = table[t].name /\ table'[t].columns = table[t].columns
             /\ table'[t].checks = table[t].checks
             /\ table'[t].life = "live" <=> table[t].life = "live"
  <2>1. catalog[t] \in CatalogRow /\ table[t] \in Table
    BY <1>2
  <2>2. goes(t) => table[t].life = "trash"
    BY DEF goes
  <2> DEFINE life == IF goes(t) THEN "gone" ELSE table[t].life
             status == IF goes(t) /\ catalog[t].status = "trashed" THEN "deleted" ELSE catalog[t].status
  <2>3. /\ catalog'[t] = [catalog[t] EXCEPT !.status = status]
        /\ table'[t] = [table[t] EXCEPT !.life = life, !.trash = @ \ columns(t)]
    BY <1>1
  <2>4. /\ life \in {"none", "live", "trash", "gone"} /\ (life = "live" <=> table[t].life = "live")
        /\ status \in {"none", "active", "trashed", "deleted"} /\ (status = "none" <=> catalog[t].status = "none")
        /\ status = "active" => catalog[t].status = "active"
    BY <2>1, <2>2 DEF CatalogRow, Table
  <2> DEFINE q == [catalog[t] EXCEPT !.status = status]
             u == [table[t] EXCEPT !.life = life, !.trash = @ \ columns(t)]
  <2> HIDE DEF life, status
  <2>5. q \in CatalogRow /\ q.name = catalog[t].name /\ q.fields = catalog[t].fields /\ q.status = status
    BY <2>1, <2>4 DEF CatalogRow
  <2>6. /\ u \in Table /\ u.name = table[t].name /\ u.columns = table[t].columns
        /\ u.checks = table[t].checks /\ u.life = life
    BY <2>1, <2>4 DEF Table
  <2>7. catalog'[t] = q /\ table'[t] = u
    BY <2>3
  <2> HIDE DEF q, u
  <2>8. QED
    BY <2>4, <2>5, <2>6, <2>7
<1>9. catalog' \in [TableIds -> CatalogRow] /\ table' \in [TableIds -> Table]
  BY <1>1, <1>8
<1>10. Made' = Made
  BY <1>8 DEF Made
<1>11. ASSUME NEW t \in TableIds
      PROVE  /\ Blank(catalog'[t], table'[t])
             /\ t \notin upset'.crossed => ToldTable(catalog'[t], table'[t])
             /\ t \notin upset'.crossed \cup upset'.raced => ToldChecks(catalog'[t], table'[t])
  <2>1. Blank(catalog'[t], table'[t])
    BY <1>8 DEF TablesInv, Blank
  <2>2. ASSUME t \notin upset.crossed PROVE ToldTable(catalog'[t], table'[t])
    BY <1>8, <2>2 DEF TablesInv, ToldTable
  <2>3. ASSUME t \notin upset.crossed \cup upset.raced PROVE ToldChecks(catalog'[t], table'[t])
    <3>1. ToldChecks(catalog[t], table[t])
      BY <2>3 DEF TablesInv
    <3>2. ASSUME catalog'[t].status = "active", NEW m \in Names, NEW f \in Fields, NEW x \in Choices
          PROVE  <<m, f, x>> \in table'[t].checks <=> m = catalog'[t].name /\ catalog'[t].fields[f] = <<"choices", x>>
      BY <1>8, <3>1, <3>2, ToldAt
    <3>3. QED
      BY <3>2 DEF ToldChecks
  <2>4. QED
    BY <1>7, <2>1, <2>2, <2>3
<1>12. TablesTypeOK' /\ TrashIsKept'
  BY <1>1, <1>7, <1>9 DEF TablesInv, TablesTypeOK, TrashIsKept
<1>13. \A d \in Clients : WorkOK(work'[d], Made')
  BY <1>1, <1>10 DEF TablesInv
<1>14. QED
  BY <1>11, <1>12, <1>13 DEF TablesInv

\* A row whose relations to one name point to another: nothing else is told of it.
LEMMA FieldsRepointed ==
    ASSUME NEW r \in CatalogRow, NEW n \in Names, NEW to \in Names, NEW fields,
           fields = [f \in Fields |-> IF RelatesTo(r.fields[f], n) THEN <<"relation", to>> ELSE r.fields[f]]
    PROVE  /\ fields \in [Fields -> Field \cup {NoField}]
           /\ \A f \in Fields : fields[f] = NoField <=> r.fields[f] = NoField
           /\ \A f \in Fields, x \in Choices : fields[f] = <<"choices", x>> <=> r.fields[f] = <<"choices", x>>
BY FieldKinds DEF CatalogRow, RelatesTo

\* Each constraint of a table told of follows it to its new name.
Followed(w, s) == {IF FollowsName(w, k) THEN <<w.to, k[2], k[3]>> ELSE k : k \in s.checks}

LEMMA ChecksFollow ==
    ASSUME NEW r \in CatalogRow, NEW s \in Table, NEW w, NEW m \in Names, NEW g \in Fields, NEW x \in Choices,
           ToldChecks(r, s), r.status = "active", r.name = w.name, w.name \in Names, w.seen = r.fields
    PROVE  <<m, g, x>> \in Followed(w, s) <=> m = w.to /\ r.fields[g] = <<"choices", x>>
<1>1. ASSUME NEW k \in s.checks
      PROVE  k = <<w.name, k[2], k[3]>> /\ FollowsName(w, k)
  BY ToldAt DEF Table, FollowsName, HasChoices
<1>2. <<w.name, g, x>> \in s.checks <=> r.fields[g] = <<"choices", x>>
  BY ToldAt
<1>3. <<m, g, x>> \in Followed(w, s) <=> m = w.to /\ <<w.name, g, x>> \in s.checks
  BY <1>1 DEF Followed
<1>4. QED
  BY <1>2, <1>3

LEMMA TableIsRenamed == ASSUME TablesInv, NEW c \in Clients, RenameTable(c) PROVE TablesInv'
<1> DEFINE w == work[c]
           id == w.id
           checks(t) == Followed(w, table[t])
           name(x) == IF x = id THEN w.to ELSE catalog[x].name
           moved(x) == [f \in Fields |-> IF RelatesTo(catalog[x].fields[f], w.name)
                                         THEN <<"relation", w.to>> ELSE catalog[x].fields[f]]
           fields(x) == IF catalog[x].status # "active" THEN catalog[x].fields ELSE moved(x)
<1>1. PICK t \in Stored(w.name) :
        /\ Doing(c, "commit") /\ w.op = "rename"
        /\ table' = [table EXCEPT ![t].name = w.to, ![t].checks = checks(t)]
        /\ catalog' = [x \in TableIds |-> [catalog[x] EXCEPT !.name = name(x), !.fields = fields(x)]]
        /\ Notes(c, t) /\ Finished(c) /\ UNCHANGED day
  BY DEF RenameTable, Followed
<1>2. id \in TableIds /\ catalog[id].status # "none" /\ w.name \in Names /\ w.to \in Names
  BY <1>1, CommittingKnows
<1>3. /\ t \in TableIds /\ table[t] \in Table /\ table[t].life = "live" /\ table[t].name = w.name
      /\ catalog[t].status # "none"
  BY <1>1, StoredIsMade
<1>4. catalog \in [TableIds -> CatalogRow] /\ table \in [TableIds -> Table]
  BY DEF TablesInv, TablesTypeOK
<1>5. ASSUME NEW x \in TableIds
      PROVE  /\ fields(x) \in [Fields -> Field \cup {NoField}]
             /\ \A f \in Fields : fields(x)[f] = NoField <=> catalog[x].fields[f] = NoField
             /\ \A f \in Fields, y \in Choices : fields(x)[f] = <<"choices", y>> <=> catalog[x].fields[f] = <<"choices", y>>
             /\ catalog[x].status = "none" => fields(x) = catalog[x].fields
  <2>1. catalog[x] \in CatalogRow
    BY <1>4
  <2> DEFINE new == moved(x)
  <2>2. catalog[x].status = "active" => fields(x) = new
    OBVIOUS
  <2>3. catalog[x].status # "active" => fields(x) = catalog[x].fields
    OBVIOUS
  <2>4. new = [f \in Fields |-> IF RelatesTo(catalog[x].fields[f], w.name)
                                THEN <<"relation", w.to>> ELSE catalog[x].fields[f]]
    OBVIOUS
  <2> HIDE DEF new, fields, moved, w, id, name, checks
  <2>5. /\ new \in [Fields -> Field \cup {NoField}]
        /\ \A f \in Fields : new[f] = NoField <=> catalog[x].fields[f] = NoField
        /\ \A f \in Fields, y \in Choices : new[f] = <<"choices", y>> <=> catalog[x].fields[f] = <<"choices", y>>
    BY <1>2, <2>1, <2>4, FieldsRepointed
  <2>6. catalog[x].fields \in [Fields -> Field \cup {NoField}]
    BY <2>1 DEF CatalogRow
  <2>7. CASE catalog[x].status = "active"
    BY <2>5, <2>2, <2>7
  <2>8. CASE catalog[x].status # "active"
    BY <2>3, <2>6, <2>8
  <2>9. QED
    BY <2>7, <2>8
<1>6. ASSUME NEW x \in TableIds
      PROVE  name(x) \in Names \cup {NoName} /\ (x # id => name(x) = catalog[x].name) /\ (x = id => name(x) = w.to)
  BY <1>2, <1>4 DEF CatalogRow
<1>7. checks(t) \subseteq Names \X Fields \X Choices
  BY <1>2, <1>3 DEF Table, Followed
<1>8. id = work[c].id /\ w = work[c]
  OBVIOUS
<1> HIDE DEF fields, moved, name, checks, id, w
<1>9. ASSUME NEW x \in TableIds
      PROVE  /\ catalog'[x] \in CatalogRow /\ catalog'[x].status = catalog[x].status
             /\ catalog'[x].name = name(x) /\ catalog'[x].fields = fields(x)
             /\ catalog[x].status = "none" => catalog'[x] = catalog[x]
  <2> DEFINE q == [catalog[x] EXCEPT !.name = name(x), !.fields = fields(x)]
  <2>1. catalog'[x] = q /\ catalog[x] \in CatalogRow
    BY <1>1, <1>4
  <2>2. q \in CatalogRow /\ q.status = catalog[x].status /\ q.name = name(x) /\ q.fields = fields(x)
    BY <1>5, <1>6, <2>1 DEF CatalogRow
  <2>3. ASSUME catalog[x].status = "none" PROVE q = catalog[x]
    BY <1>2, <1>5, <1>6, <2>3, <2>1 DEF CatalogRow
  <2> HIDE DEF q
  <2>4. QED
    BY <2>1, <2>2, <2>3
<1> DEFINE u == [table[t] EXCEPT !.name = w.to, !.checks = checks(t)]
<1>10. table' = [table EXCEPT ![t] = u]
  BY <1>1, <1>3, <1>4
<1>11. u \in Table /\ u.life = "live" /\ u.name = w.to /\ u.columns = table[t].columns /\ u.checks = checks(t)
  BY <1>2, <1>3, <1>7 DEF Table
<1> HIDE DEF u
<1>12. /\ catalog' \in [TableIds -> CatalogRow] /\ table' \in [TableIds -> Table]
       /\ table'[t] = u /\ \A x \in TableIds \ {t} : table'[x] = table[x]
  BY <1>1, <1>9, <1>3, <1>4, <1>10, <1>11
<1>13. ASSUME NEW x \in TableIds \ {id, t} PROVE Like(catalog[x], catalog'[x]) /\ table'[x] = table[x]
  BY <1>5, <1>6, <1>9, <1>12 DEF Like
<1>14. ASSUME NEW x \in TableIds
       PROVE  /\ catalog'[x].status = "none" <=> catalog[x].status = "none"
              /\ catalog[x].status = "none" => catalog'[x] = catalog[x] /\ table'[x] = table[x]
              /\ table'[x].life = "live" => table[x].life = "live" /\ table'[x].name \in Names
  BY <1>12, <1>3, <1>11, <1>2, <1>9 DEF TablesInv, Blank
<1>15. ASSUME t = id, t \notin upset.crossed PROVE ToldTable(catalog'[t], table'[t])
  <2>1. ToldTable(catalog[t], table[t])
    BY <1>3, <1>15 DEF TablesInv
  <2>2. /\ catalog'[t].status = catalog[t].status /\ catalog'[t].name = w.to
        /\ table'[t].life = "live" /\ table'[t].name = w.to /\ table'[t].columns = table[t].columns
        /\ \A f \in Fields : catalog'[t].fields[f] = NoField <=> catalog[t].fields[f] = NoField
    BY <1>3, <1>5, <1>6, <1>9, <1>11, <1>12, <1>15
  <2>3. QED
    BY <2>1, <2>2 DEF ToldTable
<1>16. ASSUME t = id, t \notin upset.crossed \cup upset.raced \cup Racing(c)
       PROVE  ToldChecks(catalog'[t], table'[t])
  <2>1. ToldTable(catalog[t], table[t]) /\ ToldChecks(catalog[t], table[t])
    BY <1>3, <1>16 DEF TablesInv
  <2>2. w.seen = catalog[t].fields
    BY <1>1, <1>8, <1>16 DEF Racing
  <2>3. ASSUME catalog'[t].status = "active", NEW m \in Names, NEW g \in Fields, NEW x \in Choices
        PROVE  <<m, g, x>> \in table'[t].checks <=> m = catalog'[t].name /\ catalog'[t].fields[g] = <<"choices", x>>
    <3>1. catalog[t].status = "active" /\ catalog[t].name = w.name /\ catalog[t] \in CatalogRow
      BY <1>3, <1>4, <1>9, <2>1, <2>3 DEF ToldTable
    <3>2. <<m, g, x>> \in checks(t) <=> m = w.to /\ catalog[t].fields[g] = <<"choices", x>>
      BY <1>2, <1>3, <2>1, <2>2, <3>1, ChecksFollow DEF checks
    <3>3. catalog'[t].name = w.to /\ (catalog'[t].fields[g] = <<"choices", x>> <=> catalog[t].fields[g] = <<"choices", x>>)
      BY <1>3, <1>5, <1>6, <1>9, <1>16
    <3>4. table'[t].checks = checks(t)
      BY <1>11, <1>12
    <3>5. QED
      BY <3>2, <3>3, <3>4
  <2>4. QED
    BY <2>3 DEF ToldChecks
<1>17. QED
  BY <1>1, <1>2, <1>3, <1>8, <1>12, <1>13, <1>14, <1>15, <1>16, Committed

-----------------------------------------------------------------------------
LEMMA TablesInitially == TablesInit => TablesInv
<1> SUFFICES ASSUME TablesInit PROVE TablesInv
  OBVIOUS
<1>1. /\ \A t \in TableIds : /\ catalog[t] = [status |-> "none", name |-> NoName, fields |-> NoFields]
                             /\ table[t] = [life |-> "none", name |-> NoName, columns |-> {},
                                            checks |-> {}, trash |-> {}, stamp |-> 0]
      /\ \A c \in Clients : work[c] = Unoccupied
  BY DEF TablesInit
<1>2. NoFields \in [Fields -> Field \cup {NoField}]
  BY DEF NoFields
<1>3. TablesTypeOK
  BY <1>2, UnoccupiedIsWork, TablesAssumption DEF TablesInit, TablesTypeOK, CatalogRow, Table, Upset
<1>4. \A c \in Clients : WorkOK(work[c], Made)
  <2>1. WorkOK(Unoccupied, Made)
    BY DEF WorkOK, Unoccupied
  <2>2. QED
    BY <1>1, <2>1
<1>5. \A t \in TableIds : Blank(catalog[t], table[t]) /\ ToldTable(catalog[t], table[t]) /\ ToldChecks(catalog[t], table[t])
  BY <1>1 DEF Blank, ToldTable, ToldChecks
<1>6. TrashIsKept
  BY DEF TablesInit, TrashIsKept
<1>7. QED
  BY <1>3, <1>4, <1>5, <1>6 DEF TablesInv

LEMMA TablesInductive == TablesInv /\ [TablesNext]_tablesVars => TablesInv'
<1> SUFFICES ASSUME TablesInv, [TablesNext]_tablesVars PROVE TablesInv'
  OBVIOUS
<1>1. ASSUME NEW c \in Clients,
             \/ BeginWork(c) \/ ReadInfo(c) \/ ReadRow(c) \/ Hydrate(c) \/ CheckReferences(c) \/ WorkFails(c)
      PROVE  TablesInv'
  BY <1>1, CallBegins, InfoIsRead, RowIsRead, TableIsHydrated, ReferencesAreChecked, CallIsRolledBack
<1>2. ASSUME NEW c \in Clients,
             \/ CreateTable(c) \/ AddField(c) \/ UpdateField(c) \/ UpdateOptions(c)
             \/ RemoveField(c) \/ DropTable(c) \/ RenameTable(c)
      PROVE  TablesInv'
  BY <1>2, TableIsCreated, FieldIsAdded, FieldIsUpdated, OptionsAreUpdated, FieldIsRemoved,
     TableIsDropped, TableIsRenamed
<1>3. CASE UNCHANGED tablesVars
  BY <1>3 DEF tablesVars, TablesInv, TablesTypeOK, Made, TrashIsKept
<1>4. QED
  BY <1>1, <1>2, <1>3, TrashIsPurged, DayPasses DEF TablesNext

\* The inductive invariant holds in every behaviour.
THEOREM TablesInvariance == TablesSpec => []TablesInv
<1>1. QED
  BY TablesInitially, TablesInductive, PTL DEF TablesSpec

\* Whatever calls race, the catalog tells of the company's tables as they are,
\* but for names that were crossed (data/schema-service.ts).
THEOREM CatalogIsTrue == TablesSpec => [](TablesTypeOK /\ CatalogTellsOfTables)
<1>1. QED
  BY TablesInvariance, TablesAreTold, PTL

\* One constraint holds each field with choices to exactly these (schema-service.ts).
THEOREM ChoicesStayChecked == TablesSpec => []ChoicesAreChecked
<1>1. QED
  BY TablesInvariance, TablesAreTold, PTL

\* What was removed softly outlives its retention time (purgeTrash).
THEOREM TrashOutlives == TablesSpec => []TrashIsKept
<1>1. QED
  BY TablesInvariance, TablesAreTold, PTL
=============================================================================
