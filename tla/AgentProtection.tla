-------------------------- MODULE AgentProtection --------------------------
(***************************************************************************)
(* What `kyoube.agent-rules` does to a company's agents: the manager rule  *)
(* (src/guard.ts: reconcile and revert) and the agents user groups         *)
(* restrict (src/groups.ts: the first half of applyGroups; its second half *)
(* is in PersonGrants), as the plugin serves them (src/plugin.ts), one     *)
(* call at a time per company.  Both write the same assignment policies,   *)
(* each keeps its own record of what it changed, and people edit the same  *)
(* policies and grants by hand.                                            *)
(*                                                                         *)
(* Every step is one call to the core or to the plugin's state.  It may    *)
(* fail, with or without its effect, and the worker may stop after any.    *)
(***************************************************************************)
EXTENDS Integers, FiniteSets

CONSTANTS
    Agents,
    Teams,          \* the shapes the company takes: [boss, status] of every agent
    ChangeKeys,     \* CHANGE_KEYS
    MaxRulesCalls,  \* bound: calls of the plugin
    MaxEvents       \* bound: what else happens: changes people make by hand, of the team
                    \* and of the groups; calls to the core that fail, workers that stop

VARIABLES
    team,           \* the core's agents: who reports to whom, and their status
    policy,         \* the core's assignment policy of each agent
    held,           \* the core's grants of each agent
    guardRecord,    \* GuardRecord
    groupRecord,    \* GroupsRecord's protected and required
    restricted,     \* the agents groups restrict, as kyoube.apps has them
    rulesCall,      \* the call being served
    wanted          \* history: what people set, and how the last calls ended

protectionVars == <<team, policy, held, guardRecord, groupRecord, restricted, rulesCall, wanted>>

-----------------------------------------------------------------------------
\* open: whatever mode but protected, none included.  foreign: canExtendPolicy is false.
Policies == {"open", "protected", "foreign"}
Grants   == {"broad", "team"} \cup ChangeKeys
NotAsked == {"not asked"}                       \* no entry in changeGranted
NoAgent  == "no agent"

ASSUME ProtectionAssumption ==
    NoAgent \notin Agents /\ ChangeKeys \cap {"broad", "team", "not asked"} = {}

Exists(a, t)   == t.status[a] # "terminated"
ManagersOf(t)  == {a \in Agents : Exists(a, t) /\ \E b \in Agents : Exists(b, t) /\ t.boss[b] = a}
TopOf(t)       == LET tops == {a \in Agents : t.boss[a] = NoAgent /\ t.status[a] = "active"}
                  IN  IF Cardinality(tops) = 1 THEN tops ELSE {}

NoCall == [kind |-> "none", at |-> "idle", team |-> CHOOSE t \in Teams : TRUE, keep |-> {}, todo |-> {},
           agent |-> NoAgent, next |-> {}, rest |-> [protected |-> {}, scoped |-> {}, broad |-> {},
           given |-> [a \in Agents |-> NotAsked]], clean |-> TRUE]
Idle   == rulesCall.at = "idle"
Underway(kind, at) == rulesCall.kind = kind /\ rulesCall.at = at
Me == rulesCall.agent

Drop(rec, a) == [protected |-> rec.protected \ {a}, scoped |-> rec.scoped \ {a}, broad |-> rec.broad \ {a},
                 given |-> [rec.given EXCEPT ![a] = NotAsked]]
OnRecord(rec) == rec.protected \cup rec.scoped \cup rec.broad \cup {a \in Agents : rec.given[a] # NotAsked}

To(at)      == rulesCall' = [rulesCall EXCEPT !.at = at]
NextAgent   == rulesCall' = [rulesCall EXCEPT !.at = "agent", !.agent = NoAgent, !.next = {}]

-----------------------------------------------------------------------------
(* A call: what it reads first                                             *)

Started == wanted.calls < MaxRulesCalls /\ Idle

\* `keep`, read inside the serialised call: what groups restrict now.
AskReconcile ==
    /\ Started
    /\ rulesCall' = [NoCall EXCEPT !.kind = "reconcile", !.at = "agent", !.team = team,
                                   !.keep = groupRecord.required,
                                   !.todo = {a \in Agents : team.status[a] = "active"}]
    /\ wanted' = [wanted EXCEPT !.calls = @ + 1, !.off = FALSE]
    /\ UNCHANGED <<team, policy, held, guardRecord, groupRecord, restricted>>

AskRevert ==
    /\ Started
    /\ rulesCall' = [NoCall EXCEPT !.kind = "revert", !.at = "agent", !.team = team,
                                   !.keep = groupRecord.required,
                                   !.todo = OnRecord(guardRecord), !.rest = guardRecord]
    /\ wanted' = [wanted EXCEPT !.calls = @ + 1, !.off = FALSE]
    /\ UNCHANGED <<team, policy, held, guardRecord, groupRecord, restricted>>

\* Nothing restricted and nothing left to undo: one read of the record.
AskApply ==
    /\ Started
    /\ restricted # {} \/ groupRecord.protected # {} \/ groupRecord.required # {}
    /\ rulesCall' = [NoCall EXCEPT !.kind = "apply", !.at = "required", !.team = team,
                                   !.todo = {a \in restricted : Exists(a, team)}]
    /\ wanted' = [wanted EXCEPT !.calls = @ + 1, !.secured = {}]
    /\ UNCHANGED <<team, policy, held, guardRecord, groupRecord, restricted>>

ApplyRequired ==
    /\ Underway("apply", "required")
    /\ groupRecord' = [groupRecord EXCEPT !.required = rulesCall.todo]
    /\ To("agent")
    /\ UNCHANGED <<team, policy, held, guardRecord, restricted, wanted>>

-----------------------------------------------------------------------------
(* The policy of one agent                                                 *)

Manages(a) == a \in ManagersOf(rulesCall.team)

\* What a call does with an agent's policy, once it has read it.
Protects(a) == /\ policy[a] = "open"
               /\ (rulesCall.kind = "reconcile" /\ Manages(a)) \/ rulesCall.kind = "apply"

Releases(a) == \/ /\ rulesCall.kind = "reconcile" /\ ~Manages(a)
                  /\ a \in guardRecord.protected /\ a \notin rulesCall.keep
               \/ /\ rulesCall.kind = "revert" /\ a \in rulesCall.rest.protected
                  /\ a \notin rulesCall.keep
               \/ rulesCall.kind = "lift"

\* The next agent of the call: `at` says what is done with it next.
Takes(a, at) == rulesCall' = [rulesCall EXCEPT !.agent = a, !.todo = @ \ {a}, !.at = at]
AfterPolicy  == IF rulesCall.kind \in {"reconcile", "revert"} THEN To("grants") ELSE NextAgent

\* getPolicy, and the record written before the change it announces.
ReadPolicy(a) ==
    /\ rulesCall.at = "agent" /\ a \in rulesCall.todo
    /\ \/ /\ Protects(a)
          /\ IF rulesCall.kind = "apply"
             THEN groupRecord' = [groupRecord EXCEPT !.protected = @ \cup {a}] /\ UNCHANGED guardRecord
             ELSE guardRecord' = [guardRecord EXCEPT !.protected = @ \cup {a}] /\ UNCHANGED groupRecord
          /\ Takes(a, "protect")
       \/ /\ Releases(a)
          /\ Takes(a, IF policy[a] = "protected" /\ (rulesCall.kind = "lift" => Exists(a, rulesCall.team))
                      THEN "release" ELSE "forget")
          /\ UNCHANGED <<guardRecord, groupRecord>>
       \/ /\ ~Protects(a) /\ ~Releases(a)
          /\ IF rulesCall.kind \in {"reconcile", "revert"} THEN Takes(a, "grants")
             ELSE rulesCall' = [rulesCall EXCEPT !.todo = @ \ {a}]
          /\ UNCHANGED <<guardRecord, groupRecord>>
    /\ UNCHANGED <<team, policy, held, restricted, wanted>>

\* getPolicy, or the record, fails: for a reconcile the agent's grants come all the same.
ReadFails(a) ==
    /\ rulesCall.at = "agent" /\ a \in rulesCall.todo /\ wanted.events < MaxEvents
    /\ wanted' = [wanted EXCEPT !.events = @ + 1]
    /\ rulesCall' = [rulesCall EXCEPT !.todo = @ \ {a}, !.clean = FALSE,
                        !.at = IF rulesCall.kind = "reconcile" THEN "grants" ELSE "agent",
                        !.agent = IF rulesCall.kind = "reconcile" THEN a ELSE NoAgent]
    /\ UNCHANGED <<team, policy, held, guardRecord, groupRecord, restricted>>

Written == [policy EXCEPT ![Me] = IF rulesCall.at = "protect" THEN "protected" ELSE "open"]

\* setPolicy writes what was read, changed: what a person did meanwhile is lost.
WritePolicy ==
    /\ rulesCall.at \in {"protect", "release"}
    /\ policy' = Written
    /\ IF rulesCall.at = "release" THEN To("forget") ELSE AfterPolicy
    /\ UNCHANGED <<team, held, guardRecord, groupRecord, restricted, wanted>>

ForgetPolicy ==
    /\ rulesCall.at = "forget"
    /\ CASE rulesCall.kind = "reconcile" ->
              guardRecord' = [guardRecord EXCEPT !.protected = @ \ {Me}] /\ UNCHANGED groupRecord
         [] rulesCall.kind = "lift" ->
              groupRecord' = [groupRecord EXCEPT !.protected = @ \ {Me}] /\ UNCHANGED guardRecord
         [] OTHER -> UNCHANGED <<guardRecord, groupRecord>>
    /\ AfterPolicy
    /\ UNCHANGED <<team, policy, held, restricted, wanted>>

-----------------------------------------------------------------------------
(* The grants of one agent                                                 *)

\* The top agent's change grants, given once: Missing(a) may be empty.
Gives     == Me \in TopOf(rulesCall.team) /\ guardRecord.given[Me] = NotAsked
Missing   == ChangeKeys \ held[Me]
Desired   == IF rulesCall.kind = "revert"
             THEN ((held[Me] \ (IF Me \in rulesCall.rest.scoped THEN {"team"} ELSE {}))
                    \cup (IF Me \in rulesCall.rest.broad THEN {"broad"} ELSE {}))
                    \ (IF rulesCall.rest.given[Me] = NotAsked THEN {} ELSE rulesCall.rest.given[Me])
             ELSE ((held[Me] \ {"broad"})
                    \ (IF ~Manages(Me) /\ Me \in guardRecord.scoped THEN {"team"} ELSE {}))
                    \cup (IF Manages(Me) THEN {"team"} ELSE {}) \cup (IF Gives THEN Missing ELSE {})

\* The record as it is before the grants are set.
Announced(rec) ==
    [protected |-> rec.protected,
     scoped |-> IF Manages(Me) /\ "team" \notin held[Me] THEN rec.scoped \cup {Me} ELSE rec.scoped,
     broad  |-> IF "broad" \in held[Me] THEN rec.broad \cup {Me} ELSE rec.broad,
     given  |-> IF Gives THEN [rec.given EXCEPT ![Me] = Missing] ELSE rec.given]

\* An agent that is no manager any more leaves `scoped` once its grant is gone;
\* a revert drops the agent from the record it will write at its end.
AfterGrants ==
    IF rulesCall.kind = "reconcile" /\ ~Manages(Me) /\ Me \in guardRecord.scoped THEN To("granted")
    ELSE rulesCall' = [rulesCall EXCEPT !.at = "agent", !.agent = NoAgent, !.next = {},
                                        !.rest = IF rulesCall.kind = "revert" THEN Drop(@, Me) ELSE @]

\* As history: the agents a reconcile has left with the change grants of its top.
Remembers == wanted' = [wanted EXCEPT !.tops = @ \cup (IF rulesCall.kind = "reconcile"
                                                     THEN {Me} \cap TopOf(rulesCall.team) ELSE {})]

ReadGrants ==
    /\ rulesCall.at = "grants"
    /\ guardRecord' = IF rulesCall.kind = "reconcile" THEN Announced(guardRecord) ELSE guardRecord
    /\ IF Desired # held[Me]
       THEN rulesCall' = [rulesCall EXCEPT !.next = Desired, !.at = "grant"] /\ UNCHANGED wanted
       ELSE AfterGrants /\ Remembers
    /\ UNCHANGED <<team, policy, held, groupRecord, restricted>>

WriteGrants ==
    /\ rulesCall.at = "grant"
    /\ held' = [held EXCEPT ![Me] = rulesCall.next]
    /\ AfterGrants /\ Remembers
    /\ UNCHANGED <<team, policy, guardRecord, groupRecord, restricted>>

ForgetScoped ==
    /\ rulesCall.at = "granted"
    /\ guardRecord' = [guardRecord EXCEPT !.scoped = @ \ {Me}]
    /\ NextAgent
    /\ UNCHANGED <<team, policy, held, groupRecord, restricted, wanted>>

-----------------------------------------------------------------------------
(* The end of a call                                                       *)

\* applyGroups goes on to release what no group restricts any more.
StartLifting ==
    /\ Underway("apply", "agent") /\ rulesCall.todo = {}
    /\ rulesCall' = [rulesCall EXCEPT !.kind = "lift",
                        !.todo = groupRecord.protected \ (groupRecord.required \cup ManagersOf(rulesCall.team))]
    /\ UNCHANGED <<team, policy, held, guardRecord, groupRecord, restricted, wanted>>

EndsClean(kind) == rulesCall.clean /\ rulesCall.kind = kind

EndCall ==
    /\ rulesCall.at = "agent" /\ rulesCall.todo = {} /\ rulesCall.kind # "apply"
    /\ guardRecord' = IF rulesCall.kind = "revert" THEN rulesCall.rest ELSE guardRecord
    /\ wanted' = [wanted EXCEPT
         !.off = IF rulesCall.kind = "lift" THEN @ ELSE EndsClean("revert"),
         !.secured = IF EndsClean("lift") THEN {a \in groupRecord.required : policy[a] # "open"} ELSE @,
         !.taken = IF rulesCall.kind = "revert"
                   THEN [a \in Agents |-> IF rulesCall.rest.given[a] = NotAsked THEN {} ELSE @[a]] ELSE @,
         !.tops  = IF rulesCall.kind = "revert" THEN {a \in @ : rulesCall.rest.given[a] # NotAsked} ELSE @]
    /\ rulesCall' = NoCall
    /\ UNCHANGED <<team, policy, held, groupRecord, restricted>>

-----------------------------------------------------------------------------
(* What else happens                                                       *)

\* A call to the core fails, or its answer is lost after it took effect: the
\* part it belongs to is given up and the call goes on (a revert with the next
\* agent, whose entry stays; a failed write of `required` ends the call).
StepFails ==
    /\ ~Idle /\ rulesCall.at # "agent"
    /\ wanted.events < MaxEvents
    /\ wanted' = [wanted EXCEPT !.events = @ + 1]
    /\ \/ UNCHANGED <<policy, held>>
       \/ rulesCall.at \in {"protect", "release"} /\ policy' = Written /\ UNCHANGED held
       \/ rulesCall.at = "grant" /\ held' = [held EXCEPT ![Me] = rulesCall.next] /\ UNCHANGED policy
    /\ rulesCall' =
         IF rulesCall.at = "required" THEN NoCall
         ELSE IF rulesCall.kind = "reconcile" /\ rulesCall.at \in {"protect", "release", "forget"}
         THEN [rulesCall EXCEPT !.at = "grants", !.clean = FALSE]
         ELSE [rulesCall EXCEPT !.at = "agent", !.agent = NoAgent, !.next = {}, !.clean = FALSE]
    /\ UNCHANGED <<team, guardRecord, groupRecord, restricted>>

WorkerStops ==
    /\ ~Idle /\ wanted.events < MaxEvents
    /\ rulesCall' = NoCall
    /\ wanted' = [wanted EXCEPT !.events = @ + 1]
    /\ UNCHANGED <<team, policy, held, guardRecord, groupRecord, restricted>>

TeamChanges ==
    /\ wanted.events < MaxEvents
    /\ team' \in Teams \ {team}
    /\ \A a \in Agents : ~Exists(a, team) => ~Exists(a, team')
    /\ wanted' = [wanted EXCEPT !.events = @ + 1]
    /\ UNCHANGED <<policy, held, guardRecord, groupRecord, restricted, rulesCall>>

GroupsChange ==
    /\ wanted.events < MaxEvents
    /\ restricted' \in (SUBSET Agents) \ {restricted}
    /\ wanted' = [wanted EXCEPT !.events = @ + 1,
                                !.grouped = @ \cup restricted']
    /\ UNCHANGED <<team, policy, held, guardRecord, groupRecord, rulesCall>>

\* An edit by hand between a call's read and its write of the same agent is lost;
\* one during a revert may or may not be before what a repeated revert undoes.
Crossed(a) == IF ~Idle /\ (Me = a \/ rulesCall.kind = "revert") THEN wanted.crossed \cup {a} ELSE wanted.crossed

\* A policy or grant equal to one on record is read as KyoubeAI's, whoever set it.
EditsPolicy(a, p) ==
    /\ wanted.events < MaxEvents /\ p # policy[a]
    /\ policy' = [policy EXCEPT ![a] = p]
    /\ wanted' = [wanted EXCEPT !.events = @ + 1, !.secured = @ \ {a}, !.crossed = Crossed(a),
         !.policy[a] = IF p = "protected" /\ a \in guardRecord.protected \cup groupRecord.protected
                       THEN "open" ELSE p]
    /\ UNCHANGED <<team, held, guardRecord, groupRecord, restricted, rulesCall>>

Recorded(a, g) ==
    \/ g = "broad" /\ a \in guardRecord.broad
    \/ g = "team" /\ a \in guardRecord.scoped
    \/ guardRecord.given[a] # NotAsked /\ g \in guardRecord.given[a]

EditsGrant(a, g) ==
    /\ wanted.events < MaxEvents
    /\ held' = [held EXCEPT ![a] = IF g \in @ THEN @ \ {g} ELSE @ \cup {g}]
    /\ wanted' = [wanted EXCEPT !.events = @ + 1, !.crossed = Crossed(a),
         !.held[a] = IF Recorded(a, g) THEN @ ELSE (held'[a] \cap {g}) \cup (@ \ {g}),
         !.taken[a] = IF g \in held[a] /\ a \in wanted.tops THEN @ \cup ({g} \cap ChangeKeys)
                      ELSE @ \ {g}]
    /\ UNCHANGED <<team, policy, guardRecord, groupRecord, restricted, rulesCall>>

-----------------------------------------------------------------------------
ProtectionInit ==
    /\ team \in Teams /\ \A a \in Agents : Exists(a, team)
    /\ policy = [a \in Agents |-> "open"]
    /\ \E g \in {{"broad"}, {"broad"} \cup ChangeKeys} : held = [a \in Agents |-> g]
    /\ guardRecord = NoCall.rest
    /\ groupRecord = [protected |-> {}, required |-> {}]
    /\ restricted \in SUBSET Agents
    /\ rulesCall = NoCall
    /\ wanted = [policy |-> policy, held |-> held, taken |-> [a \in Agents |-> {}], tops |-> {}, secured |-> {},
                 grouped |-> restricted, crossed |-> {}, off |-> FALSE,
                 calls |-> 0, events |-> 0]

ProtectionNext ==
    \/ AskReconcile \/ AskRevert \/ AskApply \/ ApplyRequired
    \/ \E a \in Agents : ReadPolicy(a) \/ ReadFails(a)
    \/ WritePolicy \/ ForgetPolicy \/ ReadGrants \/ WriteGrants \/ ForgetScoped
    \/ StartLifting \/ EndCall \/ StepFails \/ WorkerStops \/ TeamChanges \/ GroupsChange
    \/ \E a \in Agents : \/ \E p \in Policies : EditsPolicy(a, p)
                         \/ \E g \in Grants : EditsGrant(a, g)

ProtectionSpec == ProtectionInit /\ [][ProtectionNext]_protectionVars

-----------------------------------------------------------------------------
GuardRecords == [protected : SUBSET Agents, scoped : SUBSET Agents, broad : SUBSET Agents,
                 given : [Agents -> (SUBSET ChangeKeys) \cup {NotAsked}]]

ProtectionTypeOK ==
    /\ team \in Teams /\ restricted \in SUBSET Agents
    /\ policy \in [Agents -> Policies] /\ held \in [Agents -> SUBSET Grants]
    /\ guardRecord \in GuardRecords
    /\ groupRecord \in [protected : SUBSET Agents, required : SUBSET Agents]
    /\ rulesCall.kind \in {"none", "reconcile", "revert", "apply", "lift"}
    /\ rulesCall.at \in {"idle", "agent", "required", "protect", "release", "forget",
                         "grants", "grant", "granted"}
    /\ rulesCall.agent \in Agents \cup {NoAgent} /\ rulesCall.todo \in SUBSET Agents
    /\ rulesCall.next \in SUBSET Grants /\ rulesCall.rest \in GuardRecords

\* Turning the rules off gives back what they took and takes back what they gave,
\* and nothing else, whatever failed or stopped on the way there: after a revert
\* that reported no failure every agent holds the grants its people gave it, and an
\* agent no group ever restricted has the policy they set.
RevertGivesBack ==
    Idle /\ wanted.off => \A a \in Agents \ wanted.crossed :
        /\ held[a] = wanted.held[a]
        /\ a \notin wanted.grouped => policy[a] = wanted.policy[a]

\* "so a person who takes them away is not overruled": a change grant a person took
\* from an agent the guardrail had made, or found, its top agent stays away, also
\* when the agent leaves the top and comes back.
TakenAwayStays == \A a \in Agents \ wanted.crossed : wanted.taken[a] \cap held[a] = {}

\* What an apply without failure left protected for a group, no later reconcile or
\* revert of the manager rule opens, though it may be the one that protected it.
GroupsOutlastTheRules == \A a \in wanted.secured : policy[a] # "open"
=============================================================================
