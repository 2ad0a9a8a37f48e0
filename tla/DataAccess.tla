----------------------------- MODULE DataAccess -----------------------------
(***************************************************************************)
(* Who may do what with a company's data: the role cache (src/roles.ts),   *)
(* the level of a call (data/service.ts, levelFor and authorize), agents'  *)
(* grants and the company's default (data/grants.ts), and the groups that  *)
(* set a member's level (groups/service.ts, groups/store.ts), with the     *)
(* pass of `kyoube agent-rules` that prunes them.                          *)
(*                                                                         *)
(* One person, who may be a manager at times, and one agent; a behaviour   *)
(* has one topic, his calls, the agent's, or the groups, and what only the *)
(* other topics need stands still.  The core's list of members is          *)
(* external: a listing is read at one moment, answered at a later one, may *)
(* fail, and, for a pass, may come back empty.                             *)
(***************************************************************************)
EXTENDS Integers, FiniteSets

CONSTANTS Askers,       \* calls under way at once
          Teams,        \* groups' ids
          CacheMs,      \* how long a listing serves reads and row writes
          ListTimeout,  \* within which the core answers or fails
          MaxGroups, MaxAsked, MaxMoves

ASSUME DataAccessAssumption ==
    /\ IsFiniteSet(Askers) /\ Askers # {}
    /\ CacheMs \in Nat \ {0} /\ {ListTimeout, MaxGroups, MaxAsked, MaxMoves} \subseteq Nat

VARIABLES topic,        \* what the behaviour is about: "person", "agent" or "groups"
          standing,     \* the person in the core's list of members
          sinceHeld,    \* for how long each role has not been the person's (history)
          roleCache,    \* RoleResolver.cache of the company
          asking,       \* the calls
          teams,        \* the groups
          granted,      \* the agent's grant, and the company's default
          agentThere,   \* whether the core lists the agent
          pruning,      \* the pass
          wrongs,       \* what has gone against a property (history)
          asked, moves

accessVars == <<topic, standing, sinceHeld, roleCache, asking, teams, granted, agentThere,
                pruning, wrongs, asked, moves>>

Standings == {"admin", "member", "viewer", "suspended", "archived"}
Roles == {"admin", "member", "viewer", "none"}
Levels == {"none", "read", "write", "schema"}
GroupLevels == {"read", "write", "schema", "unset"}
Unset == "unset"
NoTeam == [level |-> "absent", members |-> {}]
Nobodys == "nobody"
NotCached == [kind |-> "none", age |-> 0, role |-> "none", by |-> Nobodys]
NoAsk == [at |-> "idle", kind |-> "row", waited |-> 0, role |-> "none", by |-> Nobodys,
          roles |-> {}, levels |-> {}, moved |-> {}]
NoPass == [at |-> "idle", keep |-> {}, gone |-> {}, set |-> {}]

\* For a read or a row write, a role counts that was held less than this ago.
Recent == CacheMs + ListTimeout

Rank == [none |-> 0, read |-> 1, write |-> 2, schema |-> 3]

\* Only an active membership carries a role; anybody not archived keeps his groups.
RoleNow == IF standing \in {"suspended", "archived"} THEN "none" ELSE standing
Listed == (IF standing = "archived" THEN {} ELSE {"person"}) \cup (IF agentThere THEN {"agent"} ELSE {})

Existing == {t \in Teams : teams[t] # NoTeam}
TeamLevels == {teams[t].level : t \in {u \in Existing : "person" \in teams[u].members}} \ {Unset}
Highest(levels) == CHOOSE l \in levels : \A k \in levels : Rank[k] <= Rank[l]
RoleLevel == [admin |-> "schema", member |-> "write", viewer |-> "read", none |-> "none"]

\* A member's groups set his level; they neither raise a viewer nor restrict a manager.
PersonLevel(role, levels) ==
    IF role # "member" \/ levels = {} THEN RoleLevel[role] ELSE Highest(levels)

\* An agent's own grant, or the company's default.
AgentLevel == IF granted.own # Unset THEN granted.own ELSE granted.default

LevelNow(kind) == IF kind = "agent" THEN AgentLevel ELSE PersonLevel(RoleNow, TeamLevels)

AccessInit ==
    /\ topic \in {"person", "agent", "groups"}
    /\ standing \in {"admin", "member"}
    /\ sinceHeld = [r \in Roles |-> IF r = standing THEN 0 ELSE Recent]
    /\ roleCache = NotCached
    /\ asking = [c \in Askers |-> NoAsk]
    /\ teams = [t \in Teams |-> NoTeam]
    /\ granted = [own |-> Unset, default |-> "none"]
    /\ agentThere = TRUE
    /\ pruning = NoPass /\ wrongs = {}
    /\ asked = 0 /\ moves = 0

-----------------------------------------------------------------------------
(* What a change leaves behind for the calls that are under way            *)

\* Every call under way notes what the person and the agent may do from now on (history).
Noted(calls, what) ==
    [c \in Askers |->
       IF calls[c].at = "idle" THEN calls[c]
       ELSE [calls[c] EXCEPT !.roles = @ \cup {RoleNow'}, !.moved = @ \cup {what},
                             !.levels = @ \cup {IF calls[c].kind = "agent" THEN AgentLevel'
                                                ELSE PersonLevel(RoleNow, TeamLevels)'}]]

\* The core's list changes: a role, a suspension, somebody leaves or comes back.
PersonMoves(s) ==
    /\ topic # "agent" /\ moves < MaxMoves /\ s # standing
    /\ moves' = moves + 1
    /\ standing' = s
    /\ sinceHeld' = [sinceHeld EXCEPT ![RoleNow] = 0, ![RoleNow'] = 0]
    /\ UNCHANGED <<topic, roleCache, teams, granted, agentThere, wrongs, asked>>
    /\ asking' = Noted(asking, "role")
    /\ pruning' = [pruning EXCEPT !.gone = IF s = "archived" /\ pruning # NoPass THEN @ \cup {"person"} ELSE @]

AgentMoves ==
    /\ topic = "groups" /\ moves < MaxMoves
    /\ moves' = moves + 1
    /\ agentThere' = ~agentThere
    /\ pruning' = [pruning EXCEPT !.gone = IF pruning = NoPass THEN @ ELSE @ \cup {"agent"}]
    /\ UNCHANGED <<topic, standing, sinceHeld, roleCache, asking, teams, granted, wrongs, asked>>

\* Time passes, but no listing stays unanswered beyond its timeout.
HourPasses ==
    /\ topic = "person"
    /\ \A c \in Askers : asking[c].at \in {"asked", "read"} => asking[c].waited < ListTimeout
    /\ sinceHeld' = [r \in Roles |-> IF r = RoleNow \/ sinceHeld[r] = Recent THEN sinceHeld[r] ELSE sinceHeld[r] + 1]
    /\ roleCache' = [roleCache EXCEPT !.age = IF roleCache.kind = "entry" /\ @ < CacheMs THEN @ + 1 ELSE @]
    /\ asking' = [c \in Askers |-> [asking[c] EXCEPT !.waited = IF asking[c].at \in {"asked", "read"} THEN @ + 1 ELSE @]]
    /\ UNCHANGED <<topic, standing, teams, granted, agentThere, pruning, wrongs, asked, moves>>

-----------------------------------------------------------------------------
(* RoleResolver                                                            *)

\* A call at its start, with what counts as the person's (history).
Begun(kind) == [NoAsk EXCEPT !.kind = kind, !.levels = {LevelNow(kind)},
                             !.roles = IF kind = "row" THEN {r \in Roles : sinceHeld[r] < Recent} ELSE {RoleNow}]
Asks(kind) == [Begun(kind) EXCEPT !.at = "asked"]
ServesForever == roleCache.kind = "entry"     \* mutant
StillServes == roleCache.kind = "entry" /\ roleCache.age < CacheMs

\* A read or a row write: the cache while it serves, the listing under way if there is one,
\* or one of its own that others join.
BeginsRow(c) ==
    /\ topic = "person" /\ asking[c].at = "idle" /\ asked < MaxAsked
    /\ asked' = asked + 1
    /\ \/ /\ StillServes
          /\ asking' = [asking EXCEPT ![c] = [Begun("row") EXCEPT !.at = "levels", !.role = roleCache.role]]
          /\ UNCHANGED roleCache
       \/ /\ roleCache.kind = "pending"
          /\ asking' = [asking EXCEPT ![c] = [Begun("row") EXCEPT !.at = "joined", !.by = roleCache.by]]
          /\ UNCHANGED roleCache
       \/ /\ ~StillServes /\ roleCache.kind # "pending"
          /\ asking' = [asking EXCEPT ![c] = Asks("row")]
          /\ roleCache' = [NotCached EXCEPT !.kind = "pending", !.by = c]
    /\ UNCHANGED <<topic, standing, sinceHeld, teams, granted, agentThere, pruning, wrongs, moves>>

KindsOf == [person |-> {"schema", "save"}, agent |-> {"grant"}, groups |-> {"save"}]

\* A schema change, and whatever managers decide: a listing of its own (resolveFresh).
BeginsFresh(c) ==
    /\ asking[c].at = "idle" /\ asked < MaxAsked
    /\ asked' = asked + 1
    /\ \E kind \in KindsOf[topic] : asking' = [asking EXCEPT ![c] = Asks(kind)]
    /\ UNCHANGED <<topic, standing, sinceHeld, roleCache, teams, granted, agentThere, pruning, wrongs, moves>>

\* The core reads its list.
ListingRead(c) ==
    /\ asking[c].at = "asked"
    /\ asking' = [asking EXCEPT ![c].at = "read", ![c].role = RoleNow]
    /\ UNCHANGED <<topic, standing, sinceHeld, roleCache, teams, granted, agentThere, pruning, wrongs, asked, moves>>

\* What a call does next with its role: managers' calls go on for managers alone.
GoesOn(ask, role) ==
    IF ask.kind \notin {"row", "schema"} /\ role # "admin" THEN NoAsk
    ELSE [ask EXCEPT !.role = role, !.waited = 0, !.by = Nobodys,
                     !.at = IF ask.kind \in {"row", "schema"} THEN "levels"
                            ELSE IF ask.kind = "save" THEN "count" ELSE "set"]
Served(c) == {d \in Askers : d = c \/ (asking[d].at = "joined" /\ asking[d].by = c)}

\* The listing arrives: it is cached from now, and served to all who wait for it.
ListingArrives(c) ==
    /\ asking[c].at = "read"
    /\ roleCache' = [NotCached EXCEPT !.kind = "entry", !.role = asking[c].role]
    /\ asking' = [d \in Askers |-> IF d \in Served(c) THEN GoesOn(asking[d], asking[c].role) ELSE asking[d]]
    /\ UNCHANGED <<topic, standing, sinceHeld, teams, granted, agentThere, pruning, wrongs, asked, moves>>

\* The listing fails: nothing is cached, and nobody is let through.
ListingFails(c) ==
    /\ asking[c].at \in {"asked", "read"}
    /\ roleCache' = NotCached
    /\ asking' = [d \in Askers |-> IF d \in Served(c) THEN NoAsk ELSE asking[d]]
    /\ UNCHANGED <<topic, standing, sinceHeld, teams, granted, agentThere, pruning, wrongs, asked, moves>>

-----------------------------------------------------------------------------
(* levelFor                                                                *)

\* A schema change and an agent's call go through at a level that was theirs at a moment
\* since the call began, unless both things it is made of changed meanwhile; a read or a row
\* write goes by a role that was the person's recently, and no group raises a viewer (ruling R19).
Right(ask, level) ==
    /\ ask.kind = "schema" => level \in ask.levels \/ {"role", "groups"} \subseteq ask.moved
    /\ ask.kind = "agent" => level \in ask.levels \/ {"own", "default"} \subseteq ask.moved
    /\ ask.kind = "row" => ask.role \in ask.roles
    /\ ask.role = "viewer" => Rank[level] <= Rank["read"]

\* The call is allowed or refused at this level, and is over.
Decided(c, ask, level) ==
    /\ asking' = [asking EXCEPT ![c] = NoAsk]
    /\ wrongs' = IF Right(ask, level) THEN wrongs ELSE wrongs \cup {"level"}

\* A person: managers, viewers and outsiders by role, members by their groups as they are now.
DecidesLevel(c) ==
    /\ asking[c].at = "levels"
    /\ Decided(c, asking[c], PersonLevel(asking[c].role, TeamLevels))
    /\ UNCHANGED <<topic, standing, sinceHeld, roleCache, teams, granted, agentThere, pruning, asked, moves>>

\* An agent: its own grant is read first, the default only if there is none.
BeginsAgent(c) ==
    /\ topic = "agent" /\ asking[c].at = "idle" /\ asked < MaxAsked
    /\ asked' = asked + 1
    /\ IF granted.own # Unset THEN Decided(c, Begun("agent"), granted.own)
       ELSE asking' = [asking EXCEPT ![c] = [Begun("agent") EXCEPT !.at = "default"]] /\ UNCHANGED wrongs
    /\ UNCHANGED <<topic, standing, sinceHeld, roleCache, teams, granted, agentThere, pruning, moves>>

ReadsDefault(c) ==
    /\ asking[c].at = "default"
    /\ Decided(c, asking[c], granted.default)
    /\ UNCHANGED <<topic, standing, sinceHeld, roleCache, teams, granted, agentThere, pruning, asked, moves>>

-----------------------------------------------------------------------------
(* Grants, settings and groups                                             *)

\* setAgentGrant and setSettings.
SetsGrant(c) ==
    /\ asking[c].at = "set"
    /\ UNCHANGED <<topic, standing, sinceHeld, roleCache, teams, agentThere, pruning, wrongs, asked, moves>>
    /\ \E what \in {"own", "default"}, l \in {"none", "write"} :
         /\ granted' = [granted EXCEPT ![what] = l]
         /\ asking' = Noted([asking EXCEPT ![c] = NoAsk], what)

\* GroupService.save of a new group counts the groups first, outside its transaction.
FullNow(n) == n >= MaxGroups
CountsGroups(c) ==
    /\ asking[c].at = "count"
    /\ \/ asking' = [asking EXCEPT ![c] = IF FullNow(Cardinality(Existing)) THEN NoAsk ELSE [@ EXCEPT !.at = "create"]]
       \/ asking' = [asking EXCEPT ![c].at = "replace"]
    /\ UNCHANGED <<topic, standing, sinceHeld, roleCache, teams, granted, agentThere, pruning, wrongs, asked, moves>>

\* A group's row and links, in one transaction.
SetsTeam(c, t, team) ==
    /\ teams' = [teams EXCEPT ![t] = team]
    /\ pruning' = [pruning EXCEPT !.set = IF pruning = NoPass THEN @
                                               ELSE @ \cup {<<t, x>> : x \in team.members}]
    /\ UNCHANGED <<topic, standing, sinceHeld, roleCache, granted, agentThere, wrongs, asked, moves>>
    /\ asking' = Noted([asking EXCEPT ![c] = NoAsk], "groups")

CreatesGroup(c) ==
    /\ asking[c].at = "create"
    /\ \E t \in Teams \ Existing, l \in {"read", "schema", Unset}, m \in {{"person"}, {"person", "agent"}} :
         /\ topic = "person" => m = {"person"}
         /\ SetsTeam(c, t, [level |-> l, members |-> m])

\* GroupService.save of a group that is there, and remove.
ReplacesGroup(c) ==
    /\ asking[c].at = "replace"
    /\ \/ \E t \in Existing : \/ \E l \in {"read", "schema"} : SetsTeam(c, t, [level |-> l, members |-> {"person"}])
                              \/ SetsTeam(c, t, NoTeam)
       \/ /\ Existing = {}
          /\ asking' = [asking EXCEPT ![c] = NoAsk]
          /\ UNCHANGED <<topic, standing, sinceHeld, roleCache, teams, granted, agentThere, pruning, wrongs, asked, moves>>

-----------------------------------------------------------------------------
(* groups.agent_access: prune, then answer                                 *)

\* The listings the pass was given; an empty one of people is not believed.
PassLists ==
    /\ topic = "groups" /\ pruning.at = "idle"
    /\ \E odd \in BOOLEAN :
         pruning' = [NoPass EXCEPT !.at = IF odd \/ "person" \notin Listed THEN "own" ELSE "people",
                                   !.keep = IF odd THEN Listed \ {"person"} ELSE Listed,
                                   !.gone = {"person", "agent"} \ Listed]
    /\ UNCHANGED <<topic, standing, sinceHeld, roleCache, asking, teams, granted, agentThere, wrongs, asked, moves>>

\* Instead, whoever the groups have now is kept.
PassReadsOwn ==
    /\ pruning.at = "own"
    /\ pruning' = [pruning EXCEPT !.at = "people",
                     !.keep = @ \cup ({"person"} \cap UNION {teams[t].members : t \in Teams})]
    /\ UNCHANGED <<topic, standing, sinceHeld, roleCache, asking, teams, granted, agentThere, wrongs, asked, moves>>

\* Whom the pass drops, with or without cause (history).
Dropped(who) == {e \in Teams \X (who \ pruning.keep) : e[2] \in teams[e[1]].members}
Drops(who) ==
    /\ teams' = [t \in Teams |-> [teams[t] EXCEPT !.members = @ \ (who \ pruning.keep)]]
    /\ wrongs' = IF \A e \in Dropped(who) : e[2] \in pruning.gone \/ e \in pruning.set
                 THEN wrongs ELSE wrongs \cup {"member"}
    /\ UNCHANGED <<topic, standing, sinceHeld, roleCache, granted, agentThere, asked, moves>>
    /\ asking' = Noted(asking, "groups")

PrunesPeople ==
    /\ pruning.at = "people"
    /\ pruning' = [pruning EXCEPT !.at = "agents"]
    /\ Drops({"person"})

PrunesAgents ==
    /\ pruning.at = "agents"
    /\ pruning' = NoPass
    /\ Drops({"agent"})

AccessNext ==
    \/ \E s \in Standings : PersonMoves(s)
    \/ AgentMoves \/ HourPasses
    \/ \E c \in Askers : BeginsRow(c) \/ BeginsFresh(c) \/ ListingRead(c) \/ ListingArrives(c) \/ ListingFails(c)
    \/ \E c \in Askers : DecidesLevel(c) \/ BeginsAgent(c) \/ ReadsDefault(c)
    \/ \E c \in Askers : SetsGrant(c) \/ CountsGroups(c) \/ CreatesGroup(c) \/ ReplacesGroup(c)
    \/ PassLists \/ PassReadsOwn \/ PrunesPeople \/ PrunesAgents

AccessSpec == AccessInit /\ [][AccessNext]_accessVars

-----------------------------------------------------------------------------
AccessTypeOK ==
    /\ standing \in Standings /\ sinceHeld \in [Roles -> 0 .. Recent]
    /\ roleCache.kind \in {"none", "pending", "entry"} /\ roleCache.role \in Roles /\ roleCache.age \in 0 .. CacheMs
    /\ \A c \in Askers : asking[c].role \in Roles /\ asking[c].levels \subseteq Levels /\ asking[c].roles \subseteq Roles
    /\ \A t \in Teams : teams[t] = NoTeam \/ (teams[t].level \in GroupLevels /\ teams[t].members \subseteq {"person", "agent"})
    /\ granted.own \in Levels \cup {Unset} /\ granted.default \in Levels
    /\ agentThere \in BOOLEAN /\ asked \in 0 .. MaxAsked /\ moves \in 0 .. MaxMoves
    /\ wrongs \subseteq {"level", "member"}

\* What managers alone may decide is decided by somebody who has been one since the call
\* began, however fresh the cache and whatever listing is under way (ruling P4-R13).
ManagersDecide ==
    \A c \in Askers : asking[c].at \in {"count", "create", "replace", "set"} => "admin" \in asking[c].roles

\* Nobody is let through at a level that was not his: see Right.  A row write goes by a role
\* held within the cache's life and one listing, although a slow listing is cached from when
\* it arrives and may replace a younger one (levelFor, RoleResolver).
LevelsAreTheirs == "level" \notin wrongs

\* Savers that overlap take the groups past their limit by one less than their number.
GroupsAreLimited == Cardinality(Existing) <= MaxGroups + Cardinality(Askers) - 1

\* A group loses a member to a pass only if he was away, or was put into the group, since
\* the pass began; an empty listing empties no group (GroupService.agentAccess).
MembersOutlastThePass == "member" \notin wrongs
=============================================================================
