---------------------------- MODULE PersonGrants ----------------------------
(***************************************************************************)
(* A person's one `tasks:assign` grant under user groups: the second half  *)
(* of applyGroups (plugins/kyoube-agent-rules/src/groups.ts), once a       *)
(* minute from the agent rules loop (docker/bootstrap/src/agent-rules/     *)
(* pass.ts, groupsStep).  The pass replaces the core's unscoped grant by a *)
(* scoped one and must be able to put it back, though any call to the core *)
(* may fail with or without effect, the worker may stop at any point, and  *)
(* people change the same grant by hand.                                   *)
(*                                                                         *)
(* People do not share anything but the time of the pass, so the model has *)
(* one person.  The protected agents are in AgentProtection.               *)
(***************************************************************************)
EXTENDS Integers, FiniteSets

CONSTANTS
    Staff,          \* the company's agents
    MaxIncidents    \* bound: changes of groups, agents and people; failures, stops

VARIABLES
    row,            \* the core's tasks:assign row of the person
    entry,          \* record.people of the person: PersonEntry
    person,         \* [role, status] as the core's member list has them
    groups,         \* what kyoube.apps answers: agents restricted, those allowed to the person
    hired,          \* the agents that are not terminated
    pass,           \* the pass under way
    story           \* history

grantVars == <<row, entry, person, groups, hired, pass, story>>

-----------------------------------------------------------------------------
NoRow     == [kind |-> "none", on |-> {}]
Unscoped  == [kind |-> "unscoped", on |-> {}]
ByHand    == [kind |-> "custom", on |-> {}]         \* scoped in some other way
ScopedTo(agents) == [kind |-> "scoped", on |-> agents]  \* {}: NO_AGENT alone
Rows      == {NoRow, Unscoped, ByHand} \cup {ScopedTo(s) : s \in SUBSET Staff}

NoEntry   == {}                                     \* else one [original, applied, pending]
NotPending == {}
EntryOf(original, applied, pending) == {[original |-> original, applied |-> applied, pending |-> pending]}

Accesses  == {g \in [restricted : SUBSET Staff, allowed : SUBSET Staff] : g.allowed \subseteq g.restricted}
NoPass    == [at |-> "idle", access |-> [restricted |-> {}, allowed |-> {}], live |-> {},
              role |-> "operator", next |-> NoRow, original |-> NoRow]
PassTo(at)    == pass' = [pass EXCEPT !.at = at]

-----------------------------------------------------------------------------

\* planPerson; a row scoped by someone else is "custom", and stays.
Plan(role, original, live, access) ==
    LET restricted == access.restricted \cap live
    IN  IF role = "admin" \/ restricted = {} \/ original # Unscoped THEN original
        ELSE ScopedTo(live \ (restricted \ access.allowed))

\* "KyoubeAI's own when it is any row KyoubeAI held, wrote or started to write".
Mine(current) == \E e \in entry : current \in {e.applied, e.original} \cup e.pending

\* The entry a write is announced with.
AnnouncedOver(original, applied, next) == EntryOf(original, next, NotPending)   \* mutant: as if written
AnnouncedAs(original, applied, next)   == EntryOf(original, applied, {next})

-----------------------------------------------------------------------------
(* A pass                                                                  *)

\* The loop reads who may assign what from kyoube.apps, and posts it.  A failed
\* read is no pass.
PassStarts ==
    /\ pass.at = "idle"
    /\ pass' = [NoPass EXCEPT !.at = "listing", !.access = groups]
    /\ story' = [story EXCEPT !.quiet = TRUE]
    /\ UNCHANGED <<row, entry, person, groups, hired>>

\* Agents, then members: one gone from the list is forgotten, one not active left alone.
PassLists ==
    /\ pass.at = "listing"
    /\ entry' = IF person.status = "gone" THEN NoEntry ELSE entry
    /\ pass' = IF person.status = "active"
               THEN [pass EXCEPT !.at = "person", !.live = hired, !.role = person.role] ELSE NoPass
    /\ UNCHANGED <<row, person, groups, hired, story>>

\* What the core holds, what it should, and the record before the write.
PassReadsRow ==
    /\ pass.at = "person"
    /\ LET original == IF entry = NoEntry THEN row ELSE (CHOOSE e \in entry : TRUE).original
           next     == Plan(pass.role, original, pass.live, pass.access)
       IN  \/ /\ entry # NoEntry /\ ~Mine(row)          \* changed by a person
              /\ entry' = NoEntry /\ pass' = NoPass
           \/ /\ entry = NoEntry \/ Mine(row)
              /\ next = row
              /\ entry' = IF next = original THEN NoEntry ELSE EntryOf(original, row, NotPending)
              /\ pass' = NoPass
           \/ /\ entry = NoEntry \/ Mine(row)
              /\ next # row
              /\ entry' = AnnouncedAs(original, row, next)
              /\ pass' = [pass EXCEPT !.at = "write", !.next = next, !.original = original]
    /\ UNCHANGED <<row, person, groups, hired, story>>

\* setUserGrants: what a person did since the row was read is lost.
PassWritesRow ==
    /\ pass.at = "write"
    /\ row' = pass.next
    /\ PassTo("confirm")
    /\ story' = [story EXCEPT !.by = "kyoube"]
    /\ UNCHANGED <<entry, person, groups, hired>>

PassConfirms ==
    /\ pass.at = "confirm"
    /\ entry' = IF pass.next = pass.original THEN NoEntry ELSE EntryOf(pass.original, pass.next, NotPending)
    /\ pass' = NoPass
    /\ UNCHANGED <<row, person, groups, hired, story>>

-----------------------------------------------------------------------------
(* What else happens                                                       *)

Incident == story.incidents < MaxIncidents
Crosses == pass.at \in {"write", "confirm"}
Happened == [story EXCEPT !.incidents = @ + 1, !.quiet = FALSE]

\* A call fails, or the worker stops: the rest of the pass is left to the next.
\* The write of the row, or of the record, may have taken effect all the same.
PassFails ==
    /\ Incident /\ pass.at # "idle"
    /\ pass' = NoPass
    /\ \/ UNCHANGED row /\ story' = Happened
       \/ pass.at = "write" /\ row' = pass.next /\ story' = [Happened EXCEPT !.by = "kyoube"]
    /\ UNCHANGED <<entry, person, groups, hired>>

GroupsAreEdited ==
    /\ Incident /\ story' = Happened
    /\ groups' \in Accesses \ {groups}
    /\ UNCHANGED <<row, entry, person, hired, pass>>

AgentsComeAndGo ==
    /\ Incident /\ story' = Happened
    /\ \E a \in Staff : hired' = IF a \in hired THEN hired \ {a} ELSE hired \cup {a}
    /\ UNCHANGED <<row, entry, person, groups, pass>>

MemberChanges ==
    /\ Incident /\ story' = Happened /\ person.status # "gone"
    /\ person' \in {[person EXCEPT !.role = r] : r \in {"operator", "admin"}}
                   \cup {[person EXCEPT !.status = s] : s \in {"active", "suspended"}}
    /\ person' # person
    /\ UNCHANGED <<row, entry, groups, hired, pass>>

\* The core drops the row of a member it removes, and gives a new one its role's.
MemberLeaves ==
    /\ Incident /\ person.status # "gone"
    /\ person' = [person EXCEPT !.status = "gone"] /\ row' = NoRow
    /\ story' = [Happened EXCEPT !.by = "core", !.set = NoRow, !.crossed = Crosses, !.stands = FALSE]
    /\ UNCHANGED <<entry, groups, hired, pass>>

MemberJoins ==
    /\ Incident /\ person.status = "gone"
    /\ person' = [role |-> "operator", status |-> "active"] /\ row' = Unscoped
    /\ story' = [Happened EXCEPT !.by = "core", !.set = Unscoped, !.crossed = Crosses, !.stands = FALSE]
    /\ UNCHANGED <<entry, groups, hired, pass>>

\* "Deliberately, a row a person sets by hand that equals `original` or `applied` is
\* read as KyoubeAI's": such an edit is no wish the pass could know of.
EntryHas(r) == \E e \in entry : r \in {e.original, e.applied} \cup e.pending

GrantIsEdited ==
    /\ Incident /\ person.status # "gone"
    /\ \E r \in Rows \ {row} :
         /\ row' = r
         /\ story' = [Happened EXCEPT !.by = IF EntryHas(r) THEN "kyoube" ELSE "person", !.set = r,
                                      !.crossed = Crosses, !.stands = ~EntryHas(r) /\ r # Unscoped]
    /\ UNCHANGED <<entry, person, groups, hired, pass>>

-----------------------------------------------------------------------------
GrantsInit ==
    /\ row \in {Unscoped, ByHand, NoRow} /\ entry = NoEntry
    /\ person = [role |-> "operator", status |-> "active"]
    /\ groups \in Accesses /\ hired = Staff
    /\ pass = NoPass
    /\ story = [by |-> "core", set |-> row, crossed |-> FALSE, stands |-> FALSE, quiet |-> FALSE, incidents |-> 0]

GrantsNext ==
    \/ PassStarts \/ PassLists \/ PassReadsRow \/ PassWritesRow \/ PassConfirms \/ PassFails
    \/ GroupsAreEdited \/ AgentsComeAndGo \/ MemberChanges \/ MemberLeaves \/ MemberJoins \/ GrantIsEdited

GrantsSpec == GrantsInit /\ [][GrantsNext]_grantVars

-----------------------------------------------------------------------------
GrantsTypeOK ==
    /\ row \in Rows /\ Cardinality(entry) <= 1
    /\ \A e \in entry : e.original \in Rows /\ e.applied \in Rows /\ e.pending \subseteq Rows
    /\ person \in [role : {"operator", "admin"}, status : {"active", "suspended", "gone"}]
    /\ groups \in Accesses /\ hired \in SUBSET Staff
    /\ pass.at \in {"idle", "listing", "person", "write", "confirm"}
    /\ story.by \in {"core", "person", "kyoube"} /\ story.set \in Rows

\* A scoped grant KyoubeAI wrote is always one its record recognises, with the grant
\* it replaced beside it: no failure, lost answer or stop leaves a person confined to
\* a list of agents that nothing will ever widen again.
ScopedRowsAreOnRecord ==
    story.by = "kyoube" /\ row.kind = "scoped" /\ ~story.crossed
        => \E e \in entry : e.original = Unscoped /\ EntryHas(row)

\* "A grant someone changes after KyoubeAI wrote it is left as they set it": as
\* long as nobody changes it again, except for a change that fell between a pass's
\* read and its write, and for the unscoped grant, which is KyoubeAI's to scope.
HandSetGrantsStand == story.stands /\ ~story.crossed => row = story.set

\* One pass in peace is enough, whatever happened before: the person may then assign
\* every agent but those restricted to others, or has back the grant they had, with
\* nothing left on the record.
PassSettles ==
    story.quiet /\ pass.at = "idle" /\ person.status = "active" /\ ~story.crossed =>
        LET free == person.role = "admin" \/ groups.restricted \cap hired = {}
        IN  /\ row.kind \in {"unscoped", "scoped"} /\ (story.by = "kyoube" \/ story.set = Unscoped) =>
                 row = IF free THEN Unscoped ELSE ScopedTo(hired \ (groups.restricted \ groups.allowed))
            /\ free => entry = NoEntry
=============================================================================
