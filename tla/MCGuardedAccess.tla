-------------------------- MODULE MCGuardedAccess --------------------------
(***************************************************************************)
(* The two things that may stop a call, the guardrail and the access to    *)
(* data, share no state: a behaviour is about one of them.  While it is    *)
(* about access, nobody calls the guardrail; while it is about the         *)
(* guardrail, the variables of access are off.                             *)
(***************************************************************************)
EXTENDS MCGuardrail, DataAccess

VARIABLE part       \* what this behaviour is about

Off == "off"

AccessOff == /\ topic = Off /\ standing = Off /\ sinceHeld = Off /\ roleCache = Off
             /\ asking = Off /\ teams = Off /\ granted = Off /\ agentThere = Off
             /\ pruning = Off /\ wrongs = Off /\ asked = Off /\ moves = Off

GuardedInit ==
    /\ part \in {"guardrail", "access"}
    /\ Init
    /\ IF part = "access" THEN AccessInit ELSE AccessOff

GuardedNext ==
    /\ UNCHANGED part
    /\ \/ part = "guardrail" /\ Next /\ UNCHANGED accessVars
       \/ part = "access" /\ AccessNext /\ UNCHANGED vars

GuardedSpec == GuardedInit /\ [][GuardedNext]_<<part, vars, accessVars>>

CONSTANTS t1, t2
TeamPair == {t1, t2}
Alike == CallersAlike \cup Permutations(TeamPair)

\* Managers alone decide who may do what, nobody passes at a level that was not his, and
\* the limit and the pruning of groups hold (roles.ts, access/service.ts, groups/service.ts).
AccessIsRight ==
    part = "access" =>
        AccessTypeOK /\ ManagersDecide /\ LevelsAreTheirs /\ GroupsAreLimited /\ MembersOutlastThePass
=============================================================================
