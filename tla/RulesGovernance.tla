-------------------------- MODULE RulesGovernance --------------------------
(***************************************************************************)
(* The company setting the agent rules put to "people only", and the file  *)
(* that remembers what it was (docker/bootstrap/src/agent-rules/           *)
(* governance.ts, state.ts; commands/agent-rules.ts).  The loop makes a    *)
(* pass a minute, `--once` of install.sh and update.sh another beside it,  *)
(* and `off` takes everything back.  Each reads the file, changes the      *)
(* setting through the core, and saves the file at its end; any of them    *)
(* may stop or fail in between, and the file may be lost.                  *)
(* One company and one governed kind: kinds are planned independently.     *)
(***************************************************************************)
EXTENDS Integers

CONSTANTS
    Processes,      \* kyoube agent-rules, in the container and by hand
    Values,         \* what people choose for the kind, people-only apart
    MaxPasses,      \* bound: passes made
    MaxChanges      \* bound: changes by people, processes that stop, a file lost

VARIABLES
    governance,     \* the core's interactionResolverGovernance for the kind
    file,           \* governancePrevious of the company in the state file
    process,        \* the pass each process is in
    past            \* history: what people set, what was replaced first, what went wrong

governanceVars == <<governance, file, process, past>>

-----------------------------------------------------------------------------
PeopleOnly == "human_only"
Unset      == "no entry"
Governances   == Values \cup {PeopleOnly, Unset}

\* governancePrevious[company]: absent, there without the kind, or the kind's value.
NoCompany  == "no company"
NoKind     == "no kind"
Previous   == Values \cup {Unset, NoKind, NoCompany}

\* The markers are no values a company can have.
ASSUME GovernanceAssumption == Values \cap {PeopleOnly, NoKind, NoCompany} = {}

Resting == [at |-> "rest", mode |-> "apply", state |-> NoCompany, plan |-> Unset]

\* { ...plan.previous, ...recorded }: the first recorded value wins.
FirstWins(mine, recorded) == IF recorded \in {NoKind, NoCompany} THEN mine ELSE recorded

\* mergeGovernancePrevious, of what a pass has with what the file has by now.
Merged(mine, onDisk)    == FirstWins(mine, onDisk)

\* planGovernance's `previous`.
Replaced == IF governance = PeopleOnly THEN NoKind ELSE governance

\* revertGovernance, with the record or, without one, on the look of the entry.
Reverted(recorded) ==
    IF recorded = NoCompany THEN IF governance = PeopleOnly THEN Unset ELSE governance
    ELSE IF recorded = NoKind THEN governance ELSE recorded

-----------------------------------------------------------------------------
Alone(p) == \A q \in Processes \ {p} : process[q].at = "rest"

Begins(p, mode) ==
    /\ process[p].at = "rest" /\ past.passes < MaxPasses
    /\ process' = [process EXCEPT ![p] = [Resting EXCEPT !.at = "plan", !.mode = mode, !.state = file]]
    /\ past' = [past EXCEPT !.passes = @ + 1, !.off = FALSE,
                            !.spoilt = @ \/ (mode = "off" /\ file = NoCompany),
                            !.beside = @ \/ (mode = "off" /\ ~Alone(p))
                                         \/ \E q \in Processes : process[q].mode = "off"]
    /\ UNCHANGED <<governance, file>>

\* getGovernance and the plan; nothing to change, nothing to set.
Plans(p) ==
    /\ process[p].at = "plan" /\ process[p].mode = "apply"
    /\ process' = [process EXCEPT ![p].state = FirstWins(Replaced, @),
                                  ![p].at = IF governance = PeopleOnly THEN "merge" ELSE "set",
                                  ![p].plan = PeopleOnly]
    /\ UNCHANGED <<governance, file, past>>

PlansOff(p) ==
    /\ process[p].at = "plan" /\ process[p].mode = "off"
    /\ LET next == Reverted(process[p].state)
       IN  process' = [process EXCEPT ![p].at = IF next = governance THEN "save" ELSE "set",
                                      ![p].plan = next, ![p].state = NoCompany]
    /\ UNCHANGED <<governance, file, past>>

Sets(p) ==
    /\ process[p].at = "set"
    /\ governance' = process[p].plan
    /\ process' = [process EXCEPT ![p].at = IF process[p].mode = "off" THEN "save" ELSE "merge"]
    /\ past' = [past EXCEPT !.first = IF process[p].mode = "off" \/ @ # NoKind \/ governance = PeopleOnly
                                       THEN @ ELSE governance]
    /\ UNCHANGED file

\* The file again, for what the other process saved meanwhile; `off` does not merge.
Merges(p) ==
    /\ process[p].at = "merge"
    /\ process' = [process EXCEPT ![p].state = Merged(@, file), ![p].at = "save"]
    /\ past' = [past EXCEPT !.spoilt = @ \/ \E q \in Processes : process[q].at = "save"]
    /\ UNCHANGED <<governance, file>>

Saves(p) ==
    /\ process[p].at = "save"
    /\ file' = process[p].state
    /\ process' = [process EXCEPT ![p] = Resting]
    /\ past' = IF process[p].mode = "off"
               THEN [past EXCEPT !.off = TRUE, !.was = past.first, !.first = NoKind]
               ELSE past
    /\ UNCHANGED governance

-----------------------------------------------------------------------------
Change == past.changes < MaxChanges

\* The process stops, or cannot save the file.  (A call to the core that fails
\* leaves the pass to save what it planned, which is what it would have replaced.)
Fails(p) ==
    /\ Change /\ process[p].at # "rest"
    /\ past' = [past EXCEPT !.changes = @ + 1, !.spoilt = TRUE]
    /\ process' = [process EXCEPT ![p] = Resting]
    /\ UNCHANGED <<governance, file>>

FileIsLost ==
    /\ Change /\ file # NoCompany
    /\ past' = [past EXCEPT !.changes = @ + 1, !.spoilt = TRUE]
    /\ file' = NoCompany
    /\ UNCHANGED <<governance, process>>

PeopleChoose(v) ==
    /\ Change /\ v # governance
    /\ governance' = v
    /\ past' = [past EXCEPT !.changes = @ + 1, !.chosen = v, !.off = FALSE,
                            !.spoilt = @ \/ \E p \in Processes : process[p].at # "rest"]
    /\ UNCHANGED <<file, process>>

-----------------------------------------------------------------------------
GovernanceInit ==
    /\ governance \in Governances /\ file = NoCompany
    /\ process = [p \in Processes |-> Resting]
    /\ past = [chosen |-> governance, first |-> NoKind, was |-> NoKind, off |-> FALSE, spoilt |-> FALSE, beside |-> FALSE,
             passes |-> 0, changes |-> 0]

GovernanceNext ==
    \/ \E p \in Processes : \/ \E mode \in {"apply", "off"} : Begins(p, mode)
                            \/ Plans(p) \/ PlansOff(p) \/ Sets(p) \/ Merges(p) \/ Saves(p) \/ Fails(p)
    \/ FileIsLost \/ \E v \in Governances : PeopleChoose(v)

GovernanceSpec == GovernanceInit /\ [][GovernanceNext]_governanceVars

-----------------------------------------------------------------------------
GovernanceTypeOK ==
    /\ governance \in Governances /\ file \in Previous
    /\ process \in [Processes -> [at : {"rest", "plan", "set", "merge", "save"}, mode : {"apply", "off"},
                                  state : Previous, plan : Governances]]
    /\ past.chosen \in Governances /\ {past.first, past.was} \subseteq Previous

\* "the first value ever recorded for a kind is the one `off` must restore, whichever of
\* two overlapping passes recorded it": however passes overlap and people change the
\* setting between them, `off` puts back what KyoubeAI first replaced, and leaves alone
\* what it never replaced.  Not so once a pass was stopped, the file lost, the setting
\* changed under a pass, `off` run beside one, or two passes merged with the same file.
OffRestoresTheFirst ==
    past.off /\ ~past.spoilt /\ ~past.beside => governance = IF past.was = NoKind THEN past.chosen ELSE past.was

=============================================================================
