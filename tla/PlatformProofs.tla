---------------------------- MODULE PlatformProofs ----------------------------
(***************************************************************************)
(* Theorems about the agent rules: RulesGovernance, for every number of    *)
(* passes that overlap, PersonGrants, for every staff and every course of  *)
(* events, and AgentProtection, for every team, all groups and each course *)
(* of calls, edits and failures; about HostUpdate, for every number of     *)
(* releases, runs, stops, commits and deeds; and about the behaviours of   *)
(* MCPlatform, each of which is about one of its parts, from the theorems  *)
(* about the parts, here and in AppProofs.                                 *)
(***************************************************************************)
EXTENDS MCPlatform, AppProofs

-----------------------------------------------------------------------------
(* RulesGovernance: what is on record of the first value replaced, in the  *)
(* file and in the passes under way                                        *)

Phase == [at : {"rest", "plan", "set", "merge", "save"}, mode : {"apply", "off"},
          state : Previous, plan : Governances]

PastType == past \in [chosen : Governances, first : Previous, was : Previous, off : BOOLEAN,
                      spoilt : BOOLEAN, beside : BOOLEAN, passes : Nat, changes : Nat]

Known(v) == v \notin {NoKind, NoCompany}

\* What `off` is to put back.
Target == IF past.first = NoKind THEN past.chosen ELSE past.first

PhaseOK(q) ==
    /\ q.at = "rest" => q = Resting
    /\ q.at = "merge" => q.mode = "apply"

\* A pass that turns the rules off finds the record, and puts back the target.
OffOK(q) ==
    q.mode = "off" =>
        /\ q.at = "plan" => q.state = file /\ file # NoCompany
        /\ q.at \in {"set", "save"} => q.state = NoCompany
        /\ q.at = "set" => q.plan = Target
        /\ q.at = "save" => governance = Target

\* A pass that applies them carries the first value, if it has one to replace.
ApplyOK(q) ==
    q.mode = "apply" =>
        /\ Known(q.state) /\ q.at # "set" => q.state = past.first
        /\ q.at = "plan" /\ governance # PeopleOnly /\ past.first # NoKind => q.state = past.first
        /\ q.at = "set" => /\ q.plan = PeopleOnly
                           /\ q.state = IF past.first = NoKind THEN governance ELSE past.first
                           /\ past.first = NoKind => governance # PeopleOnly
        /\ q.at \in {"merge", "save"} => governance = PeopleOnly
        /\ q.at = "save" /\ Known(file) => q.state = file

Carries(q) == q.at \in {"merge", "save"} /\ q.mode = "apply" /\ q.state = past.first

RecordOK ==
    /\ Known(file) => file = past.first
    /\ past.first # NoKind => /\ Known(past.first) /\ past.first # PeopleOnly
                              /\ file = past.first \/ \E p \in Processes : Carries(process[p])
    /\ past.first = NoKind => governance = past.chosen \/ (file = NoCompany /\ governance # PeopleOnly)
    /\ past.off => /\ governance = IF past.was = NoKind THEN past.chosen ELSE past.was
                   /\ \A p \in Processes : process[p].at = "rest"

\* One saves at a time, and `off` is alone.
Apart(p, q) ==
    p # q => /\ ~ (process[p].at = "save" /\ process[q].at = "save")
             /\ process[p].mode = "off" => process[q].at = "rest"

GovernanceInv ==
    /\ GovernanceTypeOK /\ PastType
    /\ \A p \in Processes : PhaseOK(process[p])
    /\ ~past.spoilt /\ ~past.beside =>
          /\ RecordOK
          /\ \A p \in Processes : OffOK(process[p]) /\ ApplyOK(process[p])
          /\ \A p, q \in Processes : Apart(p, q)

Clean == ~past.spoilt /\ ~past.beside

LEMMA MarkersAreApart ==
    /\ Resting \in Phase /\ Resting.at = "rest" /\ Resting.mode = "apply"
    /\ Resting.state = NoCompany /\ PhaseOK(Resting)
    /\ ~Known(NoKind) /\ ~Known(NoCompany) /\ NoKind # NoCompany
    /\ \A v \in Governances : v \in Previous \/ v = PeopleOnly
    /\ \A v \in Governances : Known(v)
BY GovernanceAssumption DEF Resting, Phase, PhaseOK, Previous, Governances, Known, NoKind, NoCompany,
                            PeopleOnly, Unset

\* One process moves: what is left to show of it and of the others.
LEMMA ProcessMoves ==
    ASSUME GovernanceInv, NEW p \in Processes, NEW e \in Phase,
           process' = [process EXCEPT ![p] = e],
           governance' \in Governances, file' \in Previous, PastType', PhaseOK(e),
           Clean' => /\ RecordOK' /\ OffOK(e)' /\ ApplyOK(e)'
                     /\ \A q \in Processes \ {p} :
                           /\ OffOK(process[q])' /\ ApplyOK(process[q])'
                           /\ ~ (e.at = "save" /\ process[q].at = "save")
                           /\ e.mode = "off" => process[q].at = "rest"
                           /\ process[q].mode = "off" => e.at = "rest",
           Clean' => Clean
    PROVE  GovernanceInv'
<1>1. /\ process \in [Processes -> Phase]
      /\ \A q \in Processes : PhaseOK(process[q])
      /\ Clean => \A q, r \in Processes : Apart(q, r)
  BY DEF GovernanceInv, GovernanceTypeOK, Phase, Clean
<1>2. \A q \in Processes : process'[q] = IF q = p THEN e ELSE process[q]
  BY <1>1
<1>3. process' \in [Processes -> Phase]
  BY <1>1
<1>4. \A q \in Processes : PhaseOK(process'[q])
  BY <1>1, <1>2
<1>5. GovernanceTypeOK'
  BY <1>3 DEF GovernanceTypeOK, Phase, PastType
<1>6. ASSUME Clean', NEW q \in Processes
      PROVE  OffOK(process[q])' /\ ApplyOK(process[q])'
  BY <1>2, <1>6 DEF OffOK, ApplyOK
<1>7. ASSUME Clean', NEW q \in Processes, NEW r \in Processes
      PROVE  Apart(q, r)'
  BY <1>1, <1>7, <1>2 DEF Apart
<1>8. \A q \in Processes : PhaseOK(process[q])'
  BY <1>4 DEF PhaseOK
<1>9. Clean' => /\ RecordOK'
                /\ \A q \in Processes : OffOK(process[q])' /\ ApplyOK(process[q])'
                /\ \A q, r \in Processes : Apart(q, r)'
  BY <1>6, <1>7
<1>10. QED
  BY <1>5, <1>8, <1>9 DEF GovernanceInv, Clean

\* What a process that moves may count on.
LEMMA ProcessKnows ==
    ASSUME GovernanceInv, NEW p \in Processes
    PROVE  /\ process[p] \in Phase /\ process \in [Processes -> Phase] /\ PhaseOK(process[p])
           /\ governance \in Governances /\ file \in Previous /\ PastType
           /\ Clean => /\ RecordOK /\ OffOK(process[p]) /\ ApplyOK(process[p])
                       /\ \A q \in Processes \ {p} :
                             /\ OffOK(process[q]) /\ ApplyOK(process[q])
                             /\ ~ (process[p].at = "save" /\ process[q].at = "save")
                             /\ process[p].mode = "off" => process[q].at = "rest"
                             /\ process[q].mode = "off" => process[p].at = "rest"
BY DEF GovernanceInv, GovernanceTypeOK, Phase, Clean, Apart

LEMMA BeginsKeeps ==
    ASSUME GovernanceInv, NEW p \in Processes, NEW mode \in {"apply", "off"}, Begins(p, mode)
    PROVE  GovernanceInv'
<1>1. /\ process[p] \in Phase /\ process[p].at = "rest" /\ file \in Previous
      /\ governance \in Governances /\ PastType
      /\ governance' = governance /\ file' = file
  BY ProcessKnows DEF Begins
<1>2. PICK e \in Phase : e = [Resting EXCEPT !.at = "plan", !.mode = mode, !.state = file]
  BY <1>1, MarkersAreApart DEF Phase
<1>2a. /\ e.at = "plan" /\ e.mode = mode /\ e.state = file /\ PhaseOK(e)
       /\ process' = [process EXCEPT ![p] = e]
  BY <1>1, <1>2, MarkersAreApart DEF Phase, PhaseOK, Resting, Begins
<1> DEFINE spoilt == past.spoilt \/ (mode = "off" /\ file = NoCompany)
           beside == \/ past.beside
                     \/ mode = "off" /\ ~Alone(p)
                     \/ \E q \in Processes : process[q].mode = "off"
<1>3. past' = [past EXCEPT !.passes = @ + 1, !.off = FALSE, !.spoilt = spoilt, !.beside = beside]
  BY DEF Begins
<1>4. spoilt \in BOOLEAN /\ beside \in BOOLEAN
  BY <1>1 DEF PastType
<1> HIDE DEF spoilt, beside
<1>5. /\ PastType' /\ past'.first = past.first /\ past'.chosen = past.chosen
      /\ past'.was = past.was /\ past'.off = FALSE
      /\ past'.spoilt = spoilt /\ past'.beside = beside
  <2>1. past.passes + 1 \in Nat
    BY <1>1 DEF PastType
  <2>2. past' = [past EXCEPT !.passes = past.passes + 1, !.off = FALSE, !.spoilt = spoilt,
                             !.beside = beside]
    BY <1>3
  <2>3. QED
    BY <1>1, <1>4, <2>1, <2>2 DEF PastType
<1>6. ASSUME Clean'
      PROVE  /\ Clean
             /\ ~ (mode = "off" /\ file = NoCompany)
             /\ mode = "off" => Alone(p)
             /\ \A q \in Processes : process[q].mode # "off"
  BY <1>5, <1>6 DEF Clean, spoilt, beside
<1>7. ASSUME Clean'
      PROVE  RecordOK' /\ OffOK(e)' /\ ApplyOK(e)'
  BY <1>6, <1>7, ProcessKnows, <1>1, <1>2a, <1>5, MarkersAreApart DEF Carries, ApplyOK,
     RecordOK, OffOK
<1>8. ASSUME Clean', NEW q \in Processes \ {p}
      PROVE  /\ OffOK(process[q])' /\ ApplyOK(process[q])'
             /\ ~ (e.at = "save" /\ process[q].at = "save")
             /\ e.mode = "off" => process[q].at = "rest"
             /\ process[q].mode = "off" => e.at = "rest"
  BY <1>2a, <1>6, <1>8, ProcessKnows, <1>1, <1>5 DEF OffOK, ApplyOK, Target, Alone
<1>9. Clean' => Clean
  BY <1>6
<1>10. QED
  BY <1>1, <1>2a, <1>5, <1>7, <1>8, <1>9, ProcessMoves

\* A pass that only thinks: the others do not notice.
LEMMA OnlyThinks ==
    ASSUME GovernanceInv, NEW p \in Processes, NEW e \in Phase,
           process' = [process EXCEPT ![p] = e], UNCHANGED <<governance, file, past>>,
           PhaseOK(e), e.mode = process[p].mode, process[p].at \notin {"merge", "save"},
           process[p].at # "rest", e.at = "save" => process[p].mode = "off",
           Clean => OffOK(e) /\ ApplyOK(e)
    PROVE  GovernanceInv'
<1>1. /\ governance \in Governances /\ file \in Previous /\ PastType
      /\ process \in [Processes -> Phase]
  BY ProcessKnows
<1>2. PastType' /\ governance' \in Governances /\ file' \in Previous /\ (Clean' => Clean)
  BY <1>1 DEF PastType, Clean
<1>3. ASSUME Clean
      PROVE  RecordOK' /\ OffOK(e)' /\ ApplyOK(e)'
  BY <1>3, ProcessKnows, <1>1 DEF Carries, RecordOK, OffOK, ApplyOK, Target
<1>4. ASSUME Clean, NEW q \in Processes \ {p}
      PROVE  /\ OffOK(process[q])' /\ ApplyOK(process[q])'
             /\ ~ (e.at = "save" /\ process[q].at = "save")
             /\ e.mode = "off" => process[q].at = "rest"
             /\ process[q].mode = "off" => e.at = "rest"
  BY <1>1, <1>4, ProcessKnows DEF OffOK, ApplyOK, Target
<1>5. QED
  BY <1>2, <1>3, <1>4, ProcessMoves

LEMMA PlansKeeps ==
    ASSUME GovernanceInv, NEW p \in Processes, Plans(p)
    PROVE  GovernanceInv'
<1> DEFINE state == FirstWins(Replaced, process[p].state)
           at == IF governance = PeopleOnly THEN "merge" ELSE "set"
<1>1. /\ process[p] \in Phase /\ process[p].at = "plan" /\ process[p].mode = "apply"
      /\ process \in [Processes -> Phase] /\ governance \in Governances /\ file \in Previous
      /\ UNCHANGED <<governance, file, past>>
  BY ProcessKnows DEF Plans
<1>2. state \in Previous /\ PeopleOnly \in Governances
  BY <1>1 DEF Phase, FirstWins, Replaced, Previous, Governances
<1>3. PICK e \in Phase : e = [process[p] EXCEPT !.state = state, !.at = at, !.plan = PeopleOnly]
  BY <1>1, <1>2 DEF Phase
<1>4. /\ e.at = at /\ e.state = state /\ e.plan = PeopleOnly /\ e.mode = "apply" /\ PhaseOK(e)
  BY <1>1, <1>3 DEF Phase, PhaseOK
<1>5. process' = [process EXCEPT ![p] = e]
  BY <1>1, <1>3 DEF Plans
<1>6. ASSUME Clean
      PROVE  OffOK(e) /\ ApplyOK(e)
  BY <1>6, ProcessKnows, <1>1, <1>4, MarkersAreApart DEF ApplyOK, FirstWins, Replaced,
     Known, OffOK, RecordOK
<1>7. QED
  BY <1>1, <1>4, <1>5, <1>6, OnlyThinks

LEMMA PlansOffKeeps ==
    ASSUME GovernanceInv, NEW p \in Processes, PlansOff(p)
    PROVE  GovernanceInv'
<1> DEFINE next == Reverted(process[p].state)
           at == IF next = governance THEN "save" ELSE "set"
<1>1. /\ process[p] \in Phase /\ process[p].at = "plan" /\ process[p].mode = "off"
      /\ process \in [Processes -> Phase] /\ governance \in Governances /\ file \in Previous
      /\ UNCHANGED <<governance, file, past>>
  BY ProcessKnows DEF PlansOff
<1>2. next \in Governances /\ NoCompany \in Previous
  BY <1>1 DEF Phase, Reverted, Previous, Governances
<1>3. PICK e \in Phase : e = [process[p] EXCEPT !.at = at, !.plan = next, !.state = NoCompany]
  BY <1>1, <1>2 DEF Phase
<1>4. /\ e.at = at /\ e.state = NoCompany /\ e.plan = next /\ e.mode = "off" /\ PhaseOK(e)
  BY <1>1, <1>3 DEF Phase, PhaseOK
<1>5. process' = [process EXCEPT ![p] = e]
  BY <1>1, <1>3 DEF PlansOff
<1>6. ASSUME Clean
      PROVE  OffOK(e) /\ ApplyOK(e)
  BY <1>1, <1>6, ProcessKnows, MarkersAreApart, <1>4 DEF OffOK, Carries, RecordOK, Reverted,
     Target, Known, ApplyOK
<1>7. QED
  BY <1>1, <1>4, <1>5, <1>6, OnlyThinks

LEMMA SetsKeeps ==
    ASSUME GovernanceInv, NEW p \in Processes, Sets(p)
    PROVE  GovernanceInv'
<1> DEFINE mode == process[p].mode
           first == IF mode = "off" \/ past.first # NoKind \/ governance = PeopleOnly
                    THEN past.first ELSE governance
           at == IF mode = "off" THEN "save" ELSE "merge"
<1>1. /\ process[p] \in Phase /\ process[p].at = "set" /\ mode \in {"apply", "off"}
      /\ process \in [Processes -> Phase] /\ governance \in Governances /\ file \in Previous
      /\ PastType
      /\ governance' = process[p].plan /\ file' = file
      /\ past' = [past EXCEPT !.first = first]
  BY ProcessKnows DEF Sets, Phase
<1>2. first \in Previous /\ process[p].plan \in Governances
  BY <1>1 DEF PastType, Previous, Governances, Phase
<1>3. PICK e \in Phase : e = [process[p] EXCEPT !.at = at]
  BY <1>1 DEF Phase
<1>4. /\ e.at = at /\ e.state = process[p].state /\ e.plan = process[p].plan
      /\ e.mode = mode /\ PhaseOK(e)
  BY <1>1, <1>3 DEF Phase, PhaseOK
<1>5. process' = [process EXCEPT ![p] = e]
  BY <1>1, <1>3 DEF Sets
<1> HIDE DEF first
<1>6. /\ PastType' /\ past'.first = first /\ past'.chosen = past.chosen
      /\ past'.was = past.was /\ past'.off = past.off
      /\ past'.spoilt = past.spoilt /\ past'.beside = past.beside
  BY <1>1, <1>2 DEF PastType
<1>7. Clean' <=> Clean
  BY <1>6 DEF Clean
<1>8. \A q \in Processes \ {p} : process'[q] = process[q]
  BY <1>1, <1>5
<1>9. process'[p] = e
  BY <1>1, <1>5
<1>10. CASE mode = "off"
  <2>1. ASSUME Clean
        PROVE  /\ RecordOK /\ process[p].plan = Target /\ process[p].state = NoCompany
               /\ \A q \in Processes \ {p} : process[q].at = "rest"
    BY <1>1, <1>10, <2>1, ProcessKnows DEF OffOK
  <2>2. first = past.first
    BY <1>10 DEF first
  <2>3. ASSUME Clean
        PROVE  RecordOK' /\ OffOK(e)' /\ ApplyOK(e)'
    BY <1>1, <2>1, <2>3, <1>6, <2>2, <1>4, <1>10 DEF Carries, RecordOK, Target, OffOK,
       ApplyOK
  <2>4. ASSUME Clean, NEW q \in Processes \ {p}
        PROVE  /\ OffOK(process[q])' /\ ApplyOK(process[q])'
               /\ ~ (e.at = "save" /\ process[q].at = "save")
               /\ e.mode = "off" => process[q].at = "rest"
               /\ process[q].mode = "off" => e.at = "rest"
    BY <2>1, <2>4, ProcessKnows, <1>8, MarkersAreApart DEF PhaseOK, OffOK, ApplyOK
  <2>5. QED
    BY <1>1, <1>2, <1>4, <1>5, <1>6, <1>7, <2>3, <2>4, ProcessMoves
<1>11. CASE mode = "apply"
  <2>1. ASSUME Clean
        PROVE  /\ RecordOK /\ process[p].plan = PeopleOnly
               /\ process[p].state = first /\ first # NoKind /\ Known(first) /\ first # PeopleOnly
               /\ past.first = first \/ (past.first = NoKind /\ first = governance)
    BY <2>1, ProcessKnows, <1>1, <1>11, MarkersAreApart DEF ApplyOK, first, RecordOK
  <2>2. ASSUME Clean
        PROVE  RecordOK' /\ OffOK(e)' /\ ApplyOK(e)'
    BY <1>1, <1>4, <1>11, <2>1, <2>2, <1>6, <1>9, MarkersAreApart DEF Carries, RecordOK,
       OffOK, ApplyOK
  <2>3. ASSUME Clean, NEW q \in Processes \ {p}
        PROVE  /\ OffOK(process[q])' /\ ApplyOK(process[q])'
               /\ ~ (e.at = "save" /\ process[q].at = "save")
               /\ e.mode = "off" => process[q].at = "rest"
               /\ process[q].mode = "off" => e.at = "rest"
    BY <1>1, <1>8, <2>3, ProcessKnows, <2>1, MarkersAreApart, <1>6, <1>4, <1>11 DEF ApplyOK,
       OffOK
  <2>4. QED
    BY <1>1, <1>2, <1>4, <1>5, <1>6, <1>7, <2>2, <2>3, ProcessMoves
<1>12. QED
  BY <1>1, <1>10, <1>11

LEMMA MergesKeeps ==
    ASSUME GovernanceInv, NEW p \in Processes, Merges(p)
    PROVE  GovernanceInv'
<1> DEFINE spoilt == past.spoilt \/ \E q \in Processes : process[q].at = "save"
           state == Merged(process[p].state, file)
<1>1. /\ process[p] \in Phase /\ process[p].at = "merge" /\ process[p].mode = "apply"
      /\ process \in [Processes -> Phase] /\ governance \in Governances /\ file \in Previous
      /\ PastType
      /\ governance' = governance /\ file' = file
      /\ past' = [past EXCEPT !.spoilt = spoilt]
  BY ProcessKnows DEF Merges, PhaseOK
<1>2. spoilt \in BOOLEAN
  BY <1>1 DEF PastType
<1>3. PICK e \in Phase : e = [process[p] EXCEPT !.state = state, !.at = "save"]
  BY <1>1 DEF Phase, Merged, FirstWins
<1>4. /\ e.at = "save" /\ e.state = state /\ e.mode = "apply" /\ PhaseOK(e)
  BY <1>1, <1>3 DEF Phase, PhaseOK
<1>5. process' = [process EXCEPT ![p] = e]
  BY <1>1, <1>3 DEF Merges
<1> HIDE DEF spoilt
<1>6. /\ PastType' /\ past'.first = past.first /\ past'.chosen = past.chosen
      /\ past'.was = past.was /\ past'.off = past.off
      /\ past'.spoilt = spoilt /\ past'.beside = past.beside
  BY <1>1, <1>2 DEF PastType
<1>7. ASSUME Clean'
      PROVE  Clean /\ \A q \in Processes : process[q].at # "save"
  BY <1>6, <1>7 DEF Clean, spoilt
<1>8. /\ process'[p] = e
      /\ \A q \in Processes \ {p} : process'[q] = process[q]
  BY <1>1, <1>5
<1>9. ASSUME Clean'
      PROVE  RecordOK' /\ OffOK(e)' /\ ApplyOK(e)'
  <2>1. RecordOK /\ ApplyOK(process[p])
    BY <1>7, <1>9, ProcessKnows
  <2>2. state = IF Known(file) THEN file ELSE process[p].state
    BY DEF Merged, FirstWins, Known
  <2>3. \A q \in Processes : Carries(process[q]) /\ file # past.first => Carries(process[q])'
    <3>1. TAKE q \in Processes
    <3>2. CASE q = p
      BY <2>1, <3>2, <2>2, <1>1, <1>4, <1>6, <1>8 DEF RecordOK, Carries
    <3>3. CASE q # p
      BY <3>3, <1>6, <1>8 DEF Carries
    <3>4. QED
      BY <3>2, <3>3
  <2>4. ~past.off
    BY <1>1, <2>1 DEF RecordOK
  <2>5. RecordOK'
    BY <2>1, <2>3, <2>4, <1>1, <1>6 DEF RecordOK
  <2>6. ApplyOK(e)'
    BY <2>1, <2>2, <1>1, <1>4, <1>6 DEF ApplyOK, RecordOK
  <2>7. QED
    BY <2>5, <2>6, <1>4 DEF OffOK
<1>10. ASSUME Clean', NEW q \in Processes \ {p}
       PROVE  /\ OffOK(process[q])' /\ ApplyOK(process[q])'
              /\ ~ (e.at = "save" /\ process[q].at = "save")
              /\ e.mode = "off" => process[q].at = "rest"
              /\ process[q].mode = "off" => e.at = "rest"
  BY <1>1, <1>7, <1>8, <1>10, ProcessKnows, <1>6, <1>4 DEF OffOK, ApplyOK, Target
<1>11. Clean' => Clean
  BY <1>7
<1>12. QED
  BY <1>1, <1>4, <1>5, <1>6, <1>9, <1>10, <1>11, ProcessMoves

LEMMA SavesKeeps ==
    ASSUME GovernanceInv, NEW p \in Processes, Saves(p)
    PROVE  GovernanceInv'
<1> DEFINE mode == process[p].mode
<1>1. /\ process[p] \in Phase /\ process[p].at = "save" /\ mode \in {"apply", "off"}
      /\ process \in [Processes -> Phase] /\ governance \in Governances /\ file \in Previous
      /\ PastType
      /\ governance' = governance /\ file' = process[p].state /\ file' \in Previous
      /\ process' = [process EXCEPT ![p] = Resting]
      /\ past' = IF mode = "off"
                 THEN [past EXCEPT !.off = TRUE, !.was = past.first, !.first = NoKind] ELSE past
  BY ProcessKnows DEF Saves, Phase
<1>2. /\ process'[p] = Resting
      /\ \A q \in Processes \ {p} : process'[q] = process[q]
  BY <1>1
<1>3. OffOK(Resting)' /\ ApplyOK(Resting)'
  BY MarkersAreApart DEF OffOK, ApplyOK
<1>4. CASE mode = "off"
  <2>1. /\ PastType' /\ past'.first = NoKind /\ past'.chosen = past.chosen
        /\ past'.was = past.first /\ past'.off = TRUE
        /\ past'.spoilt = past.spoilt /\ past'.beside = past.beside
    BY <1>1, <1>4 DEF PastType, Previous
  <2>2. Clean' <=> Clean
    BY <2>1 DEF Clean
  <2>3. ASSUME Clean
        PROVE  /\ RecordOK /\ governance = Target /\ process[p].state = NoCompany
               /\ \A q \in Processes \ {p} : process[q] = Resting
    BY <1>1, <1>4, <2>3, ProcessKnows DEF OffOK, PhaseOK
  <2>4. ASSUME Clean
        PROVE  RecordOK'
    BY <1>2, <2>3, <2>4, MarkersAreApart, <1>1, <2>1 DEF RecordOK, Target
  <2>5. ASSUME Clean, NEW q \in Processes \ {p}
        PROVE  /\ OffOK(process[q])' /\ ApplyOK(process[q])'
               /\ ~ (Resting.at = "save" /\ process[q].at = "save")
               /\ Resting.mode = "off" => process[q].at = "rest"
               /\ process[q].mode = "off" => Resting.at = "rest"
    BY <1>2, <2>3, <2>5, MarkersAreApart DEF OffOK, ApplyOK
  <2>6. QED
    BY <1>1, <1>3, <2>1, <2>2, <2>4, <2>5, MarkersAreApart, ProcessMoves
<1>5. CASE mode = "apply"
  <2>1. past' = past
    BY <1>1, <1>5
  <2>2. PastType' /\ (Clean' <=> Clean)
    BY <1>1, <2>1 DEF PastType, Clean
  <2>3. ASSUME Clean
        PROVE  /\ RecordOK /\ governance = PeopleOnly
               /\ Known(process[p].state) => process[p].state = past.first
               /\ Known(file) => process[p].state = file
               /\ \A q \in Processes \ {p} : process[q].at # "save"
    BY <1>1, <1>5, <2>3, ProcessKnows DEF ApplyOK
  <2>4. ASSUME Clean
        PROVE  RecordOK'
    BY <1>1, <2>3, <2>4, <1>2, <2>1 DEF RecordOK, Carries
  <2>5. ASSUME Clean, NEW q \in Processes \ {p}
        PROVE  /\ OffOK(process[q])' /\ ApplyOK(process[q])'
               /\ ~ (Resting.at = "save" /\ process[q].at = "save")
               /\ Resting.mode = "off" => process[q].at = "rest"
               /\ process[q].mode = "off" => Resting.at = "rest"
    <3>1. /\ OffOK(process[q]) /\ ApplyOK(process[q]) /\ process'[q] = process[q]
          /\ process[q].at # "save" /\ process[q].mode # "off"
      BY <1>1, <1>2, <2>3, <2>5, ProcessKnows
    <3>2. OffOK(process[q])' /\ ApplyOK(process[q])'
      BY <3>1, <1>1, <2>1 DEF OffOK, ApplyOK
    <3>3. QED
      BY <3>1, <3>2, MarkersAreApart
  <2>6. QED
    BY <1>1, <1>3, <2>1, <2>2, <2>4, <2>5, MarkersAreApart, ProcessMoves
<1>6. QED
  BY <1>1, <1>4, <1>5

\* What spoils the record: nothing is claimed of it any more.
LEMMA SpoilsKeeps ==
    ASSUME GovernanceInv, FileIsLost \/ \E p \in Processes : Fails(p)
    PROVE  GovernanceInv'
<1>1. /\ GovernanceTypeOK /\ PastType
      /\ \A q \in Processes : PhaseOK(process[q])
      /\ process \in [Processes -> Phase]
  BY DEF GovernanceInv, GovernanceTypeOK, Phase
<1>2. past' = [past EXCEPT !.changes = @ + 1, !.spoilt = TRUE]
  BY DEF FileIsLost, Fails
<1>3. PastType' /\ past'.spoilt = TRUE
  <2>1. past.changes + 1 \in Nat /\ past' = [past EXCEPT !.changes = past.changes + 1, !.spoilt = TRUE]
    BY <1>1, <1>2 DEF PastType
  <2>2. QED
    BY <1>1, <2>1 DEF PastType
<1>4. /\ process' \in [Processes -> Phase]
      /\ \A q \in Processes : PhaseOK(process'[q])
  BY <1>1, MarkersAreApart DEF FileIsLost, Fails
<1>5. file' \in Previous /\ governance' \in Governances
  BY <1>1 DEF FileIsLost, Fails, GovernanceTypeOK, Previous
<1>6. GovernanceTypeOK'
  BY <1>3, <1>4, <1>5 DEF GovernanceTypeOK, PastType, Phase
<1>7. QED
  BY <1>3, <1>4, <1>6 DEF GovernanceInv, PhaseOK

LEMMA PeopleChooseKeeps ==
    ASSUME GovernanceInv, NEW v \in Governances, PeopleChoose(v)
    PROVE  GovernanceInv'
<1> DEFINE spoilt == past.spoilt \/ \E p \in Processes : process[p].at # "rest"
<1>1. /\ GovernanceTypeOK /\ PastType
      /\ \A q \in Processes : PhaseOK(process[q])
      /\ governance' = v /\ file' = file /\ process' = process
  BY DEF GovernanceInv, PeopleChoose
<1>2. spoilt \in BOOLEAN
  BY <1>1 DEF PastType
<1>3. past' = [past EXCEPT !.changes = @ + 1, !.chosen = v, !.off = FALSE, !.spoilt = spoilt]
  BY DEF PeopleChoose
<1> HIDE DEF spoilt
<1>4. /\ PastType' /\ past'.first = past.first /\ past'.chosen = v /\ past'.was = past.was
      /\ past'.off = FALSE /\ past'.spoilt = spoilt /\ past'.beside = past.beside
  <2>1. past.changes + 1 \in Nat
    BY <1>1 DEF PastType
  <2>2. past' = [past EXCEPT !.changes = past.changes + 1, !.chosen = v, !.off = FALSE,
                             !.spoilt = spoilt]
    BY <1>3
  <2>3. QED
    BY <1>1, <1>2, <2>1, <2>2 DEF PastType
<1>5. GovernanceTypeOK'
  BY <1>1, <1>4 DEF GovernanceTypeOK, PastType
<1>6. ASSUME Clean'
      PROVE  Clean /\ \A q \in Processes : process[q] = Resting
  BY <1>4, <1>6, <1>1 DEF Clean, spoilt, PhaseOK
<1>7. ASSUME Clean'
      PROVE  RecordOK'
  BY <1>6, <1>7, MarkersAreApart, <1>1, <1>4 DEF GovernanceInv, Clean, Carries, RecordOK
<1>8. ASSUME Clean', NEW q \in Processes
      PROVE  OffOK(process[q])' /\ ApplyOK(process[q])'
  BY <1>1, <1>6, <1>8, MarkersAreApart DEF OffOK, ApplyOK
<1>9. ASSUME Clean', NEW q \in Processes, NEW r \in Processes
      PROVE  Apart(q, r)'
  BY <1>1, <1>6, <1>9, MarkersAreApart DEF Apart
<1>10. \A q \in Processes : PhaseOK(process[q])'
  BY <1>1 DEF PhaseOK
<1>11. QED
  BY <1>4, <1>5, <1>7, <1>8, <1>9, <1>10 DEF GovernanceInv, Clean

LEMMA GovernanceInitially == GovernanceInit => GovernanceInv
<1> SUFFICES ASSUME GovernanceInit PROVE GovernanceInv
  OBVIOUS
<1>1. /\ governance \in Governances /\ file = NoCompany
      /\ \A p \in Processes : process[p] = Resting
      /\ process \in [Processes -> Phase]
  BY MarkersAreApart DEF GovernanceInit
<1>2. past = [chosen |-> governance, first |-> NoKind, was |-> NoKind, off |-> FALSE,
              spoilt |-> FALSE, beside |-> FALSE, passes |-> 0, changes |-> 0]
  BY DEF GovernanceInit
<1>3. PastType /\ past.first = NoKind /\ past.chosen = governance /\ ~past.off
  BY <1>1, <1>2 DEF PastType, Previous
<1>4. GovernanceTypeOK
  BY <1>1, <1>3 DEF GovernanceTypeOK, PastType, Previous, Phase
<1>5. RecordOK
  BY <1>1, <1>3, MarkersAreApart DEF RecordOK
<1>6. \A p \in Processes : PhaseOK(process[p]) /\ OffOK(process[p]) /\ ApplyOK(process[p])
  BY <1>1, MarkersAreApart DEF OffOK, ApplyOK
<1>7. \A p, q \in Processes : Apart(p, q)
  BY <1>1, MarkersAreApart DEF Apart
<1>8. QED
  BY <1>3, <1>4, <1>5, <1>6, <1>7 DEF GovernanceInv

LEMMA GovernanceInductive == GovernanceInv /\ [GovernanceNext]_governanceVars => GovernanceInv'
<1> SUFFICES ASSUME GovernanceInv, [GovernanceNext]_governanceVars PROVE GovernanceInv'
  OBVIOUS
<1>1. ASSUME NEW p \in Processes, NEW mode \in {"apply", "off"}, Begins(p, mode)
      PROVE  GovernanceInv'
  BY <1>1, BeginsKeeps
<1>2. ASSUME NEW p \in Processes,
             Plans(p) \/ PlansOff(p) \/ Sets(p) \/ Merges(p) \/ Saves(p)
      PROVE  GovernanceInv'
  BY <1>2, PlansKeeps, PlansOffKeeps, SetsKeeps, MergesKeeps, SavesKeeps
<1>3. CASE FileIsLost \/ \E p \in Processes : Fails(p)
  BY <1>3, SpoilsKeeps
<1>4. ASSUME NEW v \in Governances, PeopleChoose(v)
      PROVE  GovernanceInv'
  BY <1>4, PeopleChooseKeeps
<1>5. CASE UNCHANGED governanceVars
  <2>1. UNCHANGED <<governance, file, process, past>>
    BY <1>5 DEF governanceVars
  <2>2. GovernanceTypeOK' /\ PastType' /\ (RecordOK => RecordOK') /\ past' = past
    BY <2>1 DEF GovernanceInv, GovernanceTypeOK, PastType, RecordOK, Carries
  <2>3. \A p \in Processes : /\ PhaseOK(process[p]) => PhaseOK(process[p])'
                             /\ OffOK(process[p]) => OffOK(process[p])'
                             /\ ApplyOK(process[p]) => ApplyOK(process[p])'
    BY <2>1 DEF PhaseOK, OffOK, ApplyOK, Target
  <2>4. \A p, q \in Processes : Apart(p, q) => Apart(p, q)'
    BY <2>1 DEF Apart
  <2>5. QED
    BY <2>2, <2>3, <2>4 DEF GovernanceInv
<1>6. QED
  BY <1>1, <1>2, <1>3, <1>4, <1>5 DEF GovernanceNext

\* The record of what was replaced first agrees with the setting, the file and every
\* pass under way, as long as nothing has spoilt it.
THEOREM GovernanceInvariance == GovernanceSpec => []GovernanceInv
<1>1. QED
  BY GovernanceInitially, GovernanceInductive, PTL DEF GovernanceSpec

LEMMA TheFirstIsRestored == GovernanceInv => OffRestoresTheFirst
BY DEF GovernanceInv, RecordOK, OffRestoresTheFirst

\* `agent-rules off` puts back what KyoubeAI first replaced, however many passes have
\* overlapped (governance.ts, state.ts: mergeGovernancePrevious).
THEOREM FirstRestored == GovernanceSpec => []OffRestoresTheFirst
<1>1. QED
  BY GovernanceInvariance, TheFirstIsRestored, PTL

-----------------------------------------------------------------------------
(* PersonGrants: what the record says of a row KyoubeAI may have written   *)

\* The rows KyoubeAI writes, and those it replaces.
Managed == {Unscoped} \cup {ScopedTo(s) : s \in SUBSET Staff}

PersonEntry == [original : {Unscoped}, applied : Managed, pending : SUBSET Managed]

PassType == pass \in [at : {"idle", "listing", "person", "write", "confirm"}, access : Accesses,
                      live : SUBSET Staff, role : {"operator", "admin"}, next : Rows, original : Rows]

StoryType == story \in [by : {"core", "person", "kyoube"}, set : Rows, crossed : BOOLEAN,
                        stands : BOOLEAN, quiet : BOOLEAN, incidents : Nat]

EntryOK == entry = NoEntry \/ \E e \in PersonEntry : entry = {e}

\* A write is on record before it is made.
WriteOK ==
    pass.at \in {"write", "confirm"} =>
        /\ pass.original = Unscoped /\ pass.next \in Managed
        /\ \E a \in Managed : entry = EntryOf(Unscoped, a, {pass.next})
        /\ pass.at = "confirm" /\ ~story.crossed => row = pass.next

RowOK ==
    /\ story.by # "kyoube" => row = story.set
    /\ ScopedRowsAreOnRecord
    /\ ~story.crossed /\ story.stands =>
          /\ row = story.set /\ row # Unscoped /\ ~EntryHas(row)
          /\ pass.at \notin {"write", "confirm"}
    /\ ~story.crossed /\ person.status = "gone" =>
          row = NoRow /\ story.by # "kyoube" /\ pass.at \notin {"write", "confirm"}

\* A pass in peace knows what is so.
QuietOK ==
    story.quiet =>
        /\ pass.at # "idle" => pass.access = groups
        /\ pass.at \in {"person", "write", "confirm"} =>
              pass.live = hired /\ pass.role = person.role /\ person.status = "active"
        /\ pass.at \in {"write", "confirm"} =>
              pass.next = Plan(person.role, Unscoped, hired, groups)

GrantsInv ==
    /\ GrantsTypeOK /\ PassType /\ StoryType
    /\ EntryOK /\ WriteOK /\ RowOK /\ QuietOK /\ PassSettles

LEMMA RowsOfGrants ==
    /\ {NoRow, Unscoped, ByHand} \subseteq Rows /\ Managed \subseteq Rows
    /\ NoRow \notin Managed /\ Unscoped \in Managed
    /\ Unscoped.kind = "unscoped" /\ NoRow.kind = "none"
    /\ \A s \in SUBSET Staff : /\ ScopedTo(s) \in Managed /\ ScopedTo(s) # Unscoped
                              /\ ScopedTo(s).kind = "scoped"
    /\ \A r \in Rows : r.kind \in {"unscoped", "scoped"} => r \in Managed
<1>1. \A s \in SUBSET Staff : ScopedTo(s) \in Managed /\ ScopedTo(s).kind = "scoped"
  BY DEF Managed, ScopedTo
<1>2. Unscoped.kind = "unscoped" /\ NoRow.kind = "none" /\ ByHand.kind = "custom"
  BY DEF Unscoped, NoRow, ByHand
<1>3. Managed = {Unscoped} \cup {ScopedTo(s) : s \in SUBSET Staff}
  BY DEF Managed
<1>4. Rows = {NoRow, Unscoped, ByHand} \cup {ScopedTo(s) : s \in SUBSET Staff}
  BY DEF Rows
<1>5. QED
  BY <1>1, <1>2, <1>3, <1>4

\* planPerson, of the unscoped grant and of any other.
LEMMA PlanIs ==
    ASSUME NEW role, NEW live \in SUBSET Staff, NEW access \in Accesses
    PROVE  LET free == role = "admin" \/ access.restricted \cap live = {} IN
           /\ \A original : original # Unscoped => Plan(role, original, live, access) = original
           /\ Plan(role, Unscoped, live, access) \in Managed
           /\ free <=> Plan(role, Unscoped, live, access) = Unscoped
           /\ ~free => Plan(role, Unscoped, live, access)
                         = ScopedTo(live \ (access.restricted \ access.allowed))
<1> DEFINE free == role = "admin" \/ access.restricted \cap live = {}
           list == live \ (access.restricted \ access.allowed)
<1>1. live \ ((access.restricted \cap live) \ access.allowed) = list
  OBVIOUS
<1>2. list \in SUBSET Staff
  OBVIOUS
<1>3. Plan(role, Unscoped, live, access) = IF free THEN Unscoped ELSE ScopedTo(list)
  BY <1>1 DEF Plan
<1>4. \A original : original # Unscoped => Plan(role, original, live, access) = original
  BY DEF Plan
<1> HIDE DEF list, free
<1>5. QED
  BY <1>2, <1>3, <1>4, RowsOfGrants DEF list, free

LEMMA GrantTypesFollow ==
    ASSUME PassType', StoryType', EntryOK', row' \in Rows, groups' \in Accesses,
           hired' \in SUBSET Staff,
           person' \in [role : {"operator", "admin"}, status : {"active", "suspended", "gone"}]
    PROVE  GrantsTypeOK'
<1>1. Cardinality(entry') <= 1
  <2>1. CASE entry' = NoEntry
    BY <2>1, FS_EmptySet DEF NoEntry
  <2>2. ASSUME NEW e, entry' = {e}
        PROVE  Cardinality(entry') <= 1
    <3>1. Cardinality(entry') = 1
      BY <2>2, FS_Singleton
    <3>2. QED
      BY <3>1
  <2>3. QED
    BY <2>1, <2>2 DEF EntryOK
<1>2. \A e \in entry' : e.original \in Rows /\ e.applied \in Rows /\ e.pending \subseteq Rows
  BY RowsOfGrants DEF EntryOK, NoEntry, PersonEntry
<1>3. QED
  BY <1>1, <1>2 DEF GrantsTypeOK, PassType, StoryType

LEMMA GrantsKnow ==
    ASSUME GrantsInv
    PROVE  /\ PassType /\ StoryType /\ EntryOK /\ WriteOK /\ RowOK /\ QuietOK /\ PassSettles
           /\ row \in Rows /\ groups \in Accesses /\ hired \in SUBSET Staff
           /\ person \in [role : {"operator", "admin"}, status : {"active", "suspended", "gone"}]
           /\ pass.access \in Accesses /\ pass.live \in SUBSET Staff /\ pass.role \in {"operator", "admin"}
           /\ NoPass \in [at : {"idle", "listing", "person", "write", "confirm"}, access : Accesses,
                           live : SUBSET Staff, role : {"operator", "admin"}, next : Rows, original : Rows]
           /\ NoPass.at = "idle"
BY RowsOfGrants DEF Accesses, GrantsInv, GrantsTypeOK, PassType, NoPass

\* The record is one entry, and has what it has.
LEMMA EntryIs ==
    ASSUME EntryOK
    PROVE  /\ entry # NoEntry =>
                 /\ (CHOOSE e \in entry : TRUE).original = Unscoped
                 /\ \A r : Mine(r) <=> EntryHas(r)
                 /\ Mine(Unscoped)
           /\ entry = NoEntry => \A r : ~Mine(r) /\ ~EntryHas(r)
           /\ \A r : EntryHas(r) => r \in Managed
           /\ \A r : EntryHas(r) => \E e \in entry : e.original = Unscoped /\ EntryHas(r)
BY RowsOfGrants DEF NoEntry, Mine, EntryHas, PersonEntry, EntryOK

\* A step after which the same holds of the row and its record.
LEMMA RowStays ==
    ASSUME RowOK, UNCHANGED <<row, entry, person>>,
           story'.by = story.by, story'.set = story.set, story'.crossed = story.crossed,
           story'.stands = story.stands,
           pass'.at \in {"write", "confirm"} => pass.at \in {"write", "confirm"}
    PROVE  RowOK'
BY DEF EntryHas, RowOK, ScopedRowsAreOnRecord

LEMMA PassStartsKeeps ==
    ASSUME GrantsInv, PassStarts
    PROVE  GrantsInv'
<1>1. /\ pass' = [NoPass EXCEPT !.at = "listing", !.access = groups]
      /\ story' = [story EXCEPT !.quiet = TRUE]
      /\ UNCHANGED <<row, entry, person, groups, hired>>
  BY DEF PassStarts
<1>2. PassType' /\ pass'.at = "listing" /\ pass'.access = groups
  BY <1>1, GrantsKnow DEF PassType
<1>3. /\ StoryType' /\ story'.by = story.by /\ story'.set = story.set
      /\ story'.crossed = story.crossed /\ story'.stands = story.stands
  BY <1>1, GrantsKnow DEF StoryType
<1>4. EntryOK' /\ WriteOK' /\ QuietOK' /\ PassSettles'
  BY <1>1, <1>2, GrantsKnow DEF EntryOK, WriteOK, QuietOK, PassSettles
<1>5. RowOK'
  BY <1>1, <1>2, <1>3, GrantsKnow, RowStays
<1>6. GrantsTypeOK'
  BY <1>1, <1>2, <1>3, <1>4, GrantsKnow, GrantTypesFollow
<1>7. QED
  BY <1>2, <1>3, <1>4, <1>5, <1>6 DEF GrantsInv

LEMMA PassListsKeeps ==
    ASSUME GrantsInv, PassLists
    PROVE  GrantsInv'
<1>1. /\ pass.at = "listing"
      /\ entry' = IF person.status = "gone" THEN NoEntry ELSE entry
      /\ pass' = IF person.status = "active"
                 THEN [pass EXCEPT !.at = "person", !.live = hired, !.role = person.role] ELSE NoPass
      /\ UNCHANGED <<row, person, groups, hired, story>>
  BY DEF PassLists
<1>2. /\ PassType'
      /\ person.status = "active" =>
            /\ pass'.at = "person" /\ pass'.live = hired /\ pass'.role = person.role
            /\ pass'.access = pass.access
      /\ person.status # "active" => pass'.at = "idle"
  BY <1>1, GrantsKnow DEF PassType
<1>3. StoryType' /\ EntryOK'
  BY <1>1, GrantsKnow DEF StoryType, EntryOK
<1>4. WriteOK' /\ QuietOK' /\ PassSettles'
  BY <1>1, <1>2, GrantsKnow DEF WriteOK, QuietOK, PassSettles
<1>5. RowOK'
  BY <1>1, <1>2, GrantsKnow, RowStays, RowsOfGrants DEF RowOK, ScopedRowsAreOnRecord,
     EntryHas, NoEntry
<1>6. GrantsTypeOK'
  BY <1>1, <1>2, <1>3, GrantsKnow, GrantTypesFollow
<1>7. QED
  BY <1>2, <1>3, <1>4, <1>5, <1>6 DEF GrantsInv

LEMMA PassWritesRowKeeps ==
    ASSUME GrantsInv, PassWritesRow
    PROVE  GrantsInv'
<1>1. /\ pass.at = "write" /\ row' = pass.next
      /\ pass' = [pass EXCEPT !.at = "confirm"]
      /\ story' = [story EXCEPT !.by = "kyoube"]
      /\ UNCHANGED <<entry, person, groups, hired>>
  BY DEF PassWritesRow, PassTo
<1>2. /\ PassType' /\ pass'.at = "confirm" /\ pass'.next = pass.next /\ pass'.live = pass.live
      /\ pass'.original = pass.original /\ pass'.access = pass.access /\ pass'.role = pass.role
  BY <1>1, GrantsKnow DEF PassType
<1>3. /\ StoryType' /\ story'.by = "kyoube" /\ story'.set = story.set
      /\ story'.crossed = story.crossed /\ story'.stands = story.stands /\ story'.quiet = story.quiet
  BY <1>1, GrantsKnow DEF StoryType
<1>4. /\ EntryOK /\ RowOK /\ WriteOK /\ pass.next \in Managed
      /\ \E a \in Managed : entry = EntryOf(Unscoped, a, {pass.next})
  BY <1>1, GrantsKnow DEF WriteOK
<1>5. WriteOK'
  BY <1>1, <1>2, <1>4 DEF WriteOK
<1>6. \E e \in entry : e.original = Unscoped /\ pass.next \in {e.original, e.applied} \cup e.pending
  BY <1>4 DEF EntryOf
<1>7. ScopedRowsAreOnRecord'
  BY <1>1, <1>6 DEF ScopedRowsAreOnRecord, EntryHas
<1>8. RowOK'
  BY <1>1, <1>4, <1>3, <1>7 DEF RowOK
<1>9. EntryOK' /\ QuietOK' /\ PassSettles' /\ row' \in Rows
  BY <1>1, <1>2, <1>3, <1>4, GrantsKnow, RowsOfGrants DEF EntryOK, QuietOK, PassSettles
<1>10. GrantsTypeOK'
  BY <1>1, <1>2, <1>3, <1>9, GrantsKnow, GrantTypesFollow
<1>11. QED
  BY <1>2, <1>3, <1>5, <1>8, <1>9, <1>10 DEF GrantsInv

\* What a pass in peace leaves, when it ends with the row and the record it planned.
LEMMA SettledAsPlanned ==
    ASSUME GrantsInv, pass.at \in {"person", "write", "confirm"},
           UNCHANGED <<row, person, groups, hired, story>>,
           row = Plan(pass.role, Unscoped, pass.live, pass.access),
           row = Unscoped => entry' = NoEntry
    PROVE  PassSettles'
<1>1. QuietOK /\ hired \in SUBSET Staff /\ groups \in Accesses
  BY GrantsKnow
<1>2. CASE ~story.quiet
  BY <1>2 DEF PassSettles
<1>3. CASE story.quiet
  <2>1. row = Plan(person.role, Unscoped, hired, groups)
    BY <1>1, <1>3 DEF QuietOK
  <2> DEFINE free == person.role = "admin" \/ groups.restricted \cap hired = {}
             planned == Plan(person.role, Unscoped, hired, groups)
  <2>2. /\ free <=> planned = Unscoped
        /\ ~free => planned = ScopedTo(hired \ (groups.restricted \ groups.allowed))
    BY <1>1, PlanIs, ZenonT(30)
  <2>3. UNCHANGED <<row, person, groups, hired>>
    OBVIOUS
  <2>4. QED
    BY <2>1, <2>2, <2>3 DEF PassSettles
<1>4. QED
  BY <1>2, <1>3

LEMMA PassConfirmsKeeps ==
    ASSUME GrantsInv, PassConfirms
    PROVE  GrantsInv'
<1>1. /\ pass.at = "confirm" /\ pass' = NoPass
      /\ entry' = IF pass.next = pass.original THEN NoEntry
                  ELSE EntryOf(pass.original, pass.next, NotPending)
      /\ UNCHANGED <<row, person, groups, hired, story>>
  BY DEF PassConfirms
<1>2. PassType' /\ pass'.at = "idle" /\ StoryType'
  BY <1>1, GrantsKnow DEF PassType, StoryType
<1>3. /\ pass.original = Unscoped /\ pass.next \in Managed
      /\ ~story.crossed => row = pass.next
      /\ ~story.crossed => ~story.stands /\ person.status # "gone"
      /\ RowOK
  BY <1>1, GrantsKnow DEF WriteOK, RowOK
<1>4. EntryOK'
  BY <1>1, <1>3 DEF EntryOK, EntryOf, PersonEntry, NotPending
<1>5. WriteOK' /\ QuietOK'
  BY <1>1, <1>2 DEF WriteOK, QuietOK
<1>6. ScopedRowsAreOnRecord'
  BY <1>1, <1>3, RowsOfGrants DEF ScopedRowsAreOnRecord, EntryHas, EntryOf
<1>7. RowOK'
  BY <1>1, <1>2, <1>3, <1>6 DEF RowOK
<1>8. PassSettles'
  BY <1>1, <1>3, GrantsKnow, SettledAsPlanned DEF QuietOK, PassSettles
<1>9. GrantsTypeOK'
  BY <1>1, <1>2, <1>4, GrantsKnow, GrantTypesFollow
<1>10. QED
  BY <1>2, <1>4, <1>5, <1>7, <1>8, <1>9 DEF GrantsInv

LEMMA PassReadsRowKeeps ==
    ASSUME GrantsInv, PassReadsRow
    PROVE  GrantsInv'
<1> DEFINE original == IF entry = NoEntry THEN row ELSE (CHOOSE e \in entry : TRUE).original
           next     == Plan(pass.role, original, pass.live, pass.access)
<1>1. pass.at = "person" /\ UNCHANGED <<row, person, groups, hired, story>>
  BY DEF PassReadsRow
<1>2. /\ EntryOK /\ RowOK /\ QuietOK /\ row \in Rows /\ StoryType'
      /\ entry # NoEntry => original = Unscoped
      /\ entry = NoEntry => original = row
  BY <1>1, GrantsKnow, EntryIs DEF StoryType
<1>3. /\ \A o : o # Unscoped => Plan(pass.role, o, pass.live, pass.access) = o
      /\ Plan(pass.role, Unscoped, pass.live, pass.access) \in Managed
  <2>1. pass.access \in Accesses /\ pass.live \in SUBSET Staff
    BY GrantsKnow
  <2>2. \A o : o # Unscoped => Plan(pass.role, o, pass.live, pass.access) = o
    BY DEF Plan
  <2>3. Plan(pass.role, Unscoped, pass.live, pass.access) \in Managed
    BY <2>1, PlanIs, Zenon
  <2>4. QED
    BY <2>2, <2>3
\* A row on record, or the unscoped one, is no row that a person set or the core dropped.
<1>4. ASSUME row = Unscoped \/ EntryHas(row)
      PROVE  /\ row \in Managed
             /\ ~story.crossed => ~story.stands /\ person.status # "gone"
  BY <1>2, <1>4, EntryIs, RowsOfGrants DEF RowOK
<1>5. CASE entry # NoEntry /\ ~Mine(row) /\ entry' = NoEntry /\ pass' = NoPass
  <2>1. ~EntryHas(row) /\ row # Unscoped
    BY <1>2, <1>5, EntryIs
  <2>2. PassType' /\ pass'.at = "idle" /\ EntryOK' /\ WriteOK' /\ QuietOK'
    BY <1>5, GrantsKnow DEF PassType, EntryOK, WriteOK, QuietOK
  <2>3. \A r : ~EntryHas(r)'
    BY <1>5 DEF EntryHas, NoEntry
  <2>4. ~ (story.by = "kyoube" /\ row.kind = "scoped" /\ ~story.crossed)
    BY <1>2, <2>1 DEF RowOK, ScopedRowsAreOnRecord
  <2>5. RowOK'
    BY <1>1, <1>2, <2>2, <2>3, <2>4 DEF RowOK, ScopedRowsAreOnRecord, EntryHas
  <2>6. PassSettles'
    BY <1>2, RowsOfGrants, <2>1, <1>1, <1>5, <2>4 DEF Managed, RowOK, PassSettles
  <2>7. GrantsTypeOK'
    BY <1>1, <1>2, <2>2, GrantsKnow, GrantTypesFollow
  <2>8. QED
    BY <1>2, <2>2, <2>5, <2>6, <2>7 DEF GrantsInv
<1>6. CASE /\ entry = NoEntry \/ Mine(row)
           /\ next = row
           /\ entry' = IF next = original THEN NoEntry ELSE EntryOf(original, row, NotPending)
           /\ pass' = NoPass
  <2>1. PassType' /\ pass'.at = "idle" /\ WriteOK' /\ QuietOK'
    BY <1>6, GrantsKnow DEF PassType, WriteOK, QuietOK
  <2>2. CASE entry = NoEntry
    <3>1. entry' = entry /\ original = row
      BY <1>2, <1>6, <2>2
    <3>2. RowOK' /\ EntryOK'
      BY <1>1, <1>2, <2>1, <3>1, RowStays DEF EntryOK
    <3>3. ASSUME row = Unscoped
          PROVE  PassSettles'
      BY <1>6, <3>1, <3>3, <1>1, <2>2, SettledAsPlanned
    <3>4. ASSUME row # Unscoped
          PROVE  PassSettles'
      BY <1>2, RowsOfGrants, <2>2, EntryIs, <3>4, <1>1, <3>1 DEF Managed, RowOK,
         ScopedRowsAreOnRecord, PassSettles
    <3>5. PassSettles'
      BY <3>3, <3>4
    <3>6. GrantsTypeOK'
      BY <1>1, <1>2, <2>1, <3>2, GrantsKnow, GrantTypesFollow
    <3>7. QED
      BY <1>2, <2>1, <3>2, <3>5, <3>6 DEF GrantsInv
  <2>3. CASE entry # NoEntry
    <3>1. EntryHas(row) /\ original = Unscoped /\ row = Plan(pass.role, Unscoped, pass.live, pass.access)
      BY <1>2, <1>6, <2>3, EntryIs
    <3>2. /\ row \in Managed
          /\ ~story.crossed => ~story.stands /\ person.status # "gone"
      BY <1>4, <3>1
    <3>3. entry' = IF row = Unscoped THEN NoEntry ELSE EntryOf(Unscoped, row, NotPending)
      BY <1>6, <3>1
    <3>4. EntryOK'
      BY <3>2, <3>3 DEF EntryOK, EntryOf, PersonEntry, NotPending
    <3>5. row # Unscoped => \E e \in entry' : e.original = Unscoped /\ row = e.applied
      BY <3>3 DEF EntryOf
    <3>6. ScopedRowsAreOnRecord'
      BY <1>1, <3>5, RowsOfGrants DEF ScopedRowsAreOnRecord, EntryHas
    <3>7. RowOK'
      BY <1>1, <1>2, <3>2, <3>6 DEF RowOK
    <3>8. PassSettles'
      BY <1>1, <3>1, <3>3, SettledAsPlanned
    <3>9. GrantsTypeOK'
      BY <1>1, <1>2, <2>1, <3>4, GrantsKnow, GrantTypesFollow
    <3>10. QED
      BY <1>2, <2>1, <3>4, <3>7, <3>8, <3>9 DEF GrantsInv
  <2>4. QED
    BY <2>2, <2>3
<1>7. CASE /\ entry = NoEntry \/ Mine(row)
           /\ next # row
           /\ entry' = AnnouncedAs(original, row, next)
           /\ pass' = [pass EXCEPT !.at = "write", !.next = next, !.original = original]
  <2>1. original = Unscoped /\ (row = Unscoped \/ EntryHas(row))
    BY <1>2, <1>3, <1>7, EntryIs
  <2>2. next = Plan(pass.role, Unscoped, pass.live, pass.access) /\ next \in Managed
    BY <1>3, <2>1
  <2>3. /\ row \in Managed
        /\ ~story.crossed => ~story.stands /\ person.status # "gone"
    BY <1>4, <2>1
  <2> HIDE DEF next
  <2>4. /\ PassType' /\ pass'.at = "write" /\ pass'.next = next /\ pass'.original = Unscoped
        /\ pass'.access = pass.access /\ pass'.live = pass.live /\ pass'.role = pass.role
    BY <1>7, <2>1, <2>2, GrantsKnow, RowsOfGrants DEF PassType
  <2>5. entry' = EntryOf(Unscoped, row, {next})
    BY <1>7, <2>1 DEF AnnouncedAs
  <2>6. EntryOK'
    BY <2>2, <2>3, <2>5 DEF EntryOK, EntryOf, PersonEntry
  <2>7. WriteOK'
    BY <2>2, <2>3, <2>4, <2>5 DEF WriteOK
  <2>8. QuietOK' /\ PassSettles'
    BY <1>1, <1>2, <2>2, <2>4 DEF QuietOK, PassSettles
  <2>9. \E e \in entry' : e.original = Unscoped /\ row = e.applied
    BY <2>5 DEF EntryOf
  <2>10. RowOK'
    BY <1>1, <1>2, <2>3, <2>9 DEF RowOK, ScopedRowsAreOnRecord, EntryHas
  <2>11. GrantsTypeOK'
    BY <1>1, <1>2, <2>4, <2>6, GrantsKnow, GrantTypesFollow
  <2>12. QED
    BY <1>2, <2>4, <2>6, <2>7, <2>8, <2>10, <2>11 DEF GrantsInv
<1>8. QED
  BY <1>5, <1>6, <1>7 DEF PassReadsRow

-----------------------------------------------------------------------------
\* What happens beside a pass ends its peace.
LEMMA IncidentDisturbs ==
    ASSUME GrantsInv, story' = Happened
    PROVE  /\ StoryType' /\ story'.by = story.by /\ story'.set = story.set
           /\ story'.crossed = story.crossed /\ story'.stands = story.stands
           /\ QuietOK' /\ PassSettles'
<1>1. story \in [by : {"core", "person", "kyoube"}, set : Rows, crossed : BOOLEAN,
                  stands : BOOLEAN, quiet : BOOLEAN, incidents : Nat]
  BY GrantsKnow DEF StoryType
<1>2. story.incidents + 1 \in Nat /\ story' = [story EXCEPT !.incidents = story.incidents + 1,
                                                            !.quiet = FALSE]
  BY <1>1 DEF Happened
<1>3. /\ StoryType' /\ story'.by = story.by /\ story'.set = story.set
      /\ story'.crossed = story.crossed /\ story'.stands = story.stands /\ story'.quiet = FALSE
  BY <1>1, <1>2 DEF StoryType
<1>4. QED
  BY <1>3 DEF QuietOK, PassSettles

LEMMA WorldKeeps ==
    ASSUME GrantsInv, GroupsAreEdited \/ AgentsComeAndGo \/ MemberChanges
    PROVE  GrantsInv'
<1>1. story' = Happened /\ UNCHANGED <<row, entry, pass>>
  BY DEF GroupsAreEdited, AgentsComeAndGo, MemberChanges
<1>2. /\ groups' \in Accesses /\ hired' \in SUBSET Staff
      /\ person' \in [role : {"operator", "admin"}, status : {"active", "suspended", "gone"}]
      /\ person'.status = "gone" => person.status = "gone"
  BY GrantsKnow DEF GroupsAreEdited, AgentsComeAndGo, MemberChanges
<1>3. PassType' /\ EntryOK' /\ RowOK /\ WriteOK /\ row \in Rows
  BY <1>1, GrantsKnow DEF PassType, EntryOK
<1>4. WriteOK'
  BY <1>1, <1>3, IncidentDisturbs DEF WriteOK
<1>5. ScopedRowsAreOnRecord'
  BY <1>1, <1>3, IncidentDisturbs DEF RowOK, ScopedRowsAreOnRecord, EntryHas
<1>6. EntryHas(row)' <=> EntryHas(row)
  BY <1>1 DEF EntryHas
<1>7. RowOK'
  BY <1>1, <1>2, <1>3, <1>5, <1>6, IncidentDisturbs DEF RowOK
<1>8. GrantsTypeOK'
  BY <1>1, <1>2, <1>3, IncidentDisturbs, GrantTypesFollow
<1>9. QED
  BY <1>1, <1>3, <1>4, <1>7, <1>8, IncidentDisturbs DEF GrantsInv

\* A pass that stops, before its write or after it.
LEMMA PassFailsKeeps ==
    ASSUME GrantsInv, PassFails
    PROVE  GrantsInv'
<1>1. pass' = NoPass /\ UNCHANGED <<entry, person, groups, hired>>
  BY DEF PassFails
<1>2. PassType' /\ pass'.at = "idle" /\ EntryOK' /\ WriteOK' /\ RowOK /\ row \in Rows /\ EntryOK
  BY <1>1, GrantsKnow DEF PassType, EntryOK, WriteOK
<1>3. CASE row' = row /\ story' = Happened
  BY <1>1, <1>2, <1>3, IncidentDisturbs, RowStays, GrantsKnow, GrantTypesFollow DEF
     GrantsInv
<1>4. CASE pass.at = "write" /\ row' = pass.next /\ story' = [Happened EXCEPT !.by = "kyoube"]
  <2>1. /\ StoryType' /\ story'.by = "kyoube" /\ story'.set = story.set /\ story'.quiet = FALSE
        /\ story'.crossed = story.crossed /\ story'.stands = story.stands
    <3>1. story \in [by : {"core", "person", "kyoube"}, set : Rows, crossed : BOOLEAN,
                      stands : BOOLEAN, quiet : BOOLEAN, incidents : Nat]
      BY GrantsKnow DEF StoryType
    <3>2. /\ story.incidents + 1 \in Nat
          /\ story' = [story EXCEPT !.incidents = story.incidents + 1, !.quiet = FALSE, !.by = "kyoube"]
      BY <1>4, <3>1 DEF Happened
    <3>3. QED
      BY <3>1, <3>2 DEF StoryType
  <2>2. /\ pass.next \in Managed
        /\ \E a \in Managed : entry = EntryOf(Unscoped, a, {pass.next})
    BY <1>4, GrantsKnow DEF WriteOK
  <2>3. \E e \in entry : e.original = Unscoped /\ pass.next \in {e.original, e.applied} \cup e.pending
    BY <2>2 DEF EntryOf
  <2>4. ScopedRowsAreOnRecord'
    BY <1>1, <1>4, <2>3 DEF ScopedRowsAreOnRecord, EntryHas
  <2>5. story.crossed \/ (~story.stands /\ person.status # "gone")
    BY <1>2, <1>4 DEF RowOK
  <2>6. RowOK'
    BY <1>1, <2>1, <2>4, <2>5 DEF RowOK
  <2>7. QuietOK' /\ PassSettles'
    BY <2>1 DEF QuietOK, PassSettles
  <2>8. row' \in Rows
    BY <1>4, <2>2, RowsOfGrants
  <2>9. GrantsTypeOK'
    BY <1>1, <1>2, <2>1, <2>8, GrantsKnow, GrantTypesFollow
  <2>10. QED
    BY <1>2, <2>1, <2>6, <2>7, <2>9 DEF GrantsInv
<1>5. QED
  BY <1>3, <1>4 DEF PassFails

\* People and the core change the row: between two passes, or across one.
LEMMA EditsKeep ==
    ASSUME GrantsInv, MemberLeaves \/ MemberJoins \/ GrantIsEdited
    PROVE  GrantsInv'
<1>1. PICK by \in {"core", "person", "kyoube"}, r \in Rows, stands \in BOOLEAN :
         /\ row' = r
         /\ story' = [Happened EXCEPT !.by = by, !.set = r, !.crossed = Crosses, !.stands = stands]
         /\ by = "kyoube" => EntryHas(r)
         /\ stands => ~EntryHas(r) /\ r # Unscoped /\ person'.status # "gone"
         /\ person'.status = "gone" => r = NoRow /\ by # "kyoube"
  <2>1. CASE MemberLeaves
    BY <2>1, RowsOfGrants, GrantsKnow DEF MemberLeaves
  <2>2. CASE MemberJoins
    BY <2>2, RowsOfGrants, GrantsKnow DEF MemberJoins
  <2>3. CASE GrantIsEdited
    <3>1. PICK r \in Rows :
             /\ row' = r
             /\ story' = [Happened EXCEPT !.by = IF EntryHas(r) THEN "kyoube" ELSE "person", !.set = r,
                                          !.crossed = Crosses, !.stands = ~EntryHas(r) /\ r # Unscoped]
      BY <2>3 DEF GrantIsEdited
    <3> DEFINE stands == ~EntryHas(r) /\ r # Unscoped
               by == IF EntryHas(r) THEN "kyoube" ELSE "person"
    <3>2. stands \in BOOLEAN /\ by \in {"core", "person", "kyoube"}
      BY Zenon
    <3>3. /\ stands => ~EntryHas(r) /\ r # Unscoped
          /\ by = "kyoube" => EntryHas(r)
      OBVIOUS
    <3>4. story' = [Happened EXCEPT !.by = by, !.set = r, !.crossed = Crosses, !.stands = stands]
      BY <3>1
    <3>5. person'.status # "gone"
      BY <2>3 DEF GrantIsEdited
    <3> HIDE DEF stands, by
    <3>6. QED
      BY <3>1, <3>2, <3>3, <3>4, <3>5
  <2>4. QED
    BY <2>1, <2>2, <2>3
<1>2. /\ UNCHANGED <<entry, groups, hired, pass>>
      /\ person' \in [role : {"operator", "admin"}, status : {"active", "suspended", "gone"}]
  <2>1. person \in [role : {"operator", "admin"}, status : {"active", "suspended", "gone"}]
    BY GrantsKnow
  <2>2. CASE MemberLeaves
    BY <2>1, <2>2 DEF MemberLeaves
  <2>3. CASE MemberJoins
    BY <2>1, <2>3 DEF MemberJoins
  <2>4. CASE GrantIsEdited
    BY <2>1, <2>4 DEF GrantIsEdited
  <2>5. QED
    BY <2>2, <2>3, <2>4
<1>3. Crosses \in BOOLEAN /\ (~Crosses => pass.at \notin {"write", "confirm"})
  BY DEF Crosses
<1>4. /\ StoryType' /\ story'.by = by /\ story'.set = r /\ story'.quiet = FALSE
      /\ story'.crossed = Crosses /\ story'.stands = stands
  <2>1. story \in [by : {"core", "person", "kyoube"}, set : Rows, crossed : BOOLEAN,
                    stands : BOOLEAN, quiet : BOOLEAN, incidents : Nat]
    BY GrantsKnow DEF StoryType
  <2>2. /\ story.incidents + 1 \in Nat
        /\ story' = [story EXCEPT !.incidents = story.incidents + 1, !.quiet = FALSE, !.by = by,
                                  !.set = r, !.crossed = Crosses, !.stands = stands]
    BY <1>1, <2>1 DEF Happened
  <2>3. QED
    BY <1>1, <1>3, <2>1, <2>2 DEF StoryType
<1>5. PassType' /\ EntryOK /\ EntryOK' /\ WriteOK
  BY <1>2, GrantsKnow DEF PassType, EntryOK
<1>6. \A x : EntryHas(x)' <=> EntryHas(x)
  BY <1>2 DEF EntryHas
<1>7. WriteOK'
  BY <1>2, <1>3, <1>4, <1>5 DEF WriteOK
<1>8. by = "kyoube" => \E e \in entry : e.original = Unscoped /\ EntryHas(r)
  BY <1>1, <1>5, EntryIs
<1>9. ScopedRowsAreOnRecord'
  BY <1>1, <1>2, <1>4, <1>8 DEF ScopedRowsAreOnRecord, EntryHas
<1>10. ~EntryHas(r) => ~EntryHas(row)'
  BY <1>1, <1>2 DEF EntryHas
<1>11. RowOK'
  BY <1>1, <1>2, <1>3, <1>4, <1>9, <1>10 DEF RowOK
<1>12. QuietOK' /\ PassSettles'
  BY <1>4 DEF QuietOK, PassSettles
<1>13. GrantsTypeOK'
  BY <1>1, <1>2, <1>4, <1>5, GrantsKnow, GrantTypesFollow
<1>14. QED
  BY <1>4, <1>5, <1>7, <1>11, <1>12, <1>13 DEF GrantsInv

LEMMA GrantsInitially == GrantsInit => GrantsInv
<1> SUFFICES ASSUME GrantsInit
             PROVE  GrantsInv
  OBVIOUS
<1>1. /\ row \in {Unscoped, ByHand, NoRow} /\ entry = {} /\ groups \in Accesses /\ hired = Staff
      /\ person = [role |-> "operator", status |-> "active"] /\ pass = NoPass
      /\ story = [by |-> "core", set |-> row, crossed |-> FALSE, stands |-> FALSE, quiet |-> FALSE,
                  incidents |-> 0]
  BY DEF GrantsInit, NoEntry
<1>2. row \in Rows /\ NoRow \in Rows /\ [restricted |-> {}, allowed |-> {}] \in Accesses
  BY <1>1, RowsOfGrants DEF Accesses
<1>3. PassType /\ StoryType /\ pass.at = "idle"
  BY <1>1, <1>2 DEF PassType, StoryType, NoPass
<1>4. Cardinality(entry) <= 1
  BY <1>1, FS_EmptySet
<1>5. GrantsTypeOK
  BY <1>1, <1>2, <1>3, <1>4 DEF GrantsTypeOK
<1>6. EntryOK /\ WriteOK /\ RowOK /\ QuietOK /\ PassSettles
  BY <1>1, <1>3 DEF EntryOK, NoEntry, WriteOK, RowOK, QuietOK, PassSettles, ScopedRowsAreOnRecord
<1>7. QED
  BY <1>3, <1>5, <1>6 DEF GrantsInv

LEMMA GrantsInductive == GrantsInv /\ [GrantsNext]_grantVars => GrantsInv'
<1> SUFFICES ASSUME GrantsInv, [GrantsNext]_grantVars
             PROVE  GrantsInv'
  OBVIOUS
<1>1. CASE UNCHANGED grantVars
  <2>1. UNCHANGED <<row, entry, person, groups, hired, pass, story>>
    BY <1>1 DEF grantVars
  <2>2. PassType' /\ StoryType' /\ EntryOK' /\ WriteOK' /\ QuietOK' /\ PassSettles'
    <3>1. PassType' /\ StoryType'
      BY <2>1, GrantsKnow DEF PassType, StoryType
    <3>2. EntryOK'
      BY <2>1 DEF GrantsInv, EntryOK
    <3>3. WriteOK'
      BY <2>1 DEF GrantsInv, WriteOK
    <3>4. QuietOK' /\ PassSettles'
      BY <2>1, GrantsKnow DEF QuietOK, PassSettles
    <3>5. QED
      BY <3>1, <3>2, <3>3, <3>4
  <2>3. RowOK'
    BY <2>1, GrantsKnow, RowStays
  <2>4. GrantsTypeOK'
    BY <2>1, <2>2, GrantsKnow, GrantTypesFollow
  <2>5. QED
    BY <2>2, <2>3, <2>4 DEF GrantsInv
<1>2. CASE GrantsNext
  BY <1>2, PassStartsKeeps, PassListsKeeps, PassReadsRowKeeps, PassWritesRowKeeps, PassConfirmsKeeps,
     PassFailsKeeps, WorldKeeps, EditsKeep DEF GrantsNext
<1>3. QED
  BY <1>1, <1>2

\* The inductive invariant of a person's grant, in every behaviour of the pass and of
\* the people beside it.
THEOREM GrantsInvariance == GrantsSpec => []GrantsInv
<1>1. QED
  BY GrantsInitially, GrantsInductive, PTL DEF GrantsSpec

LEMMA GrantsAreKept == GrantsInv => ScopedRowsAreOnRecord /\ HandSetGrantsStand /\ PassSettles
BY DEF GrantsInv, RowOK, HandSetGrantsStand

\* planPerson and its write keep the record: a scoped grant KyoubeAI wrote can always be
\* given back, one set by hand stands, and one pass in peace leaves the grant as planned.
THEOREM GrantsKept == GrantsSpec => [](ScopedRowsAreOnRecord /\ HandSetGrantsStand /\ PassSettles)
<1>1. QED
  BY GrantsInvariance, GrantsAreKept, PTL

-----------------------------------------------------------------------------
(* AgentProtection.  ProtectionInv is the inductive invariant: at every step of*)
(* a pass, undoing what is on record gives each agent the grants and the policy*)
(* its people have set last.                                               *)

\* What undoing the record makes of an agent's grants, and of its policy.
Undone(rec, a, h) ==
    ((h \ (IF a \in rec.scoped THEN {"team"} ELSE {})) \cup (IF a \in rec.broad THEN {"broad"} ELSE {}))
        \ (IF rec.given[a] = NotAsked THEN {} ELSE rec.given[a])
Reopened(rec, a, p) == IF a \in rec.protected /\ p = "protected" THEN "open" ELSE p

CallRecords ==
    [kind : {"none", "reconcile", "revert", "apply", "lift"},
     at : {"idle", "agent", "required", "protect", "release", "forget", "grants", "grant", "granted"},
     team : Teams, keep : SUBSET Agents, todo : SUBSET Agents, agent : Agents \cup {NoAgent},
     next : SUBSET Grants, rest : GuardRecords, clean : BOOLEAN]
Histories ==
    [policy : [Agents -> Policies], held : [Agents -> SUBSET Grants],
     taken : [Agents -> SUBSET ChangeKeys], tops : SUBSET Agents, secured : SUBSET Agents,
     grouped : SUBSET Agents, crossed : SUBSET Agents, off : BOOLEAN, calls : Nat, events : Nat]

ProtectionTypes ==
    /\ team \in Teams /\ restricted \in SUBSET Agents
    /\ policy \in [Agents -> Policies] /\ held \in [Agents -> SUBSET Grants]
    /\ guardRecord \in GuardRecords
    /\ groupRecord \in [protected : SUBSET Agents, required : SUBSET Agents]
    /\ rulesCall \in CallRecords /\ wanted \in Histories

\* Which call is at which step, and with an agent.
StepKnown ==
    /\ rulesCall.at = "idle" <=> rulesCall.kind = "none"
    /\ rulesCall.at = "required" => rulesCall.kind = "apply"
    /\ rulesCall.at = "protect" => rulesCall.kind \in {"reconcile", "apply"}
    /\ rulesCall.at \in {"release", "forget"} => rulesCall.kind \in {"reconcile", "revert", "lift"}
    /\ rulesCall.at \in {"grants", "grant"} => rulesCall.kind \in {"reconcile", "revert"}
    /\ rulesCall.at = "granted" => rulesCall.kind = "reconcile"
    /\ Me = NoAgent <=> rulesCall.at \in {"idle", "agent", "required"}

\* Undoing the record, or what is left of it, gives an agent what its people set.
GrantOK(a) ==
    /\ wanted.held[a] = Undone(guardRecord, a, held[a])
    /\ rulesCall.kind = "revert" => wanted.held[a] = Undone(rulesCall.rest, a, held[a])
PolicyOK(a) ==
    /\ wanted.policy[a] = Reopened(guardRecord, a, policy[a])
    /\ rulesCall.kind = "revert" => wanted.policy[a] = Reopened(rulesCall.rest, a, policy[a])

\* What is about to be written to the agent at hand.
GrantStep ==
    /\ rulesCall.at = "grant" =>
         /\ rulesCall.kind = "reconcile" =>
              /\ wanted.held[Me] = Undone(guardRecord, Me, rulesCall.next)
              /\ ~Manages(Me) /\ Me \in guardRecord.scoped => "team" \notin rulesCall.next
         /\ rulesCall.kind = "revert" => rulesCall.next = wanted.held[Me]
         /\ rulesCall.next \cap wanted.taken[Me] = {}
    /\ rulesCall.at = "granted" => "team" \notin held[Me]
PolicyStep ==
    /\ rulesCall.at = "protect" => wanted.policy[Me] = "open" /\ Me \in guardRecord.protected
    /\ rulesCall.at = "release" => wanted.policy[Me] = "open"
    /\ rulesCall.at = "forget" => policy[Me] # "protected"
    /\ rulesCall.at \in {"grants", "grant"} /\ rulesCall.kind = "revert" => wanted.policy[Me] = policy[Me]

TakenOK ==
    /\ \A a \in Agents : wanted.taken[a] # {} \/ a \in wanted.tops => guardRecord.given[a] # NotAsked
    /\ rulesCall.at = "grant" /\ rulesCall.kind = "reconcile" /\ Me \in TopOf(rulesCall.team)
          => guardRecord.given[Me] # NotAsked

GroupsOK ==
    /\ restricted \cup groupRecord.protected \cup groupRecord.required \subseteq wanted.grouped
    /\ rulesCall.kind \in {"apply", "lift"} => /\ wanted.secured = {}
                                               /\ rulesCall.todo \cup ({Me} \ {NoAgent}) \subseteq wanted.grouped
    /\ wanted.secured \subseteq groupRecord.required
    /\ rulesCall.kind \in {"reconcile", "revert"} =>
         /\ rulesCall.keep = groupRecord.required
         /\ rulesCall.at = "release" => Me \notin rulesCall.keep

RevertOK ==
    /\ wanted.off => OnRecord(guardRecord) = {} /\ rulesCall.kind \in {"none", "apply", "lift"}
    /\ rulesCall.kind = "revert" /\ rulesCall.clean => OnRecord(rulesCall.rest) \subseteq rulesCall.todo \cup {Me}

GrantsOK   == \A a \in Agents \ wanted.crossed : GrantOK(a)
PoliciesOK == \A a \in Agents \ (wanted.crossed \cup wanted.grouped) : PolicyOK(a)
GrantStepOK  == Me \notin wanted.crossed => GrantStep
PolicyStepOK == Me \notin wanted.crossed \cup wanted.grouped => PolicyStep

ProtectionInv ==
    /\ ProtectionTypes /\ StepKnown /\ TakenOK /\ GroupsOK /\ RevertOK
    /\ GrantsOK /\ PoliciesOK /\ GrantStepOK /\ PolicyStepOK
    /\ TakenAwayStays /\ GroupsOutlastTheRules

LEMMA CountsUp == ProtectionTypes => wanted.calls + 1 \in Nat /\ wanted.events + 1 \in Nat
BY DEF ProtectionTypes, Histories

LEMMA UndoneType ==
    ASSUME NEW rec \in GuardRecords, NEW a \in Agents, NEW h \in SUBSET Grants
    PROVE  Undone(rec, a, h) \in SUBSET Grants
BY DEF Undone, GuardRecords, Grants

LEMMA UndoneTwice ==
    ASSUME NEW rec \in GuardRecords, NEW a \in Agents, NEW h \in SUBSET Grants
    PROVE  Undone(rec, a, Undone(rec, a, h)) = Undone(rec, a, h)
BY ProtectionAssumption DEF Undone, GuardRecords, Grants, NotAsked

\* A person changes one grant: undoing sees it unless the record covers it.
LEMMA UndoneUnseen ==
    ASSUME NEW a \in Agents, NEW g \in Grants, NEW h \in SUBSET Grants, NEW h2 \in SUBSET Grants,
           guardRecord \in GuardRecords, Recorded(a, g), \A x \in Grants \ {g} : x \in h2 <=> x \in h
    PROVE  Undone(guardRecord, a, h2) = Undone(guardRecord, a, h)
BY ProtectionAssumption, UndoneType DEF Undone, Recorded, GuardRecords, NotAsked

LEMMA UndoneSeen ==
    ASSUME NEW a \in Agents, NEW g \in Grants, NEW h \in SUBSET Grants, NEW h2 \in SUBSET Grants,
           guardRecord \in GuardRecords, ~Recorded(a, g), \A x \in Grants \ {g} : x \in h2 <=> x \in h
    PROVE  Undone(guardRecord, a, h2) = (h2 \cap {g}) \cup (Undone(guardRecord, a, h) \ {g})
BY UndoneType DEF Undone, Recorded

LEMMA DropType ==
    ASSUME NEW rec \in GuardRecords, NEW a \in Agents
    PROVE  Drop(rec, a) \in GuardRecords
BY DEF Drop, GuardRecords

LEMMA DropFields ==
    ASSUME NEW rec \in GuardRecords, NEW a \in Agents
    PROVE  /\ a \notin Drop(rec, a).protected /\ a \notin Drop(rec, a).scoped
           /\ a \notin Drop(rec, a).broad /\ Drop(rec, a).given[a] = NotAsked
           /\ \A b \in Agents \ {a} : /\ b \in Drop(rec, a).protected <=> b \in rec.protected
                                      /\ b \in Drop(rec, a).scoped <=> b \in rec.scoped
                                      /\ b \in Drop(rec, a).broad <=> b \in rec.broad
                                      /\ Drop(rec, a).given[b] = rec.given[b]
BY DEF Drop, GuardRecords

\* Nothing is left to undo for an agent that has been dropped.
LEMMA UndoneDropped ==
    ASSUME NEW rec \in GuardRecords, NEW a \in Agents, NEW h \in SUBSET Grants
    PROVE  Undone(Drop(rec, a), a, h) = h
BY DropFields DEF Undone

LEMMA OnRecordType ==
    ASSUME NEW rec \in GuardRecords
    PROVE  OnRecord(rec) \in SUBSET Agents
BY DEF OnRecord, GuardRecords

LEMMA OnRecordDropped ==
    ASSUME NEW rec \in GuardRecords, NEW a \in Agents
    PROVE  OnRecord(Drop(rec, a)) \in SUBSET (OnRecord(rec) \ {a})
BY DEF OnRecord, Drop, GuardRecords

LEMMA NoCallType == ProtectionTypes => NoCall \in CallRecords
BY DEF NoCall, GuardRecords, CallRecords, ProtectionTypes

\* The call goes on: what it is, and what it has set out to do, stay.
CallContinues == /\ rulesCall' \in CallRecords /\ rulesCall'.kind = rulesCall.kind
          /\ rulesCall'.team = rulesCall.team /\ rulesCall'.keep = rulesCall.keep
          /\ rulesCall'.clean = rulesCall.clean

LEMMA CallMoves ==
    ASSUME rulesCall \in CallRecords,
           NEW s \in {"idle", "agent", "required", "protect", "release", "forget", "grants", "grant", "granted"}
    PROVE  /\ \A a \in Agents : Takes(a, s) =>
                /\ CallContinues /\ rulesCall'.todo = rulesCall.todo \ {a} /\ rulesCall'.agent = a
                /\ rulesCall'.at = s /\ rulesCall'.next = rulesCall.next /\ rulesCall'.rest = rulesCall.rest
           /\ To(s) =>
                /\ CallContinues /\ rulesCall'.todo = rulesCall.todo /\ rulesCall'.agent = rulesCall.agent
                /\ rulesCall'.at = s /\ rulesCall'.next = rulesCall.next /\ rulesCall'.rest = rulesCall.rest
           /\ NextAgent =>
                /\ CallContinues /\ rulesCall'.todo = rulesCall.todo /\ rulesCall'.agent = NoAgent
                /\ rulesCall'.at = "agent" /\ rulesCall'.next = {} /\ rulesCall'.rest = rulesCall.rest
<1>1. ASSUME NEW a \in Agents, Takes(a, s)
      PROVE  /\ CallContinues /\ rulesCall'.todo = rulesCall.todo \ {a} /\ rulesCall'.agent = a
             /\ rulesCall'.at = s /\ rulesCall'.next = rulesCall.next /\ rulesCall'.rest = rulesCall.rest
  BY <1>1 DEF CallRecords, Takes, CallContinues
<1>2. ASSUME To(s)
      PROVE  /\ CallContinues /\ rulesCall'.todo = rulesCall.todo /\ rulesCall'.agent = rulesCall.agent
             /\ rulesCall'.at = s /\ rulesCall'.next = rulesCall.next /\ rulesCall'.rest = rulesCall.rest
  BY <1>2 DEF CallRecords, To, CallContinues
<1>3. ASSUME NextAgent
      PROVE  /\ CallContinues /\ rulesCall'.todo = rulesCall.todo /\ rulesCall'.agent = NoAgent
             /\ rulesCall'.at = "agent" /\ rulesCall'.next = {} /\ rulesCall'.rest = rulesCall.rest
  BY <1>3 DEF CallRecords, NextAgent, CallContinues
<1>4. QED
  BY <1>1, <1>2, <1>3

LEMMA AskReconcileKeeps == ASSUME ProtectionInv, AskReconcile PROVE ProtectionInv'
<1> USE ProtectionAssumption
<1>1. ProtectionTypes'
  <2>1. wanted' \in Histories
    BY CountsUp DEF ProtectionInv, AskReconcile, Started, Idle, ProtectionTypes, Histories
  <2>2. rulesCall' \in CallRecords
    BY NoCallType DEF ProtectionInv, AskReconcile, Started, Idle, ProtectionTypes, CallRecords, GuardRecords
  <2>3. guardRecord' \in GuardRecords
    BY DEF ProtectionInv, AskReconcile, Started, Idle, ProtectionTypes, GuardRecords, CallRecords
  <2>4. QED
    BY <2>1, <2>2, <2>3 DEF ProtectionInv, AskReconcile, Started, Idle, ProtectionTypes, CallRecords
<1>2. StepKnown'
  BY DEF ProtectionInv, AskReconcile, Started, Idle, StepKnown, Me, ProtectionTypes, CallRecords, NoCall
<1>3. TakenOK'
  BY DEF ProtectionInv, AskReconcile, Started, Idle, TakenOK, ProtectionTypes, CallRecords, Histories, GuardRecords, Me, NoCall
<1>4. GroupsOK'
  BY DEF ProtectionInv, AskReconcile, Started, Idle, GroupsOK, StepKnown, ProtectionTypes, CallRecords, Histories, Me, NoCall
<1>5. RevertOK'
  BY DEF ProtectionInv, AskReconcile, Started, Idle, RevertOK, StepKnown, ProtectionTypes, CallRecords, Histories, GuardRecords, Me, OnRecord, NoCall
<1>6. GrantsOK'
  BY DEF ProtectionInv, AskReconcile, Started, Idle, GrantsOK, GrantOK, ProtectionTypes, CallRecords, Histories, NoCall
<1>7. PoliciesOK'
  BY DEF ProtectionInv, AskReconcile, Started, Idle, PoliciesOK, PolicyOK, ProtectionTypes, CallRecords, Histories, NoCall
<1>8. GrantStepOK'
  BY DEF ProtectionInv, AskReconcile, Started, Idle, GrantStepOK, GrantStep, StepKnown, ProtectionTypes, CallRecords, Histories, Me, Manages, NoCall
<1>9. PolicyStepOK'
  BY DEF ProtectionInv, AskReconcile, Started, Idle, PolicyStepOK, PolicyStep, StepKnown, ProtectionTypes, CallRecords, Histories, Me, NoCall
<1>10. TakenAwayStays'
  BY DEF ProtectionInv, AskReconcile, Started, Idle, TakenAwayStays, ProtectionTypes, CallRecords, Histories
<1>11. GroupsOutlastTheRules'
  BY DEF ProtectionInv, AskReconcile, Started, Idle, GroupsOutlastTheRules, ProtectionTypes, CallRecords, Histories
<1>12. QED
  BY <1>1, <1>2, <1>3, <1>4, <1>5, <1>6, <1>7, <1>8, <1>9, <1>10, <1>11 DEF ProtectionInv

LEMMA AskRevertKeeps == ASSUME ProtectionInv, AskRevert PROVE ProtectionInv'
<1> USE ProtectionAssumption
<1>1. ProtectionTypes'
  <2>1. wanted' \in Histories
    BY CountsUp DEF ProtectionInv, AskRevert, Started, Idle, ProtectionTypes, Histories
  <2>2. rulesCall' \in CallRecords
    BY NoCallType DEF ProtectionInv, AskRevert, ProtectionTypes, CallRecords, GuardRecords, OnRecord
  <2>3. guardRecord' \in GuardRecords
    BY DEF ProtectionInv, AskRevert, Started, Idle, ProtectionTypes, GuardRecords, CallRecords
  <2>4. QED
    BY <2>1, <2>2, <2>3 DEF ProtectionInv, AskRevert, Started, Idle, ProtectionTypes, CallRecords
<1>2. StepKnown'
  BY DEF ProtectionInv, AskRevert, Started, Idle, StepKnown, Me, ProtectionTypes, CallRecords, NoCall
<1>3. TakenOK'
  BY DEF ProtectionInv, AskRevert, Started, Idle, TakenOK, ProtectionTypes, CallRecords, Histories, GuardRecords, Me, NoCall
<1>4. GroupsOK'
  BY DEF ProtectionInv, AskRevert, Started, Idle, GroupsOK, StepKnown, ProtectionTypes, CallRecords, Histories, Me, NoCall
<1>5. RevertOK'
  BY DEF ProtectionInv, AskRevert, Started, Idle, RevertOK, StepKnown, ProtectionTypes, CallRecords, Histories, GuardRecords, Me, OnRecord, NoCall
<1>6. GrantsOK'
  BY DEF ProtectionInv, AskRevert, Started, Idle, GrantsOK, GrantOK, ProtectionTypes, CallRecords, Histories, NoCall
<1>7. PoliciesOK'
  BY DEF ProtectionInv, AskRevert, Started, Idle, PoliciesOK, PolicyOK, ProtectionTypes, CallRecords, Histories, NoCall
<1>8. GrantStepOK'
  BY DEF ProtectionInv, AskRevert, Started, Idle, GrantStepOK, GrantStep, StepKnown, ProtectionTypes, CallRecords, Histories, Me, Manages, NoCall
<1>9. PolicyStepOK'
  BY DEF ProtectionInv, AskRevert, Started, Idle, PolicyStepOK, PolicyStep, StepKnown, ProtectionTypes, CallRecords, Histories, Me, NoCall
<1>10. TakenAwayStays'
  BY DEF ProtectionInv, AskRevert, Started, Idle, TakenAwayStays, ProtectionTypes, CallRecords, Histories
<1>11. GroupsOutlastTheRules'
  BY DEF ProtectionInv, AskRevert, Started, Idle, GroupsOutlastTheRules, ProtectionTypes, CallRecords, Histories
<1>12. QED
  BY <1>1, <1>2, <1>3, <1>4, <1>5, <1>6, <1>7, <1>8, <1>9, <1>10, <1>11 DEF ProtectionInv

LEMMA AskApplyKeeps == ASSUME ProtectionInv, AskApply PROVE ProtectionInv'
<1> USE ProtectionAssumption
<1>1. ProtectionTypes'
  <2>1. wanted' \in Histories
    BY CountsUp DEF ProtectionInv, AskApply, Started, Idle, Exists, ProtectionTypes, Histories
  <2>2. rulesCall' \in CallRecords
    BY NoCallType DEF ProtectionInv, AskApply, Started, Idle, Exists, ProtectionTypes, CallRecords, GuardRecords
  <2>3. guardRecord' \in GuardRecords
    BY DEF ProtectionInv, AskApply, Started, Idle, Exists, ProtectionTypes, GuardRecords, CallRecords
  <2>4. QED
    BY <2>1, <2>2, <2>3 DEF ProtectionInv, AskApply, Started, Idle, Exists, ProtectionTypes, CallRecords
<1>2. StepKnown'
  BY DEF ProtectionInv, AskApply, Started, Idle, Exists, StepKnown, Me, ProtectionTypes, CallRecords, NoCall
<1>3. TakenOK'
  BY DEF ProtectionInv, AskApply, Started, Idle, Exists, TakenOK, ProtectionTypes, CallRecords, Histories, GuardRecords, Me, NoCall
<1>4. GroupsOK'
  BY DEF ProtectionInv, AskApply, Started, Idle, Exists, GroupsOK, StepKnown, ProtectionTypes, CallRecords, Histories, Me, NoCall
<1>5. RevertOK'
  BY ZenonT(40) DEF ProtectionInv, AskApply, Started, Idle, Exists, RevertOK, StepKnown, ProtectionTypes, CallRecords, Histories, GuardRecords, Me, OnRecord, NoCall
<1>6. GrantsOK'
  BY DEF ProtectionInv, AskApply, Started, Idle, Exists, GrantsOK, GrantOK, ProtectionTypes, CallRecords, Histories, NoCall
<1>7. PoliciesOK'
  BY DEF ProtectionInv, AskApply, Started, Idle, Exists, PoliciesOK, PolicyOK, ProtectionTypes, CallRecords, Histories, NoCall
<1>8. GrantStepOK'
  BY DEF ProtectionInv, AskApply, Started, Idle, Exists, GrantStepOK, GrantStep, StepKnown, ProtectionTypes, CallRecords, Histories, Me, Manages, NoCall
<1>9. PolicyStepOK'
  BY DEF ProtectionInv, AskApply, Started, Idle, Exists, PolicyStepOK, PolicyStep, StepKnown, ProtectionTypes, CallRecords, Histories, Me, NoCall
<1>10. TakenAwayStays'
  BY DEF ProtectionInv, AskApply, Started, Idle, Exists, TakenAwayStays, ProtectionTypes, CallRecords, Histories
<1>11. GroupsOutlastTheRules'
  BY DEF ProtectionInv, AskApply, Started, Idle, Exists, GroupsOutlastTheRules, ProtectionTypes, CallRecords, Histories
<1>12. QED
  BY <1>1, <1>2, <1>3, <1>4, <1>5, <1>6, <1>7, <1>8, <1>9, <1>10, <1>11 DEF ProtectionInv

LEMMA ApplyRequiredKeeps == ASSUME ProtectionInv, ApplyRequired PROVE ProtectionInv'
<1> USE ProtectionAssumption
<1>1. ProtectionTypes'
  <2>1. wanted' \in Histories
    BY CountsUp DEF ProtectionInv, ApplyRequired, Underway, To, ProtectionTypes, Histories
  <2>2. rulesCall' \in CallRecords
    BY NoCallType DEF ProtectionInv, ApplyRequired, Underway, To, ProtectionTypes, CallRecords, GuardRecords
  <2>3. guardRecord' \in GuardRecords
    BY DEF ProtectionInv, ApplyRequired, Underway, To, ProtectionTypes, GuardRecords, CallRecords
  <2>4. QED
    BY <2>1, <2>2, <2>3 DEF ProtectionInv, ApplyRequired, Underway, To, ProtectionTypes, CallRecords
<1>2. StepKnown'
  BY DEF ProtectionInv, ApplyRequired, Underway, To, StepKnown, Me, ProtectionTypes, CallRecords, NoCall
<1>3. TakenOK'
  BY DEF ProtectionInv, ApplyRequired, Underway, To, TakenOK, ProtectionTypes, CallRecords, Histories, GuardRecords, Me, NoCall
<1>4. GroupsOK'
  BY DEF ProtectionInv, ApplyRequired, Underway, To, GroupsOK, StepKnown, ProtectionTypes, CallRecords, Histories, Me, NoCall
<1>5. RevertOK'
  BY ZenonT(40) DEF ProtectionInv, ApplyRequired, Underway, To, RevertOK, StepKnown, ProtectionTypes, CallRecords, Histories, GuardRecords, Me, OnRecord, NoCall
<1>6. GrantsOK'
  BY DEF ProtectionInv, ApplyRequired, Underway, To, GrantsOK, GrantOK, ProtectionTypes, CallRecords, Histories, NoCall
<1>7. PoliciesOK'
  BY DEF ProtectionInv, ApplyRequired, Underway, To, PoliciesOK, PolicyOK, ProtectionTypes, CallRecords, Histories, NoCall
<1>8. GrantStepOK'
  BY DEF ProtectionInv, ApplyRequired, Underway, To, GrantStepOK, GrantStep, StepKnown, ProtectionTypes, CallRecords, Histories, Me, Manages, NoCall
<1>9. PolicyStepOK'
  BY DEF ProtectionInv, ApplyRequired, Underway, To, PolicyStepOK, PolicyStep, StepKnown, ProtectionTypes, CallRecords, Histories, Me, NoCall
<1>10. TakenAwayStays'
  BY DEF ProtectionInv, ApplyRequired, Underway, To, TakenAwayStays, ProtectionTypes, CallRecords, Histories
<1>11. GroupsOutlastTheRules'
  BY DEF ProtectionInv, ApplyRequired, Underway, To, GroupsOutlastTheRules, ProtectionTypes, CallRecords, Histories
<1>12. QED
  BY <1>1, <1>2, <1>3, <1>4, <1>5, <1>6, <1>7, <1>8, <1>9, <1>10, <1>11 DEF ProtectionInv

LEMMA ReadPolicyKeeps == ASSUME NEW a \in Agents, ProtectionInv, ReadPolicy(a) PROVE ProtectionInv'
<1> USE ProtectionAssumption
<1>1. /\ rulesCall \in CallRecords /\ guardRecord \in GuardRecords /\ wanted \in Histories
      /\ groupRecord \in [protected : SUBSET Agents, required : SUBSET Agents]
  BY DEF ProtectionInv, ProtectionTypes
<1>2. /\ rulesCall.at = "agent" /\ a \in rulesCall.todo /\ rulesCall.kind # "none"
      /\ UNCHANGED <<team, policy, held, restricted, wanted>>
      /\ Me = NoAgent /\ rulesCall.agent = NoAgent
  BY DEF ReadPolicy, ProtectionInv, StepKnown, Me
<1>3. /\ CallContinues /\ rulesCall'.todo = rulesCall.todo \ {a}
      /\ rulesCall'.next = rulesCall.next /\ rulesCall'.rest = rulesCall.rest
      /\ \/ rulesCall'.at = "protect" /\ rulesCall'.agent = a /\ Protects(a)
         \/ rulesCall'.at = "release" /\ rulesCall'.agent = a /\ Releases(a) /\ policy[a] = "protected"
         \/ /\ rulesCall'.at = "forget" /\ rulesCall'.agent = a /\ Releases(a)
            /\ policy[a] # "protected" \/ rulesCall.kind = "lift"
         \/ /\ rulesCall'.at = "grants" /\ rulesCall'.agent = a /\ ~Releases(a)
            /\ rulesCall.kind \in {"reconcile", "revert"}
         \/ /\ rulesCall'.at = "agent" /\ rulesCall'.agent = NoAgent
            /\ rulesCall.kind \in {"apply", "lift"}
  <2>1. CASE Protects(a) /\ Takes(a, "protect")
    BY <1>1, <2>1, CallMoves
  <2>2. CASE Releases(a) /\ Takes(a, "release") /\ policy[a] = "protected"
    BY <1>1, <2>2, CallMoves
  <2>3. CASE Releases(a) /\ Takes(a, "forget") /\ (policy[a] # "protected" \/ rulesCall.kind = "lift")
    BY <1>1, <2>3, CallMoves
  <2>4. CASE ~Releases(a) /\ Takes(a, "grants") /\ rulesCall.kind \in {"reconcile", "revert"}
    BY <1>1, <2>4, CallMoves
  <2>5. CASE /\ rulesCall.kind \notin {"reconcile", "revert"}
             /\ rulesCall' = [rulesCall EXCEPT !.todo = @ \ {a}]
    BY <1>1, <1>2, <2>5 DEF CallRecords, CallContinues
  <2>6. QED
    BY <2>1, <2>2, <2>3, <2>4, <2>5 DEF ReadPolicy
<1>4. /\ Protects(a) => policy[a] = "open" /\ rulesCall.kind \in {"reconcile", "apply"}
      /\ Releases(a) =>
           \/ rulesCall.kind = "reconcile" /\ a \in guardRecord.protected /\ a \notin rulesCall.keep
           \/ rulesCall.kind = "revert" /\ a \in rulesCall.rest.protected /\ a \notin rulesCall.keep
           \/ rulesCall.kind = "lift"
      /\ rulesCall.kind = "revert" /\ ~Releases(a) => a \notin rulesCall.rest.protected \/ a \in rulesCall.keep
  BY DEF Protects, Releases
<1>5. \/ UNCHANGED <<guardRecord, groupRecord>> /\ rulesCall'.at # "protect"
      \/ /\ rulesCall'.at = "protect" /\ rulesCall.kind = "apply"
         /\ groupRecord' = [groupRecord EXCEPT !.protected = @ \cup {a}] /\ UNCHANGED guardRecord
      \/ /\ rulesCall'.at = "protect" /\ rulesCall.kind = "reconcile"
         /\ guardRecord' = [guardRecord EXCEPT !.protected = @ \cup {a}] /\ UNCHANGED groupRecord
  BY <1>1, <1>2, <1>3, <1>4 DEF ReadPolicy, Takes, CallRecords
<1>6. /\ guardRecord' \in GuardRecords
      /\ guardRecord'.scoped = guardRecord.scoped /\ guardRecord'.broad = guardRecord.broad
      /\ guardRecord'.given = guardRecord.given
      /\ \A b \in Agents \ {a} : b \in guardRecord'.protected <=> b \in guardRecord.protected
      /\ a \in guardRecord.protected => a \in guardRecord'.protected
      /\ rulesCall'.at = "protect" /\ rulesCall.kind = "reconcile" => a \in guardRecord'.protected
      /\ ~(rulesCall'.at = "protect" /\ rulesCall.kind = "reconcile") => guardRecord' = guardRecord
  <2>1. CASE UNCHANGED guardRecord /\ ~(rulesCall'.at = "protect" /\ rulesCall.kind = "reconcile")
    BY <1>1, <2>1
  <2>2. CASE /\ rulesCall'.at = "protect" /\ rulesCall.kind = "reconcile"
             /\ guardRecord' = [guardRecord EXCEPT !.protected = @ \cup {a}]
    BY <1>1, <2>2 DEF GuardRecords
  <2>3. QED
    BY <1>5, <2>1, <2>2
<1>7. /\ groupRecord' \in [protected : SUBSET Agents, required : SUBSET Agents]
      /\ groupRecord'.required = groupRecord.required
      /\ groupRecord'.protected \subseteq groupRecord.protected \cup {a}
      /\ rulesCall.kind \in {"reconcile", "revert"} => groupRecord' = groupRecord
      /\ rulesCall.kind = "lift" => groupRecord' = groupRecord
  BY <1>1, <1>5
<1>8. /\ rulesCall' \in CallRecords /\ rulesCall'.kind = rulesCall.kind /\ rulesCall'.team = rulesCall.team
      /\ rulesCall'.keep = rulesCall.keep /\ rulesCall'.clean = rulesCall.clean
  BY <1>3 DEF CallContinues
<1>10. ProtectionTypes'
  BY <1>2, <1>6, <1>7, <1>8 DEF ProtectionInv, ProtectionTypes
<1>11. StepKnown'
  BY <1>1, <1>2, <1>3, <1>4, <1>8 DEF ProtectionInv, StepKnown, Me, CallRecords
<1>12. TakenOK'
  BY <1>2, <1>3, <1>6 DEF ProtectionInv, TakenOK
<1>13. GroupsOK'
  <2>1. rulesCall.kind \in {"apply", "lift"} => a \in wanted.grouped
    BY <1>2 DEF ProtectionInv, GroupsOK
  <2>2. (restricted \cup groupRecord.protected \cup groupRecord.required \subseteq wanted.grouped)'
    BY <1>1, <1>2, <1>3, <1>4, <1>5, <1>7, <2>1 DEF ProtectionInv, GroupsOK
  <2>3. (rulesCall.kind \in {"apply", "lift"} =>
           wanted.secured = {} /\ rulesCall.todo \cup ({Me} \ {NoAgent}) \subseteq wanted.grouped)'
    BY <1>2, <1>3, <1>8, <2>1 DEF ProtectionInv, GroupsOK, Me
  <2>4. (rulesCall.kind \in {"reconcile", "revert"} =>
           /\ rulesCall.keep = groupRecord.required
           /\ rulesCall.at = "release" => Me \notin rulesCall.keep)'
    BY <1>2, <1>3, <1>4, <1>7, <1>8 DEF ProtectionInv, GroupsOK, Me
  <2>5. QED
    BY <1>2, <1>7, <2>2, <2>3, <2>4 DEF ProtectionInv, GroupsOK
<1>14. RevertOK'
  <2>1. wanted.off => ~(rulesCall'.at = "protect" /\ rulesCall.kind = "reconcile")
    BY DEF ProtectionInv, RevertOK
  <2>2. rulesCall.kind = "revert" => rulesCall'.agent = a
    BY <1>3
  <2>3. OnRecord(rulesCall.rest) \subseteq Agents
    BY <1>1, OnRecordType DEF CallRecords
  <2>4. (wanted.off => OnRecord(guardRecord) = {} /\ rulesCall.kind \in {"none", "apply", "lift"})'
    BY <1>2, <1>6, <1>8, <2>1 DEF ProtectionInv, RevertOK
  <2>5. QED
    BY <1>2, <1>3, <1>8, <2>2, <2>3, <2>4 DEF ProtectionInv, RevertOK, Me
<1>15. GrantsOK'
  <2>1. ASSUME NEW b \in Agents PROVE Undone(guardRecord', b, held[b]) = Undone(guardRecord, b, held[b])
    BY <1>6 DEF Undone
  <2>2. QED
    BY <1>2, <1>3, <1>8, <2>1 DEF ProtectionInv, GrantsOK, GrantOK
<1>16. PoliciesOK'
  BY <1>2, <1>3, <1>4, <1>6, <1>8 DEF ProtectionInv, PoliciesOK, PolicyOK, Reopened
<1>17. GrantStepOK'
  BY <1>3 DEF GrantStepOK, GrantStep
<1>18. PolicyStepOK'
  <2>1. ASSUME a \notin wanted.crossed \cup wanted.grouped
        PROVE  /\ PolicyOK(a) /\ a \notin groupRecord.required
               /\ rulesCall.kind \in {"reconcile", "revert"} => a \notin rulesCall.keep
               /\ rulesCall.kind \notin {"apply", "lift"}
    BY <1>2, <2>1 DEF ProtectionInv, PoliciesOK, GroupsOK
  <2>2. QED
    BY <1>2, <1>3, <1>4, <1>6, <1>8, <2>1 DEF PolicyStepOK, PolicyStep, PolicyOK, Reopened, Me
<1>19. TakenAwayStays'
  BY <1>2 DEF ProtectionInv, TakenAwayStays
<1>20. GroupsOutlastTheRules'
  BY <1>2 DEF ProtectionInv, GroupsOutlastTheRules
<1>21. QED
  BY <1>10, <1>11, <1>12, <1>13, <1>14, <1>15, <1>16, <1>17, <1>18, <1>19, <1>20 DEF ProtectionInv

LEMMA ReadFailsKeeps == ASSUME NEW a \in Agents, ProtectionInv, ReadFails(a) PROVE ProtectionInv'
<1> USE ProtectionAssumption
<1>1. ProtectionTypes'
  BY CountsUp, NoCallType DEF ProtectionInv, ReadFails, ProtectionTypes, Histories,
     CallRecords, GuardRecords
<1>2. StepKnown'
  BY DEF ProtectionInv, ReadFails, StepKnown, Me, ProtectionTypes, CallRecords, NoCall
<1>3. TakenOK'
  BY DEF ProtectionInv, ReadFails, TakenOK, ProtectionTypes, CallRecords, Histories, GuardRecords, Me, NoCall
<1>4. GroupsOK'
  BY DEF ProtectionInv, ReadFails, GroupsOK, StepKnown, ProtectionTypes, CallRecords, Histories, Me, NoCall
<1>5. RevertOK'
  BY ZenonT(40) DEF ProtectionInv, ReadFails, RevertOK, StepKnown, ProtectionTypes, CallRecords, Histories, GuardRecords, Me, OnRecord, NoCall
<1>6. GrantsOK'
  BY DEF ProtectionInv, ReadFails, GrantsOK, GrantOK, ProtectionTypes, CallRecords, Histories, NoCall
<1>7. PoliciesOK'
  BY DEF ProtectionInv, ReadFails, PoliciesOK, PolicyOK, ProtectionTypes, CallRecords, Histories, NoCall
<1>8. GrantStepOK'
  BY DEF ProtectionInv, ReadFails, GrantStepOK, GrantStep, StepKnown, ProtectionTypes, CallRecords, Histories, Me, Manages, NoCall
<1>9. PolicyStepOK'
  BY DEF ProtectionInv, ReadFails, PolicyStepOK, PolicyStep, StepKnown, ProtectionTypes, CallRecords, Histories, Me, NoCall
<1>10. TakenAwayStays'
  BY DEF ProtectionInv, ReadFails, TakenAwayStays, ProtectionTypes, CallRecords, Histories
<1>11. GroupsOutlastTheRules'
  BY DEF ProtectionInv, ReadFails, GroupsOutlastTheRules, ProtectionTypes, CallRecords, Histories
<1>12. QED
  BY <1>1, <1>2, <1>3, <1>4, <1>5, <1>6, <1>7, <1>8, <1>9, <1>10, <1>11 DEF ProtectionInv

LEMMA WritePolicyKeeps == ASSUME ProtectionInv, WritePolicy PROVE ProtectionInv'
<1> USE ProtectionAssumption
<1>1. /\ rulesCall \in CallRecords /\ guardRecord \in GuardRecords /\ wanted \in Histories
      /\ policy \in [Agents -> Policies]
  BY DEF ProtectionInv, ProtectionTypes
<1>2. /\ rulesCall.at \in {"protect", "release"}
      /\ UNCHANGED <<team, held, guardRecord, groupRecord, restricted, wanted>>
      /\ Me \in Agents /\ rulesCall.agent = Me
  BY <1>1 DEF WritePolicy, ProtectionInv, StepKnown, Me, CallRecords
<1>3. /\ CallContinues /\ rulesCall'.todo = rulesCall.todo /\ rulesCall'.rest = rulesCall.rest
      /\ \/ rulesCall.at = "release" /\ rulesCall'.at = "forget" /\ rulesCall'.agent = Me
         \/ /\ rulesCall.at = "protect" /\ rulesCall.kind = "reconcile"
            /\ rulesCall'.at = "grants" /\ rulesCall'.agent = Me
         \/ /\ rulesCall.at = "protect" /\ rulesCall.kind = "apply"
            /\ rulesCall'.at = "agent" /\ rulesCall'.agent = NoAgent
  BY <1>1, <1>2, CallMoves DEF WritePolicy, AfterPolicy, ProtectionInv, StepKnown
<1>4. /\ rulesCall' \in CallRecords /\ rulesCall'.kind = rulesCall.kind /\ rulesCall'.team = rulesCall.team
      /\ rulesCall'.keep = rulesCall.keep /\ rulesCall'.clean = rulesCall.clean
  BY <1>3 DEF CallContinues
<1>5. /\ policy' \in [Agents -> Policies]
      /\ policy'[Me] = (IF rulesCall.at = "protect" THEN "protected" ELSE "open")
      /\ \A a \in Agents \ {Me} : policy'[a] = policy[a]
  BY <1>1, <1>2 DEF WritePolicy, Written, Policies
<1>6. ProtectionTypes'
  BY <1>2, <1>4, <1>5 DEF ProtectionInv, ProtectionTypes
<1>7. StepKnown'
  BY <1>1, <1>2, <1>3, <1>4 DEF ProtectionInv, StepKnown, Me
<1>8. TakenOK'
  BY <1>2, <1>3, <1>4 DEF ProtectionInv, TakenOK
<1>9. GroupsOK'
  BY <1>2, <1>3, <1>4 DEF ProtectionInv, GroupsOK, Me
<1>10. RevertOK'
  BY <1>2, <1>3, <1>4 DEF ProtectionInv, RevertOK, Me
<1>11. GrantsOK'
  BY <1>2, <1>3, <1>4 DEF ProtectionInv, GrantsOK, GrantOK
<1>12. PoliciesOK'
  <2>1. ASSUME NEW a \in Agents \ (wanted.crossed \cup wanted.grouped) PROVE PolicyOK(a)'
    <3>1. CASE a # Me
      BY <1>2, <1>3, <1>4, <1>5, <2>1, <3>1 DEF ProtectionInv, PoliciesOK, PolicyOK
    <3>2. CASE a = Me
      BY <1>2, <2>1, <3>2, <1>3, <1>4, <1>5 DEF ProtectionInv, PolicyStepOK, PolicyStep,
         StepKnown, PolicyOK, Reopened
    <3>3. QED
      BY <3>1, <3>2
  <2>2. QED
    BY <1>2, <2>1 DEF PoliciesOK
<1>13. GrantStepOK'
  BY <1>3 DEF GrantStepOK, GrantStep
<1>14. PolicyStepOK'
  BY <1>2, <1>3, <1>4, <1>5 DEF PolicyStepOK, PolicyStep, Me
<1>15. TakenAwayStays'
  BY <1>2 DEF ProtectionInv, TakenAwayStays
<1>16. GroupsOutlastTheRules'
  BY <1>2, <1>1, <1>5 DEF ProtectionInv, GroupsOK, StepKnown, GroupsOutlastTheRules,
     Histories
<1>17. QED
  BY <1>6, <1>7, <1>8, <1>9, <1>10, <1>11, <1>12, <1>13, <1>14, <1>15, <1>16 DEF ProtectionInv

LEMMA ForgetPolicyKeeps == ASSUME ProtectionInv, ForgetPolicy PROVE ProtectionInv'
<1> USE ProtectionAssumption
<1>1. /\ rulesCall \in CallRecords /\ guardRecord \in GuardRecords /\ wanted \in Histories
      /\ groupRecord \in [protected : SUBSET Agents, required : SUBSET Agents]
  BY DEF ProtectionInv, ProtectionTypes
<1>2. /\ rulesCall.at = "forget" /\ rulesCall.kind \in {"reconcile", "revert", "lift"}
      /\ UNCHANGED <<team, policy, held, restricted, wanted>>
      /\ Me \in Agents /\ rulesCall.agent = Me
  BY <1>1 DEF ForgetPolicy, ProtectionInv, StepKnown, Me, CallRecords
<1>3. /\ CallContinues /\ rulesCall'.todo = rulesCall.todo /\ rulesCall'.rest = rulesCall.rest
      /\ \/ /\ rulesCall.kind \in {"reconcile", "revert"}
            /\ rulesCall'.at = "grants" /\ rulesCall'.agent = Me
         \/ rulesCall.kind = "lift" /\ rulesCall'.at = "agent" /\ rulesCall'.agent = NoAgent
  BY <1>1, <1>2, CallMoves DEF ForgetPolicy, AfterPolicy
<1>4. /\ rulesCall' \in CallRecords /\ rulesCall'.kind = rulesCall.kind /\ rulesCall'.team = rulesCall.team
      /\ rulesCall'.keep = rulesCall.keep /\ rulesCall'.clean = rulesCall.clean
  BY <1>3 DEF CallContinues
<1>5. /\ guardRecord' \in GuardRecords
      /\ guardRecord'.scoped = guardRecord.scoped /\ guardRecord'.broad = guardRecord.broad
      /\ guardRecord'.given = guardRecord.given
      /\ \A a \in Agents \ {Me} : a \in guardRecord'.protected <=> a \in guardRecord.protected
      /\ rulesCall.kind # "reconcile" => guardRecord' = guardRecord
  <2>1. CASE rulesCall.kind = "reconcile" /\ guardRecord' = [guardRecord EXCEPT !.protected = @ \ {Me}]
    BY <1>1, <1>2, <2>1 DEF GuardRecords
  <2>2. CASE rulesCall.kind # "reconcile" /\ guardRecord' = guardRecord
    BY <1>1, <2>2
  <2>3. QED
    BY <1>2, <2>1, <2>2 DEF ForgetPolicy
<1>6. /\ groupRecord' \in [protected : SUBSET Agents, required : SUBSET Agents]
      /\ groupRecord'.required = groupRecord.required
      /\ groupRecord'.protected \subseteq groupRecord.protected
  BY <1>1, <1>2 DEF ForgetPolicy
<1>7. ProtectionTypes'
  BY <1>2, <1>4, <1>5, <1>6 DEF ProtectionInv, ProtectionTypes
<1>8. StepKnown'
  BY <1>1, <1>2, <1>3, <1>4 DEF ProtectionInv, StepKnown, Me
<1>9. TakenOK'
  BY <1>2, <1>3, <1>4, <1>5 DEF ProtectionInv, TakenOK
<1>10. GroupsOK'
  BY <1>2, <1>3, <1>4, <1>6 DEF ProtectionInv, GroupsOK, Me
<1>11. RevertOK'
  BY <1>2, <1>5, <1>3, <1>4 DEF ProtectionInv, RevertOK, Me
<1>12. GrantsOK'
  <2>1. ASSUME NEW a \in Agents PROVE Undone(guardRecord', a, held[a]) = Undone(guardRecord, a, held[a])
    BY <1>5 DEF Undone
  <2>2. QED
    BY <1>2, <1>3, <1>4, <2>1 DEF ProtectionInv, GrantsOK, GrantOK
<1>13. PoliciesOK'
  <2>1. ASSUME NEW a \in Agents \ (wanted.crossed \cup wanted.grouped) PROVE PolicyOK(a)'
    BY <1>2, <2>1, <1>5, <1>3, <1>4 DEF ProtectionInv, PolicyStepOK, PolicyStep, PoliciesOK,
       PolicyOK, Reopened
  <2>2. QED
    BY <1>2, <2>1 DEF PoliciesOK
<1>14. GrantStepOK'
  BY <1>3 DEF GrantStepOK, GrantStep
<1>15. PolicyStepOK'
  BY <1>2, <1>3, <1>4 DEF ProtectionInv, PolicyStepOK, PolicyStep, PoliciesOK, PolicyOK,
     Reopened, Me
<1>16. TakenAwayStays'
  BY <1>2 DEF ProtectionInv, TakenAwayStays
<1>17. GroupsOutlastTheRules'
  BY <1>2 DEF ProtectionInv, GroupsOutlastTheRules
<1>18. QED
  BY <1>7, <1>8, <1>9, <1>10, <1>11, <1>12, <1>13, <1>14, <1>15, <1>16, <1>17 DEF ProtectionInv

\* The end of what a call does with an agent's grants: they are as it wants them, and
\* what the record says of them is what undoes it.
LEMMA GrantsEnd ==
    ASSUME ProtectionInv, rulesCall.at \in {"grants", "grant"}, AfterGrants, Remembers,
           UNCHANGED <<team, policy, groupRecord, restricted>>,
           held' \in [Agents -> SUBSET Grants], \A a \in Agents \ {Me} : held'[a] = held[a],
           guardRecord' \in GuardRecords, guardRecord'.protected = guardRecord.protected,
           \A a \in Agents \ {Me} : /\ a \in guardRecord'.scoped <=> a \in guardRecord.scoped
                                    /\ a \in guardRecord'.broad <=> a \in guardRecord.broad
                                    /\ guardRecord'.given[a] = guardRecord.given[a],
           guardRecord.given[Me] # NotAsked => guardRecord'.given[Me] # NotAsked,
           rulesCall.kind = "reconcile" /\ Me \in TopOf(rulesCall.team) => guardRecord'.given[Me] # NotAsked,
           Me \notin wanted.crossed =>
             /\ wanted.held[Me] = Undone(guardRecord', Me, held'[Me])
             /\ rulesCall.kind = "revert" => held'[Me] = wanted.held[Me]
             /\ rulesCall.kind = "reconcile" /\ ~Manages(Me) /\ Me \in guardRecord.scoped
                  => "team" \notin held'[Me]
             /\ held'[Me] \cap wanted.taken[Me] = {}
    PROVE  ProtectionInv'
<1>1. /\ rulesCall \in CallRecords /\ guardRecord \in GuardRecords /\ wanted \in Histories
      /\ rulesCall.rest \in GuardRecords
  BY DEF ProtectionInv, ProtectionTypes, CallRecords
<1>2. /\ rulesCall.kind \in {"reconcile", "revert"} /\ Me \in Agents /\ rulesCall.agent = Me
      /\ ~wanted.off
  BY <1>1 DEF ProtectionInv, StepKnown, Me, CallRecords, RevertOK
<1>3. /\ CallContinues /\ rulesCall'.todo = rulesCall.todo
      /\ \/ /\ rulesCall'.at = "granted" /\ rulesCall'.agent = Me /\ rulesCall'.rest = rulesCall.rest
            /\ rulesCall.kind = "reconcile" /\ ~Manages(Me) /\ Me \in guardRecord.scoped
         \/ /\ rulesCall'.at = "agent" /\ rulesCall'.agent = NoAgent
            /\ rulesCall.kind = "reconcile" => rulesCall'.rest = rulesCall.rest
            /\ rulesCall.kind = "revert" => rulesCall'.rest = Drop(rulesCall.rest, Me)
  <2>1. CASE rulesCall.kind = "reconcile" /\ ~Manages(Me) /\ Me \in guardRecord.scoped /\ To("granted")
    BY <1>1, <1>2, <2>1, CallMoves
  <2>2. CASE rulesCall' = [rulesCall EXCEPT !.at = "agent", !.agent = NoAgent, !.next = {},
                              !.rest = IF rulesCall.kind = "revert" THEN Drop(@, Me) ELSE @]
    BY <1>1, <1>2, DropType, <2>2 DEF CallRecords, CallContinues
  <2>3. QED
    BY <2>1, <2>2 DEF AfterGrants
<1>4. /\ rulesCall' \in CallRecords /\ rulesCall'.kind = rulesCall.kind /\ rulesCall'.team = rulesCall.team
      /\ rulesCall'.keep = rulesCall.keep /\ rulesCall'.clean = rulesCall.clean
  BY <1>3 DEF CallContinues
<1>5. /\ wanted' \in Histories /\ wanted'.policy = wanted.policy /\ wanted'.held = wanted.held
      /\ wanted'.taken = wanted.taken /\ wanted'.secured = wanted.secured /\ wanted'.off = wanted.off
      /\ wanted'.grouped = wanted.grouped /\ wanted'.crossed = wanted.crossed
      /\ wanted'.tops = wanted.tops \cup (IF rulesCall.kind = "reconcile" THEN {Me} \cap TopOf(rulesCall.team) ELSE {})
  BY <1>1, <1>2 DEF Remembers, Histories
<1>6. ProtectionTypes'
  BY <1>1, <1>4, <1>5 DEF ProtectionInv, ProtectionTypes
<1>7. StepKnown'
  BY <1>2, <1>3, <1>4 DEF ProtectionInv, StepKnown, Me
<1>8. TakenOK'
  BY <1>5, <1>3 DEF ProtectionInv, TakenOK
<1>9. GroupsOK'
  BY <1>2, <1>3, <1>4, <1>5 DEF ProtectionInv, GroupsOK, Me
<1>10. RevertOK'
  BY <1>1, <1>2, OnRecordDropped, <1>3, <1>4, <1>5 DEF ProtectionInv, RevertOK
<1>11. GrantsOK'
  <2>1. ASSUME NEW a \in Agents \ wanted.crossed PROVE GrantOK(a)'
    <3>1. CASE a # Me
      BY <2>1, <3>1, <1>1, <1>2, DropFields, <1>3, <1>4, <1>5 DEF ProtectionInv, GrantsOK,
         Undone, GrantOK
    <3>2. CASE a = Me
      BY <1>2, <1>1, UndoneDropped, <1>3, <3>2, <1>4, <1>5, <2>1 DEF GrantOK
    <3>3. QED
      BY <3>1, <3>2
  <2>2. QED
    BY <1>5, <2>1 DEF GrantsOK
<1>12. PoliciesOK'
  BY <1>1, <1>2, DropFields, <1>3, <1>4, <1>5 DEF ProtectionInv, PoliciesOK, PolicyOK,
     Reopened, PolicyStepOK, PolicyStep
<1>13. GrantStepOK'
  BY <1>2, <1>3, <1>5 DEF GrantStepOK, GrantStep, Me
<1>14. PolicyStepOK'
  BY <1>3 DEF PolicyStepOK, PolicyStep
<1>15. TakenAwayStays'
  BY <1>2, <1>5 DEF ProtectionInv, TakenAwayStays
<1>16. GroupsOutlastTheRules'
  BY <1>5 DEF ProtectionInv, GroupsOutlastTheRules
<1>17. QED
  BY <1>6, <1>7, <1>8, <1>9, <1>10, <1>11, <1>12, <1>13, <1>14, <1>15, <1>16 DEF ProtectionInv

LEMMA ReadGrantsKeeps == ASSUME ProtectionInv, ReadGrants PROVE ProtectionInv'
<1>1. /\ rulesCall \in CallRecords /\ guardRecord \in GuardRecords /\ wanted \in Histories
      /\ rulesCall.rest \in GuardRecords /\ held \in [Agents -> SUBSET Grants]
  BY DEF ProtectionInv, ProtectionTypes, CallRecords
<1>2. /\ rulesCall.at = "grants" /\ rulesCall.kind \in {"reconcile", "revert"}
      /\ UNCHANGED <<team, policy, held, groupRecord, restricted>>
      /\ Me \in Agents /\ rulesCall.agent = Me /\ ~wanted.off
      /\ held[Me] \subseteq Grants /\ guardRecord.given[Me] \in (SUBSET ChangeKeys) \cup {NotAsked}
      /\ guardRecord.given \in [Agents -> (SUBSET ChangeKeys) \cup {NotAsked}]
  BY <1>1 DEF ReadGrants, ProtectionInv, StepKnown, Me, CallRecords, RevertOK, GuardRecords
<1>3. /\ Missing \in SUBSET ChangeKeys /\ Missing # NotAsked
      /\ Gives => guardRecord.given[Me] = NotAsked
      /\ ~Gives /\ Me \in TopOf(rulesCall.team) => guardRecord.given[Me] # NotAsked
  BY ProtectionAssumption DEF Missing, NotAsked, Gives
<1>4. /\ guardRecord' \in GuardRecords /\ guardRecord'.protected = guardRecord.protected
      /\ \A a \in Agents \ {Me} : /\ a \in guardRecord'.scoped <=> a \in guardRecord.scoped
                                  /\ a \in guardRecord'.broad <=> a \in guardRecord.broad
                                  /\ guardRecord'.given[a] = guardRecord.given[a]
  BY <1>1, <1>2, <1>3 DEF Announced, GuardRecords, ReadGrants
<1>5. /\ rulesCall.kind = "revert" => guardRecord' = guardRecord
      /\ rulesCall.kind = "reconcile" =>
           /\ Me \in guardRecord'.scoped <=> Me \in guardRecord.scoped \/ (Manages(Me) /\ "team" \notin held[Me])
           /\ Me \in guardRecord'.broad <=> Me \in guardRecord.broad \/ "broad" \in held[Me]
           /\ Gives => guardRecord'.given[Me] = Missing
           /\ ~Gives => guardRecord'.given[Me] = guardRecord.given[Me]
  BY <1>1, <1>2 DEF ReadGrants, Announced, GuardRecords
<1>6. Undone(guardRecord', Me, held[Me]) = Undone(guardRecord, Me, held[Me])
  BY ProtectionAssumption, <1>2, <1>3, <1>5 DEF Undone, Missing, Grants
<1>7. ASSUME rulesCall.kind = "reconcile"
      PROVE  /\ Desired \in SUBSET Grants
             /\ Undone(guardRecord', Me, Desired) = Undone(guardRecord, Me, held[Me])
             /\ ~Manages(Me) /\ Me \in guardRecord.scoped => "team" \notin Desired
             /\ \A g \in Desired \ held[Me] : g = "team" \/ (Gives /\ g \in ChangeKeys)
  <2>1. /\ "broad" \notin Desired
        /\ Manages(Me) => "team" \in Desired
        /\ ~Manages(Me) => ("team" \in Desired <=> "team" \in held[Me] /\ Me \notin guardRecord.scoped)
        /\ \A g \in ChangeKeys : g \in Desired <=> g \in held[Me] \/ Gives
        /\ Desired \subseteq Grants
    BY ProtectionAssumption, <1>2, <1>7 DEF Desired, Missing, Grants
  <2>2. \A g \in Grants : g \in Undone(guardRecord', Me, Desired) <=> g \in Undone(guardRecord, Me, held[Me])
    BY <1>2, <1>3, <1>5, <1>7, <2>1, ProtectionAssumption DEF Undone, NotAsked, Missing,
       Grants
  <2>3. Undone(guardRecord', Me, Desired) \subseteq Grants /\ Undone(guardRecord, Me, held[Me]) \subseteq Grants
    BY <1>1, <1>2, <1>4, <2>1, UndoneType
  <2>4. \A g \in Desired \ held[Me] : g = "team" \/ (Gives /\ g \in ChangeKeys)
    BY <1>7 DEF Desired, Missing
  <2>5. QED
    BY <2>1, <2>2, <2>3, <2>4
<1>8. rulesCall.kind = "revert" => Desired = Undone(rulesCall.rest, Me, held[Me])
  BY DEF Desired, Undone
<1>9. Desired \in SUBSET Grants
  BY <1>1, <1>2, UndoneType, <1>7, <1>8
<1>10. ASSUME Me \notin wanted.crossed
       PROVE  /\ wanted.held[Me] = Undone(guardRecord', Me, Desired)
              /\ wanted.held[Me] = Undone(guardRecord', Me, held[Me])
              /\ rulesCall.kind = "revert" => Desired = wanted.held[Me]
              /\ Desired \cap wanted.taken[Me] = {}
  <2>1. GrantOK(Me) /\ held[Me] \cap wanted.taken[Me] = {} /\ wanted.taken[Me] \subseteq ChangeKeys
    BY <1>1, <1>2, <1>10 DEF ProtectionInv, GrantsOK, TakenAwayStays, Histories
  <2>2. rulesCall.kind = "revert" => Desired = wanted.held[Me]
    BY <1>8, <2>1 DEF GrantOK
  <2>3. wanted.held[Me] = Undone(guardRecord', Me, Desired)
    BY <1>7, <2>1, <1>5, <2>2, <1>1, <1>2, UndoneTwice DEF GrantOK
  <2>4. Desired \cap wanted.taken[Me] = {}
    BY <1>2, <1>3, <1>8, ProtectionAssumption, <1>7, <2>1 DEF ProtectionInv, TakenOK, Undone
  <2>5. QED
    BY <1>6, <2>1, <2>2, <2>3, <2>4 DEF GrantOK
<1>11. /\ guardRecord.given[Me] # NotAsked => guardRecord'.given[Me] # NotAsked
       /\ rulesCall.kind = "reconcile" /\ Me \in TopOf(rulesCall.team) => guardRecord'.given[Me] # NotAsked
  BY <1>2, <1>3, <1>5
<1>12. CASE Desired = held[Me] /\ AfterGrants /\ Remembers
  BY <1>1, <1>2, <1>4, <1>7, <1>10, <1>11, <1>12, GrantsEnd
<1>13. CASE rulesCall' = [rulesCall EXCEPT !.next = Desired, !.at = "grant"] /\ UNCHANGED wanted
  <2>1. /\ rulesCall' \in CallRecords /\ rulesCall'.kind = rulesCall.kind /\ rulesCall'.team = rulesCall.team
        /\ rulesCall'.keep = rulesCall.keep /\ rulesCall'.clean = rulesCall.clean
        /\ rulesCall'.todo = rulesCall.todo /\ rulesCall'.agent = Me /\ rulesCall'.rest = rulesCall.rest
        /\ rulesCall'.at = "grant" /\ rulesCall'.next = Desired /\ wanted' = wanted
    BY <1>1, <1>2, <1>9, <1>13 DEF CallRecords
  <2>2. ProtectionTypes'
    BY <1>2, <1>4, <2>1 DEF ProtectionInv, ProtectionTypes
  <2>3. StepKnown'
    BY <1>2, <2>1 DEF ProtectionInv, StepKnown, Me
  <2>4. TakenOK'
    BY <1>4, <1>11, <2>1 DEF ProtectionInv, TakenOK, Me
  <2>5. GroupsOK'
    BY <1>2, <2>1 DEF ProtectionInv, GroupsOK, Me
  <2>6. RevertOK'
    BY <1>2, <2>1 DEF ProtectionInv, RevertOK, Me
  <2>7. GrantsOK'
    BY <1>6, <1>4, <1>2, <2>1 DEF Undone, ProtectionInv, GrantsOK, GrantOK
  <2>8. PoliciesOK'
    BY <1>2, <1>4, <2>1 DEF ProtectionInv, PoliciesOK, PolicyOK, Reopened
  <2>9. GrantStepOK'
    BY <1>5, <1>7, <1>10, <2>1 DEF GrantStepOK, GrantStep, Me, Manages
  <2>10. PolicyStepOK'
    BY <1>2, <2>1 DEF ProtectionInv, PolicyStepOK, PolicyStep, Me
  <2>11. TakenAwayStays'
    BY <1>2, <2>1 DEF ProtectionInv, TakenAwayStays
  <2>12. GroupsOutlastTheRules'
    BY <1>2, <2>1 DEF ProtectionInv, GroupsOutlastTheRules
  <2>13. QED
    BY <2>2, <2>3, <2>4, <2>5, <2>6, <2>7, <2>8, <2>9, <2>10, <2>11, <2>12 DEF ProtectionInv
<1>14. QED
  BY <1>12, <1>13 DEF ReadGrants

LEMMA WriteGrantsKeeps == ASSUME ProtectionInv, WriteGrants PROVE ProtectionInv'
<1>1. /\ rulesCall \in CallRecords /\ guardRecord \in GuardRecords /\ wanted \in Histories
      /\ held \in [Agents -> SUBSET Grants] /\ rulesCall.next \in SUBSET Grants
  BY DEF ProtectionInv, ProtectionTypes, CallRecords
<1>2. /\ rulesCall.at = "grant" /\ rulesCall.kind \in {"reconcile", "revert"} /\ Me \in Agents
      /\ UNCHANGED <<team, policy, guardRecord, groupRecord, restricted>> /\ AfterGrants /\ Remembers
      /\ held' = [held EXCEPT ![Me] = rulesCall.next]
  BY <1>1 DEF WriteGrants, ProtectionInv, StepKnown, Me, CallRecords
<1>3. /\ held' \in [Agents -> SUBSET Grants] /\ held'[Me] = rulesCall.next
      /\ \A a \in Agents \ {Me} : held'[a] = held[a]
  BY <1>1, <1>2
<1>4. rulesCall.kind = "reconcile" /\ Me \in TopOf(rulesCall.team) => guardRecord.given[Me] # NotAsked
  BY <1>2 DEF ProtectionInv, TakenOK
<1>5. ASSUME Me \notin wanted.crossed
      PROVE  /\ wanted.held[Me] = Undone(guardRecord, Me, rulesCall.next)
             /\ rulesCall.kind = "revert" => rulesCall.next = wanted.held[Me]
             /\ rulesCall.kind = "reconcile" /\ ~Manages(Me) /\ Me \in guardRecord.scoped
                  => "team" \notin rulesCall.next
             /\ rulesCall.next \cap wanted.taken[Me] = {}
  BY <1>2, <1>5, <1>1, UndoneTwice DEF ProtectionInv, GrantStepOK, GrantsOK, GrantStep,
     GrantOK
<1>6. QED
  BY <1>1, <1>2, <1>3, <1>4, <1>5, GrantsEnd

LEMMA ForgetScopedKeeps == ASSUME ProtectionInv, ForgetScoped PROVE ProtectionInv'
<1> USE ProtectionAssumption
<1>1. ProtectionTypes'
  BY CountsUp, NoCallType DEF ProtectionInv, ForgetScoped, NextAgent, ProtectionTypes,
     Histories, CallRecords, GuardRecords
<1>2. StepKnown'
  BY DEF ProtectionInv, ForgetScoped, NextAgent, StepKnown, Me, ProtectionTypes, CallRecords, NoCall
<1>3. TakenOK'
  BY DEF ProtectionInv, ForgetScoped, NextAgent, TakenOK, ProtectionTypes, CallRecords, Histories, GuardRecords, Me, NoCall
<1>4. GroupsOK'
  BY DEF ProtectionInv, ForgetScoped, NextAgent, GroupsOK, StepKnown, ProtectionTypes, CallRecords, Histories, Me, NoCall
<1>5. RevertOK'
  BY DEF ProtectionInv, ForgetScoped, NextAgent, RevertOK, StepKnown, ProtectionTypes, CallRecords, Histories, GuardRecords, Me, OnRecord, NoCall
<1>6. GrantsOK'
  <2>1. /\ guardRecord' = [guardRecord EXCEPT !.scoped = @ \ {Me}] /\ guardRecord \in GuardRecords
        /\ UNCHANGED <<held, wanted>> /\ rulesCall.at = "granted" /\ rulesCall.kind = "reconcile"
        /\ rulesCall'.kind = "reconcile"
    BY DEF ProtectionInv, ProtectionTypes, StepKnown, ForgetScoped, NextAgent, CallRecords
  <2>2. /\ guardRecord'.scoped = guardRecord.scoped \ {Me} /\ guardRecord'.broad = guardRecord.broad
        /\ guardRecord'.given = guardRecord.given
    BY <2>1 DEF GuardRecords
  <2>3. ASSUME NEW a \in Agents \ wanted.crossed PROVE GrantOK(a)'
    <3>1. GrantOK(a) /\ (a = Me => "team" \notin held[a])
      BY <2>1, <2>3 DEF ProtectionInv, GrantsOK, GrantStepOK, GrantStep
    <3>2. Undone(guardRecord', a, held[a]) = Undone(guardRecord, a, held[a])
      BY <2>2, <3>1 DEF Undone
    <3>3. QED
      BY <2>1, <3>1, <3>2 DEF GrantOK
  <2>4. QED
    BY <2>1, <2>3 DEF GrantsOK
<1>7. PoliciesOK'
  <2>1. guardRecord'.protected = guardRecord.protected /\ UNCHANGED <<policy, wanted>>
        /\ rulesCall'.kind = rulesCall.kind /\ rulesCall'.rest = rulesCall.rest
    BY DEF ProtectionInv, ProtectionTypes, ForgetScoped, NextAgent, CallRecords, GuardRecords
  <2>2. QED
    BY <2>1 DEF ProtectionInv, PoliciesOK, PolicyOK, Reopened
<1>8. GrantStepOK'
  BY DEF ProtectionInv, ForgetScoped, NextAgent, GrantStepOK, GrantStep, StepKnown, ProtectionTypes, CallRecords, Histories, Me, Manages, NoCall
<1>9. PolicyStepOK'
  BY DEF ProtectionInv, ForgetScoped, NextAgent, PolicyStepOK, PolicyStep, StepKnown, ProtectionTypes, CallRecords, Histories, Me, NoCall
<1>10. TakenAwayStays'
  BY DEF ProtectionInv, ForgetScoped, NextAgent, TakenAwayStays, ProtectionTypes, CallRecords, Histories
<1>11. GroupsOutlastTheRules'
  BY DEF ProtectionInv, ForgetScoped, NextAgent, GroupsOutlastTheRules, ProtectionTypes, CallRecords, Histories
<1>12. QED
  BY <1>1, <1>2, <1>3, <1>4, <1>5, <1>6, <1>7, <1>8, <1>9, <1>10, <1>11 DEF ProtectionInv

LEMMA StartLiftingKeeps == ASSUME ProtectionInv, StartLifting PROVE ProtectionInv'
<1> USE ProtectionAssumption
<1>1. ProtectionTypes'
  BY CountsUp, NoCallType DEF ProtectionInv, StartLifting, Underway, ProtectionTypes,
     Histories, CallRecords, GuardRecords
<1>2. StepKnown'
  BY DEF ProtectionInv, StartLifting, Underway, StepKnown, Me, ProtectionTypes, CallRecords, NoCall
<1>3. TakenOK'
  BY DEF ProtectionInv, StartLifting, Underway, TakenOK, ProtectionTypes, CallRecords, Histories, GuardRecords, Me, NoCall
<1>4. GroupsOK'
  BY DEF ProtectionInv, StartLifting, Underway, GroupsOK, StepKnown, ProtectionTypes, CallRecords, Histories, Me, NoCall
<1>5. RevertOK'
  BY ZenonT(40) DEF ProtectionInv, StartLifting, Underway, RevertOK, StepKnown, ProtectionTypes, CallRecords, Histories, GuardRecords, Me, OnRecord, NoCall
<1>6. GrantsOK'
  BY DEF ProtectionInv, StartLifting, Underway, GrantsOK, GrantOK, ProtectionTypes, CallRecords, Histories, NoCall
<1>7. PoliciesOK'
  BY DEF ProtectionInv, StartLifting, Underway, PoliciesOK, PolicyOK, ProtectionTypes, CallRecords, Histories, NoCall
<1>8. GrantStepOK'
  BY DEF ProtectionInv, StartLifting, Underway, GrantStepOK, GrantStep, StepKnown, ProtectionTypes, CallRecords, Histories, Me, Manages, NoCall
<1>9. PolicyStepOK'
  BY DEF ProtectionInv, StartLifting, Underway, PolicyStepOK, PolicyStep, StepKnown, ProtectionTypes, CallRecords, Histories, Me, NoCall
<1>10. TakenAwayStays'
  BY DEF ProtectionInv, StartLifting, Underway, TakenAwayStays, ProtectionTypes, CallRecords, Histories
<1>11. GroupsOutlastTheRules'
  BY DEF ProtectionInv, StartLifting, Underway, GroupsOutlastTheRules, ProtectionTypes, CallRecords, Histories
<1>12. QED
  BY <1>1, <1>2, <1>3, <1>4, <1>5, <1>6, <1>7, <1>8, <1>9, <1>10, <1>11 DEF ProtectionInv

LEMMA EndCallKeeps == ASSUME ProtectionInv, EndCall PROVE ProtectionInv'
<1> USE ProtectionAssumption
<1>1. ProtectionTypes'
  <2>1. wanted' \in Histories
    BY CountsUp, ZenonT(40) DEF ProtectionInv, EndCall, EndsClean, ProtectionTypes, Histories
  <2>2. rulesCall' \in CallRecords
    BY NoCallType DEF ProtectionInv, EndCall, EndsClean, ProtectionTypes, CallRecords, GuardRecords
  <2>3. guardRecord' \in GuardRecords
    BY DEF ProtectionInv, EndCall, EndsClean, ProtectionTypes, GuardRecords, CallRecords
  <2>4. QED
    BY <2>1, <2>2, <2>3 DEF ProtectionInv, EndCall, EndsClean, ProtectionTypes, CallRecords
<1>2. StepKnown'
  BY DEF ProtectionInv, EndCall, EndsClean, StepKnown, Me, ProtectionTypes, CallRecords, NoCall
<1>3. TakenOK'
  BY DEF ProtectionInv, EndCall, EndsClean, TakenOK, ProtectionTypes, CallRecords, Histories, GuardRecords, Me, NoCall
<1>4. GroupsOK'
  BY DEF ProtectionInv, EndCall, EndsClean, GroupsOK, StepKnown, ProtectionTypes, CallRecords, Histories, Me, NoCall
<1>5. RevertOK'
  <2>1. /\ rulesCall' = NoCall /\ rulesCall.at = "agent" /\ rulesCall.todo = {} /\ rulesCall.kind # "apply"
        /\ guardRecord' = IF rulesCall.kind = "revert" THEN rulesCall.rest ELSE guardRecord
        /\ wanted'.off = IF rulesCall.kind = "lift" THEN wanted.off ELSE EndsClean("revert")
        /\ NoCall.kind = "none"
    BY DEF ProtectionInv, ProtectionTypes, EndCall, Histories, NoCall
  <2>2. CASE rulesCall.kind = "revert"
    <3>1. rulesCall.rest \in GuardRecords /\ Me = NoAgent
      BY <2>1 DEF ProtectionInv, ProtectionTypes, StepKnown, CallRecords
    <3>2. OnRecord(rulesCall.rest) \in SUBSET Agents
      BY <3>1, OnRecordType
    <3>3. wanted'.off => OnRecord(rulesCall.rest) \subseteq rulesCall.todo \cup {Me}
      BY <2>1, <2>2 DEF ProtectionInv, RevertOK, EndsClean
    <3>4. wanted'.off => OnRecord(rulesCall.rest) = {}
      BY <2>1, <3>1, <3>2, <3>3
    <3>5. QED
      BY <2>1, <2>2, <3>4 DEF RevertOK
  <2>3. CASE rulesCall.kind # "revert"
    BY <2>1, <2>3 DEF ProtectionInv, RevertOK, EndsClean
  <2>4. QED
    BY <2>2, <2>3
<1>6. GrantsOK'
  BY DEF ProtectionInv, EndCall, EndsClean, GrantsOK, GrantOK, ProtectionTypes, CallRecords, Histories, NoCall
<1>7. PoliciesOK'
  BY DEF ProtectionInv, EndCall, EndsClean, PoliciesOK, PolicyOK, ProtectionTypes, CallRecords, Histories, NoCall
<1>8. GrantStepOK'
  BY DEF ProtectionInv, EndCall, EndsClean, GrantStepOK, GrantStep, StepKnown, ProtectionTypes, CallRecords, Histories, Me, Manages, NoCall
<1>9. PolicyStepOK'
  BY DEF ProtectionInv, EndCall, EndsClean, PolicyStepOK, PolicyStep, StepKnown, ProtectionTypes, CallRecords, Histories, Me, NoCall
<1>10. TakenAwayStays'
  BY DEF ProtectionInv, EndCall, EndsClean, TakenAwayStays, ProtectionTypes, CallRecords, Histories
<1>11. GroupsOutlastTheRules'
  BY DEF ProtectionInv, EndCall, EndsClean, GroupsOutlastTheRules, ProtectionTypes, CallRecords, Histories
<1>12. QED
  BY <1>1, <1>2, <1>3, <1>4, <1>5, <1>6, <1>7, <1>8, <1>9, <1>10, <1>11 DEF ProtectionInv

LEMMA StepFailsKeeps == ASSUME ProtectionInv, StepFails PROVE ProtectionInv'
<1> USE ProtectionAssumption
<1>a. /\ guardRecord \in GuardRecords /\ held \in [Agents -> SUBSET Grants] /\ wanted \in Histories
      /\ rulesCall \in CallRecords /\ policy \in [Agents -> Policies]
  BY DEF ProtectionInv, ProtectionTypes
<1>b. /\ UNCHANGED <<team, guardRecord, groupRecord, restricted>>
      /\ wanted'.held = wanted.held /\ wanted'.policy = wanted.policy /\ wanted'.taken = wanted.taken
      /\ wanted'.crossed = wanted.crossed /\ wanted'.grouped = wanted.grouped
      /\ wanted'.secured = wanted.secured
  BY <1>a DEF StepFails, Histories
<1>c. \/ rulesCall'.kind = "none"
      \/ rulesCall'.kind = rulesCall.kind /\ rulesCall'.rest = rulesCall.rest
  BY <1>a DEF StepFails, NoCall, CallRecords
<1>d. ASSUME rulesCall.at \in {"protect", "release", "grant"}
      PROVE  Me \in Agents /\ rulesCall.next \in SUBSET Grants
  BY <1>a, <1>d DEF ProtectionInv, StepKnown, Me, CallRecords
\* What the failed call may have done all the same.
<1>e. /\ policy' \in [Agents -> Policies]
      /\ \A a \in Agents : policy'[a] = policy[a] \/
           /\ a = Me /\ rulesCall.at \in {"protect", "release"}
           /\ policy'[a] = IF rulesCall.at = "protect" THEN "protected" ELSE "open"
  BY <1>a, <1>d DEF StepFails, Written, Policies
<1>f. /\ held' \in [Agents -> SUBSET Grants]
      /\ \A a \in Agents : held'[a] = held[a] \/ (a = Me /\ rulesCall.at = "grant" /\ held'[a] = rulesCall.next)
  BY <1>a, <1>d DEF StepFails
<1>1. ProtectionTypes'
  <2>1. wanted' \in Histories
    BY CountsUp DEF ProtectionInv, StepFails, Idle, Written, ProtectionTypes, Histories
  <2>2. rulesCall' \in CallRecords
    BY NoCallType, ZenonT(40) DEF ProtectionInv, StepFails, Idle, Written, ProtectionTypes, CallRecords, GuardRecords
  <2>3. guardRecord' \in GuardRecords
    BY DEF ProtectionInv, StepFails, Idle, Written, ProtectionTypes, GuardRecords, CallRecords
  <2>4. QED
    BY <1>b, <1>e, <1>f, <2>1, <2>2, <2>3 DEF ProtectionInv, ProtectionTypes
<1>2. StepKnown'
  BY DEF ProtectionInv, StepFails, Idle, Written, StepKnown, Me, ProtectionTypes, CallRecords, NoCall
<1>3. TakenOK'
  BY DEF ProtectionInv, StepFails, Idle, Written, TakenOK, ProtectionTypes, CallRecords, Histories, GuardRecords, Me, NoCall
<1>4. GroupsOK'
  BY DEF ProtectionInv, StepFails, Idle, Written, GroupsOK, StepKnown, ProtectionTypes, CallRecords, Histories, Me, NoCall
<1>5. RevertOK'
  BY DEF ProtectionInv, StepFails, Idle, Written, RevertOK, StepKnown, ProtectionTypes, CallRecords, Histories, GuardRecords, Me, OnRecord, NoCall
<1>6. GrantsOK'
  <2>1. ASSUME NEW a \in Agents \ wanted.crossed PROVE GrantOK(a)'
    <3>1. GrantOK(a)
      BY <2>1 DEF ProtectionInv, GrantsOK
    <3>2. CASE held'[a] = held[a]
      BY <1>b, <1>c, <3>1, <3>2 DEF GrantOK
    <3>3. CASE a = Me /\ rulesCall.at = "grant" /\ held'[a] = rulesCall.next
      <4>1. GrantStep /\ rulesCall.kind \in {"reconcile", "revert"}
        BY <2>1, <3>3 DEF ProtectionInv, GrantStepOK, StepKnown
      <4>2. Undone(guardRecord, a, Undone(guardRecord, a, held[a])) = Undone(guardRecord, a, held[a])
        BY <1>a, <2>1, UndoneTwice
      <4>3. wanted.held[a] = Undone(guardRecord, a, rulesCall.next)
        BY <3>1, <3>3, <4>1, <4>2 DEF GrantStep, GrantOK
      <4>4. ASSUME rulesCall.kind = "revert" PROVE wanted.held[a] = Undone(rulesCall.rest, a, rulesCall.next)
        <5>1. rulesCall.rest \in GuardRecords
          BY <1>a DEF CallRecords
        <5>2. Undone(rulesCall.rest, a, Undone(rulesCall.rest, a, held[a])) = Undone(rulesCall.rest, a, held[a])
          BY <1>a, <2>1, <5>1, UndoneTwice
        <5>3. QED
          BY <3>1, <3>3, <4>1, <4>4, <5>2 DEF GrantStep, GrantOK
      <4>5. QED
        BY <1>b, <1>c, <3>3, <4>3, <4>4 DEF GrantOK
    <3>4. QED
      BY <1>f, <2>1, <3>2, <3>3
  <2>2. QED
    BY <1>b, <2>1 DEF GrantsOK
<1>7. PoliciesOK'
  <2>1. ASSUME NEW a \in Agents \ (wanted.crossed \cup wanted.grouped) PROVE PolicyOK(a)'
    BY <2>1, <1>b, <1>c, <1>e DEF ProtectionInv, PoliciesOK, PolicyOK, PolicyStepOK,
       StepKnown, PolicyStep, Reopened
  <2>2. QED
    BY <1>b, <2>1 DEF PoliciesOK
<1>8. GrantStepOK'
  BY DEF ProtectionInv, StepFails, Idle, Written, GrantStepOK, GrantStep, StepKnown, ProtectionTypes, CallRecords, Histories, Me, Manages, NoCall
<1>9. PolicyStepOK'
  BY DEF ProtectionInv, StepFails, Idle, Written, PolicyStepOK, PolicyStep, StepKnown, ProtectionTypes, CallRecords, Histories, Me, NoCall
<1>10. TakenAwayStays'
  BY <1>b, <1>f DEF ProtectionInv, GrantStepOK, GrantStep, TakenAwayStays
<1>11. GroupsOutlastTheRules'
  BY <1>a, <1>b, <1>e DEF ProtectionInv, GroupsOK, StepKnown, Histories,
     GroupsOutlastTheRules
<1>12. QED
  BY <1>1, <1>2, <1>3, <1>4, <1>5, <1>6, <1>7, <1>8, <1>9, <1>10, <1>11 DEF ProtectionInv

LEMMA WorkerStopsKeeps == ASSUME ProtectionInv, WorkerStops PROVE ProtectionInv'
<1> USE ProtectionAssumption
<1>1. ProtectionTypes'
  BY CountsUp, NoCallType DEF ProtectionInv, WorkerStops, Idle, ProtectionTypes, Histories,
     CallRecords, GuardRecords
<1>2. StepKnown'
  BY DEF ProtectionInv, WorkerStops, Idle, StepKnown, Me, ProtectionTypes, CallRecords, NoCall
<1>3. TakenOK'
  BY DEF ProtectionInv, WorkerStops, Idle, TakenOK, ProtectionTypes, CallRecords, Histories, GuardRecords, Me, NoCall
<1>4. GroupsOK'
  BY DEF ProtectionInv, WorkerStops, Idle, GroupsOK, StepKnown, ProtectionTypes, CallRecords, Histories, Me, NoCall
<1>5. RevertOK'
  BY DEF ProtectionInv, WorkerStops, Idle, RevertOK, StepKnown, ProtectionTypes, CallRecords, Histories, GuardRecords, Me, OnRecord, NoCall
<1>6. GrantsOK'
  BY DEF ProtectionInv, WorkerStops, Idle, GrantsOK, GrantOK, ProtectionTypes, CallRecords, Histories, NoCall
<1>7. PoliciesOK'
  BY DEF ProtectionInv, WorkerStops, Idle, PoliciesOK, PolicyOK, ProtectionTypes, CallRecords, Histories, NoCall
<1>8. GrantStepOK'
  BY DEF ProtectionInv, WorkerStops, Idle, GrantStepOK, GrantStep, StepKnown, ProtectionTypes, CallRecords, Histories, Me, Manages, NoCall
<1>9. PolicyStepOK'
  BY DEF ProtectionInv, WorkerStops, Idle, PolicyStepOK, PolicyStep, StepKnown, ProtectionTypes, CallRecords, Histories, Me, NoCall
<1>10. TakenAwayStays'
  BY DEF ProtectionInv, WorkerStops, Idle, TakenAwayStays, ProtectionTypes, CallRecords, Histories
<1>11. GroupsOutlastTheRules'
  BY DEF ProtectionInv, WorkerStops, Idle, GroupsOutlastTheRules, ProtectionTypes, CallRecords, Histories
<1>12. QED
  BY <1>1, <1>2, <1>3, <1>4, <1>5, <1>6, <1>7, <1>8, <1>9, <1>10, <1>11 DEF ProtectionInv

LEMMA TeamChangesKeeps == ASSUME ProtectionInv, TeamChanges PROVE ProtectionInv'
<1> USE ProtectionAssumption
<1>1. ProtectionTypes'
  <2>1. wanted' \in Histories
    BY CountsUp DEF ProtectionInv, TeamChanges, ProtectionTypes, Histories
  <2>2. rulesCall' \in CallRecords
    BY NoCallType DEF ProtectionInv, TeamChanges, ProtectionTypes, CallRecords, GuardRecords
  <2>3. guardRecord' \in GuardRecords
    BY DEF ProtectionInv, TeamChanges, ProtectionTypes, GuardRecords, CallRecords
  <2>4. QED
    BY <2>1, <2>2, <2>3 DEF ProtectionInv, TeamChanges, ProtectionTypes, CallRecords
<1>2. StepKnown'
  BY DEF ProtectionInv, TeamChanges, StepKnown, Me, ProtectionTypes, CallRecords, NoCall
<1>3. TakenOK'
  BY DEF ProtectionInv, TeamChanges, TakenOK, ProtectionTypes, CallRecords, Histories, GuardRecords, Me, NoCall
<1>4. GroupsOK'
  BY DEF ProtectionInv, TeamChanges, GroupsOK, StepKnown, ProtectionTypes, CallRecords, Histories, Me, NoCall
<1>5. RevertOK'
  BY DEF ProtectionInv, TeamChanges, RevertOK, StepKnown, ProtectionTypes, CallRecords, Histories, GuardRecords, Me, OnRecord, NoCall
<1>6. GrantsOK'
  BY DEF ProtectionInv, TeamChanges, GrantsOK, GrantOK, ProtectionTypes, CallRecords, Histories, NoCall
<1>7. PoliciesOK'
  BY DEF ProtectionInv, TeamChanges, PoliciesOK, PolicyOK, ProtectionTypes, CallRecords, Histories, NoCall
<1>8. GrantStepOK'
  BY DEF ProtectionInv, TeamChanges, GrantStepOK, GrantStep, StepKnown, ProtectionTypes, CallRecords, Histories, Me, Manages, NoCall
<1>9. PolicyStepOK'
  BY DEF ProtectionInv, TeamChanges, PolicyStepOK, PolicyStep, StepKnown, ProtectionTypes, CallRecords, Histories, Me, NoCall
<1>10. TakenAwayStays'
  BY DEF ProtectionInv, TeamChanges, TakenAwayStays, ProtectionTypes, CallRecords, Histories
<1>11. GroupsOutlastTheRules'
  BY DEF ProtectionInv, TeamChanges, GroupsOutlastTheRules, ProtectionTypes, CallRecords, Histories
<1>12. QED
  BY <1>1, <1>2, <1>3, <1>4, <1>5, <1>6, <1>7, <1>8, <1>9, <1>10, <1>11 DEF ProtectionInv

LEMMA GroupsChangeKeeps == ASSUME ProtectionInv, GroupsChange PROVE ProtectionInv'
<1> USE ProtectionAssumption
<1>1. ProtectionTypes'
  <2>1. wanted' \in Histories
    BY CountsUp DEF ProtectionInv, GroupsChange, ProtectionTypes, Histories
  <2>2. rulesCall' \in CallRecords
    BY NoCallType DEF ProtectionInv, GroupsChange, ProtectionTypes, CallRecords, GuardRecords
  <2>3. guardRecord' \in GuardRecords
    BY DEF ProtectionInv, GroupsChange, ProtectionTypes, GuardRecords, CallRecords
  <2>4. QED
    BY <2>1, <2>2, <2>3 DEF ProtectionInv, GroupsChange, ProtectionTypes, CallRecords
<1>2. StepKnown'
  BY DEF ProtectionInv, GroupsChange, StepKnown, Me, ProtectionTypes, CallRecords, NoCall
<1>3. TakenOK'
  BY DEF ProtectionInv, GroupsChange, TakenOK, ProtectionTypes, CallRecords, Histories, GuardRecords, Me, NoCall
<1>4. GroupsOK'
  BY DEF ProtectionInv, GroupsChange, GroupsOK, StepKnown, ProtectionTypes, CallRecords, Histories, Me, NoCall
<1>5. RevertOK'
  BY DEF ProtectionInv, GroupsChange, RevertOK, StepKnown, ProtectionTypes, CallRecords, Histories, GuardRecords, Me, OnRecord, NoCall
<1>6. GrantsOK'
  BY DEF ProtectionInv, GroupsChange, GrantsOK, GrantOK, ProtectionTypes, CallRecords, Histories, NoCall
<1>7. PoliciesOK'
  BY DEF ProtectionInv, GroupsChange, PoliciesOK, PolicyOK, ProtectionTypes, CallRecords, Histories, NoCall
<1>8. GrantStepOK'
  BY DEF ProtectionInv, GroupsChange, GrantStepOK, GrantStep, StepKnown, ProtectionTypes, CallRecords, Histories, Me, Manages, NoCall
<1>9. PolicyStepOK'
  BY DEF ProtectionInv, GroupsChange, PolicyStepOK, PolicyStep, StepKnown, ProtectionTypes, CallRecords, Histories, Me, NoCall
<1>10. TakenAwayStays'
  BY DEF ProtectionInv, GroupsChange, TakenAwayStays, ProtectionTypes, CallRecords, Histories
<1>11. GroupsOutlastTheRules'
  BY DEF ProtectionInv, GroupsChange, GroupsOutlastTheRules, ProtectionTypes, CallRecords, Histories
<1>12. QED
  BY <1>1, <1>2, <1>3, <1>4, <1>5, <1>6, <1>7, <1>8, <1>9, <1>10, <1>11 DEF ProtectionInv

LEMMA EditsPolicyKeeps == ASSUME NEW a \in Agents, NEW p \in Policies, ProtectionInv, EditsPolicy(a, p) PROVE ProtectionInv'
<1> USE ProtectionAssumption
<1> DEFINE P == IF p = "protected" /\ a \in guardRecord.protected \cup groupRecord.protected THEN "open" ELSE p
           X == Crossed(a)
<1>a. /\ P \in Policies /\ X \in SUBSET Agents /\ wanted.crossed \subseteq X
      /\ rulesCall.kind = "revert" => a \in X
      /\ Me = a => a \in X
  BY DEF ProtectionInv, ProtectionTypes, StepKnown, Crossed, Idle, Histories, Policies, Me
<1>b. /\ wanted' = [wanted EXCEPT !.events = @ + 1, !.secured = @ \ {a}, !.crossed = X, !.policy[a] = P]
      /\ wanted \in Histories /\ policy \in [Agents -> Policies] /\ policy' = [policy EXCEPT ![a] = p]
      /\ UNCHANGED <<held, guardRecord, rulesCall>>
  BY DEF ProtectionInv, ProtectionTypes, EditsPolicy
<1> HIDE DEF P, X
<1>c. /\ wanted' \in Histories /\ wanted'.policy = [wanted.policy EXCEPT ![a] = P] /\ wanted'.crossed = X
      /\ wanted'.held = wanted.held /\ wanted'.grouped = wanted.grouped
  BY <1>a, <1>b, CountsUp DEF ProtectionInv, Histories
<1>1. ProtectionTypes'
  BY <1>c, NoCallType DEF ProtectionInv, EditsPolicy, Crossed, Idle, ProtectionTypes,
     CallRecords, GuardRecords
<1>2. StepKnown'
  BY DEF ProtectionInv, EditsPolicy, Crossed, Idle, StepKnown, Me, ProtectionTypes, CallRecords, NoCall
<1>3. TakenOK'
  BY DEF ProtectionInv, EditsPolicy, Crossed, Idle, TakenOK, ProtectionTypes, CallRecords, Histories, GuardRecords, Me, NoCall
<1>4. GroupsOK'
  BY DEF ProtectionInv, EditsPolicy, Crossed, Idle, GroupsOK, StepKnown, ProtectionTypes, CallRecords, Histories, Me, NoCall
<1>5. RevertOK'
  BY DEF ProtectionInv, EditsPolicy, Crossed, Idle, RevertOK, StepKnown, ProtectionTypes, CallRecords, Histories, GuardRecords, Me, OnRecord, NoCall
<1>6. GrantsOK'
  BY DEF ProtectionInv, EditsPolicy, Crossed, Idle, GrantsOK, GrantOK, ProtectionTypes, CallRecords, Histories, NoCall
<1>7. PoliciesOK'
  <2>1. ASSUME NEW b \in Agents \ (wanted'.crossed \cup wanted'.grouped) PROVE PolicyOK(b)'
    <3>1. PolicyOK(b) /\ b \notin X /\ b \notin groupRecord.protected
      BY <1>a, <1>c, <2>1 DEF ProtectionInv, PoliciesOK, GroupsOK
    <3>2. CASE b = a
      <4>1. wanted'.policy[b] = P /\ policy'[b] = p
        BY <1>b, <1>c, <3>2, ZenonT(40) DEF Histories
      <4>2. rulesCall'.kind # "revert" /\ guardRecord' = guardRecord
        BY <1>a, <1>b, <3>1, <3>2
      <4>3. P = Reopened(guardRecord, b, p)
        BY <3>1, <3>2 DEF P, Reopened
      <4>4. QED
        BY <4>1, <4>2, <4>3 DEF PolicyOK
    <3>3. CASE b # a
      <4>1. wanted'.policy[b] = wanted.policy[b] /\ policy'[b] = policy[b]
        BY <1>b, <1>c, <2>1, <3>3, ZenonT(40) DEF Histories
      <4>2. QED
        BY <1>b, <3>1, <4>1 DEF PolicyOK
    <3>4. QED
      BY <3>2, <3>3
  <2>2. QED
    BY <2>1 DEF PoliciesOK
<1>8. GrantStepOK'
  BY DEF ProtectionInv, EditsPolicy, Crossed, Idle, GrantStepOK, GrantStep, StepKnown, ProtectionTypes, CallRecords, Histories, Me, Manages, NoCall
<1>9. PolicyStepOK'
  BY DEF ProtectionInv, EditsPolicy, Crossed, Idle, PolicyStepOK, PolicyStep, StepKnown, ProtectionTypes, CallRecords, Histories, Me, NoCall
<1>10. TakenAwayStays'
  BY DEF ProtectionInv, EditsPolicy, Crossed, Idle, TakenAwayStays, ProtectionTypes, CallRecords, Histories
<1>11. GroupsOutlastTheRules'
  BY DEF ProtectionInv, EditsPolicy, Crossed, Idle, GroupsOutlastTheRules, ProtectionTypes, CallRecords, Histories
<1>12. QED
  BY <1>1, <1>2, <1>3, <1>4, <1>5, <1>6, <1>7, <1>8, <1>9, <1>10, <1>11 DEF ProtectionInv

LEMMA EditsGrantKeeps == ASSUME NEW a \in Agents, NEW g \in Grants, ProtectionInv, EditsGrant(a, g) PROVE ProtectionInv'
<1> USE ProtectionAssumption
<1> DEFINE T == IF g \in held[a] THEN held[a] \ {g} ELSE held[a] \cup {g}
           H == IF Recorded(a, g) THEN wanted.held[a] ELSE (T \cap {g}) \cup (wanted.held[a] \ {g})
           K == IF g \in held[a] /\ a \in wanted.tops THEN wanted.taken[a] \cup ({g} \cap ChangeKeys)
                ELSE wanted.taken[a] \ {g}
           X == Crossed(a)
<1>a. /\ wanted \in Histories /\ held \in [Agents -> SUBSET Grants] /\ guardRecord \in GuardRecords
      /\ UNCHANGED <<policy, guardRecord, rulesCall>>
      /\ wanted.held[a] \in SUBSET Grants /\ held[a] \in SUBSET Grants
  BY DEF ProtectionInv, ProtectionTypes, EditsGrant, Histories
<1>b. /\ X \in SUBSET Agents /\ wanted.crossed \subseteq X
      /\ rulesCall.kind = "revert" => a \in X
      /\ Me = a => a \in X
  BY DEF ProtectionInv, ProtectionTypes, StepKnown, Crossed, Idle, Histories, Me
<1>c. T \in SUBSET Grants /\ H \in SUBSET Grants /\ K \in SUBSET ChangeKeys
  BY <1>a DEF Histories
<1>d. held' = [held EXCEPT ![a] = T]
  BY DEF EditsGrant
<1>e. held' \in [Agents -> SUBSET Grants] /\ held'[a] = T /\ \A b \in Agents \ {a} : held'[b] = held[b]
  BY <1>a, <1>c, <1>d
<1>f. wanted' = [wanted EXCEPT !.events = @ + 1, !.crossed = X, !.held[a] = H, !.taken[a] = K]
  BY <1>e DEF EditsGrant
<1> HIDE DEF T, H, K, X
<1>g. /\ wanted' \in Histories /\ wanted'.held = [wanted.held EXCEPT ![a] = H] /\ wanted'.crossed = X
      /\ wanted'.taken = [wanted.taken EXCEPT ![a] = K] /\ wanted'.tops = wanted.tops
      /\ wanted'.policy = wanted.policy /\ wanted'.grouped = wanted.grouped
  BY <1>a, <1>b, <1>c, <1>f, CountsUp DEF ProtectionInv, Histories
<1>1. ProtectionTypes'
  <2>1. wanted' \in Histories
    BY <1>g
  <2>2. rulesCall' \in CallRecords
    BY NoCallType DEF ProtectionInv, EditsGrant, Crossed, Idle, Recorded, ProtectionTypes, CallRecords, GuardRecords
  <2>3. guardRecord' \in GuardRecords
    BY DEF ProtectionInv, EditsGrant, Crossed, Idle, Recorded, ProtectionTypes, GuardRecords, CallRecords
  <2>4. QED
    BY <2>1, <2>2, <2>3 DEF ProtectionInv, EditsGrant, Crossed, Idle, Recorded, ProtectionTypes, CallRecords
<1>2. StepKnown'
  BY DEF ProtectionInv, EditsGrant, Crossed, Idle, Recorded, StepKnown, Me, ProtectionTypes, CallRecords, NoCall
<1>3. TakenOK'
  BY DEF ProtectionInv, EditsGrant, Crossed, Idle, Recorded, TakenOK, ProtectionTypes, CallRecords, Histories, GuardRecords, Me, NoCall
<1>4. GroupsOK'
  BY DEF ProtectionInv, EditsGrant, Crossed, Idle, Recorded, GroupsOK, StepKnown, ProtectionTypes, CallRecords, Histories, Me, NoCall
<1>5. RevertOK'
  BY ZenonT(40) DEF ProtectionInv, EditsGrant, Crossed, Idle, Recorded, RevertOK, StepKnown, ProtectionTypes, CallRecords, Histories, GuardRecords, Me, OnRecord, NoCall
<1>6. GrantsOK'
  <2>1. ASSUME NEW b \in Agents \ wanted'.crossed PROVE GrantOK(b)'
    <3>1. GrantOK(b) /\ b \notin X
      BY <1>b, <1>g, <2>1 DEF ProtectionInv, GrantsOK
    <3>2. CASE b = a
      <4>1. wanted'.held[b] = H /\ held'[b] = T
        BY <1>a, <1>e, <1>g, <3>2 DEF Histories
      <4>2. rulesCall'.kind # "revert" /\ guardRecord' = guardRecord
        BY <1>a, <1>b, <3>1, <3>2
      <4>3. \A x \in Grants \ {g} : x \in T <=> x \in held[a]
        BY DEF T
      <4>4. H = Undone(guardRecord, a, T)
        <5>1. CASE Recorded(a, g)
          <6>1. Undone(guardRecord, a, T) = Undone(guardRecord, a, held[a])
            BY <1>a, <1>c, <4>3, <5>1, UndoneUnseen
          <6>2. QED
            BY <3>1, <3>2, <5>1, <6>1 DEF H, GrantOK
        <5>2. CASE ~Recorded(a, g)
          <6>1. Undone(guardRecord, a, T) = (T \cap {g}) \cup (Undone(guardRecord, a, held[a]) \ {g})
            BY <1>a, <1>c, <4>3, <5>2, UndoneSeen, ZenonT(40)
          <6>2. QED
            BY <3>1, <3>2, <5>2, <6>1 DEF H, GrantOK
        <5>3. QED
          BY <5>1, <5>2
      <4>5. QED
        BY <3>2, <4>1, <4>2, <4>4 DEF GrantOK
    <3>3. CASE b # a
      BY <1>a, <1>e, <1>g, <2>1, <3>3, <3>1 DEF Histories, GrantOK
    <3>4. QED
      BY <3>2, <3>3
  <2>2. QED
    BY <2>1 DEF GrantsOK
<1>7. PoliciesOK'
  BY DEF ProtectionInv, EditsGrant, Crossed, Idle, Recorded, PoliciesOK, PolicyOK, ProtectionTypes, CallRecords, Histories, NoCall
<1>8. GrantStepOK'
  BY ZenonT(40) DEF ProtectionInv, EditsGrant, Crossed, Idle, Recorded, GrantStepOK, GrantStep, StepKnown, ProtectionTypes, CallRecords, Histories, Me, Manages, NoCall
<1>9. PolicyStepOK'
  BY DEF ProtectionInv, EditsGrant, Crossed, Idle, Recorded, PolicyStepOK, PolicyStep, StepKnown, ProtectionTypes, CallRecords, Histories, Me, NoCall
<1>10. TakenAwayStays'
  BY DEF ProtectionInv, EditsGrant, Crossed, Idle, Recorded, TakenAwayStays, ProtectionTypes, CallRecords, Histories
<1>11. GroupsOutlastTheRules'
  BY DEF ProtectionInv, EditsGrant, Crossed, Idle, Recorded, GroupsOutlastTheRules, ProtectionTypes, CallRecords, Histories
<1>12. QED
  BY <1>1, <1>2, <1>3, <1>4, <1>5, <1>6, <1>7, <1>8, <1>9, <1>10, <1>11 DEF ProtectionInv

LEMMA ProtectionStarts == ASSUME ProtectionInit PROVE ProtectionInv
<1> USE ProtectionAssumption
<1>1. /\ NoCall.rest \in GuardRecords /\ NoCall.kind = "none" /\ NoCall.at = "idle" /\ NoCall.agent = NoAgent
      /\ NoCall.todo = {} /\ NoCall.rest.protected = {} /\ NoCall.rest.scoped = {} /\ NoCall.rest.broad = {}
      /\ NoCall.rest.given = [a \in Agents |-> NotAsked]
  BY DEF NoCall, GuardRecords
<1>2. /\ policy = [a \in Agents |-> "open"] /\ policy \in [Agents -> Policies]
      /\ held \in [Agents -> SUBSET Grants]
  <2>1. PICK g \in {{"broad"}, {"broad"} \cup ChangeKeys} : held = [a \in Agents |-> g]
    BY DEF ProtectionInit
  <2>2. g \in SUBSET Grants
    BY DEF Grants
  <2>3. QED
    BY <2>1, <2>2 DEF ProtectionInit, Policies
<1>3. wanted = [policy |-> policy, held |-> held, taken |-> [a \in Agents |-> {}], tops |-> {}, secured |-> {},
                grouped |-> restricted, crossed |-> {}, off |-> FALSE, calls |-> 0, events |-> 0]
  BY DEF ProtectionInit
<1>4. /\ guardRecord = NoCall.rest /\ groupRecord = [protected |-> {}, required |-> {}]
      /\ rulesCall = NoCall /\ team \in Teams /\ restricted \in SUBSET Agents
  BY DEF ProtectionInit
<1>5. ProtectionTypes
  BY <1>2, <1>3, <1>4, <1>1 DEF Histories, NoCall, CallRecords, ProtectionTypes
<1>6. StepKnown
  BY <1>1, <1>4 DEF StepKnown, Me
<1>7. TakenOK
  BY <1>1, <1>3, <1>4 DEF TakenOK
<1>8. GroupsOK
  BY <1>1, <1>3, <1>4 DEF GroupsOK
<1>9. RevertOK
  BY <1>1, <1>3, <1>4 DEF RevertOK
<1>10. GrantsOK
  BY <1>1, <1>3, <1>4 DEF GrantsOK, GrantOK, Undone
<1>11. PoliciesOK
  BY <1>1, <1>3, <1>4 DEF PoliciesOK, PolicyOK, Reopened
<1>12. GrantStepOK /\ PolicyStepOK
  BY <1>1, <1>4 DEF GrantStepOK, GrantStep, PolicyStepOK, PolicyStep
<1>13. TakenAwayStays /\ GroupsOutlastTheRules
  BY <1>3 DEF TakenAwayStays, GroupsOutlastTheRules
<1>14. QED
  BY <1>5, <1>6, <1>7, <1>8, <1>9, <1>10, <1>11, <1>12, <1>13 DEF ProtectionInv

LEMMA ProtectionStutters == ASSUME ProtectionInv, UNCHANGED protectionVars PROVE ProtectionInv'
<1>1. UNCHANGED <<team, policy, held, guardRecord, groupRecord, restricted, rulesCall, wanted>>
  BY DEF protectionVars
<1>2. ProtectionTypes' /\ StepKnown' /\ TakenOK'
  BY <1>1 DEF ProtectionInv, ProtectionTypes, StepKnown, TakenOK, Me
<1>3. GroupsOK' /\ RevertOK' /\ TakenAwayStays' /\ GroupsOutlastTheRules'
  BY <1>1 DEF ProtectionInv, GroupsOK, RevertOK, Me, TakenAwayStays, GroupsOutlastTheRules
<1>4. GrantsOK' /\ PoliciesOK'
  BY <1>1 DEF ProtectionInv, GrantsOK, PoliciesOK, GrantOK, PolicyOK
<1>5. GrantStepOK' /\ PolicyStepOK'
  BY <1>1 DEF ProtectionInv, GrantStepOK, PolicyStepOK, GrantStep, PolicyStep, Me, Manages
<1>6. QED
  BY <1>2, <1>3, <1>4, <1>5 DEF ProtectionInv

LEMMA ProtectionSteps == ASSUME ProtectionInv, [ProtectionNext]_protectionVars PROVE ProtectionInv'
<1>1. CASE AskReconcile \/ AskRevert \/ AskApply \/ ApplyRequired
  BY <1>1, AskReconcileKeeps, AskRevertKeeps, AskApplyKeeps, ApplyRequiredKeeps
<1>2. ASSUME NEW a \in Agents, ReadPolicy(a) \/ ReadFails(a) PROVE ProtectionInv'
  BY <1>2, ReadPolicyKeeps, ReadFailsKeeps
<1>3. CASE WritePolicy \/ ForgetPolicy \/ ReadGrants \/ WriteGrants \/ ForgetScoped
  BY <1>3, WritePolicyKeeps, ForgetPolicyKeeps, ReadGrantsKeeps, WriteGrantsKeeps, ForgetScopedKeeps
<1>4. CASE StartLifting \/ EndCall \/ StepFails \/ WorkerStops \/ TeamChanges \/ GroupsChange
  BY <1>4, StartLiftingKeeps, EndCallKeeps, StepFailsKeeps, WorkerStopsKeeps, TeamChangesKeeps, GroupsChangeKeeps
<1>5. ASSUME NEW a \in Agents, NEW p \in Policies, EditsPolicy(a, p) PROVE ProtectionInv'
  BY <1>5, EditsPolicyKeeps
<1>6. ASSUME NEW a \in Agents, NEW g \in Grants, EditsGrant(a, g) PROVE ProtectionInv'
  BY <1>6, EditsGrantKeeps
<1>7. CASE UNCHANGED protectionVars
  BY <1>7, ProtectionStutters
<1>8. QED
  BY <1>1, <1>2, <1>3, <1>4, <1>5, <1>6, <1>7 DEF ProtectionNext

\* The invariant of the manager rule and the groups: at every step of every call, and
\* between calls, undoing the record gives every agent what its people set.
THEOREM ProtectionInvariance == ProtectionSpec => []ProtectionInv
<1>1. ProtectionInit => ProtectionInv
  BY ProtectionStarts
<1>2. ProtectionInv /\ [ProtectionNext]_protectionVars => ProtectionInv'
  BY ProtectionSteps
<1>3. QED
  BY <1>1, <1>2, PTL DEF ProtectionSpec

\* The types of the run are those of the invariant, with what it adds left out.
LEMMA ProtectionTyped == ProtectionInv => ProtectionTypeOK
BY DEF ProtectionInv, ProtectionTypes, ProtectionTypeOK, CallRecords

\* A revert that reported no failure leaves nothing on record, so undoing it changes
\* nothing: every agent has what its people set (revert of guard.ts).
LEMMA NothingLeftToUndo == ProtectionInv => RevertGivesBack
<1> SUFFICES ASSUME ProtectionInv, wanted.off, NEW a \in Agents \ wanted.crossed
             PROVE  /\ held[a] = wanted.held[a]
                    /\ a \notin wanted.grouped => policy[a] = wanted.policy[a]
  BY DEF RevertGivesBack
<1>1. guardRecord \in GuardRecords /\ OnRecord(guardRecord) = {} /\ held \in [Agents -> SUBSET Grants]
  BY DEF ProtectionInv, ProtectionTypes, RevertOK
<1>2. /\ a \notin guardRecord.protected /\ a \notin guardRecord.scoped /\ a \notin guardRecord.broad
      /\ guardRecord.given[a] = NotAsked
  BY <1>1 DEF OnRecord
<1>3. Undone(guardRecord, a, held[a]) = held[a]
  BY <1>1, <1>2 DEF Undone
<1>4. Reopened(guardRecord, a, policy[a]) = policy[a]
  BY <1>2 DEF Reopened
<1>5. QED
  BY <1>3, <1>4 DEF ProtectionInv, GrantsOK, GrantOK, PoliciesOK, PolicyOK

\* Turning the rules off gives back what they took and takes back what they gave.
THEOREM RulesAreUndone == ProtectionSpec => []RevertGivesBack
<1>1. QED
  BY ProtectionInvariance, NothingLeftToUndo, PTL

\* A change grant a person took from the top agent stays away.
THEOREM TakenStaysTaken == ProtectionSpec => []TakenAwayStays
<1>1. ProtectionInv => TakenAwayStays
  BY DEF ProtectionInv
<1>2. QED
  BY <1>1, ProtectionInvariance, PTL

\* What an apply protected for a group, the manager rule never opens.
THEOREM GroupsStayProtected == ProtectionSpec => []GroupsOutlastTheRules
<1>1. ProtectionInv => GroupsOutlastTheRules
  BY DEF ProtectionInv
<1>2. QED
  BY <1>1, ProtectionInvariance, PTL

-----------------------------------------------------------------------------
(* HostUpdate.  HostInv is the inductive invariant: what a step of a run   *)
(* may count on (EarlyOK, LateOK, UndoOK), what the saved state says       *)
(* whether or not a run is under way (StateOK), which code and data belong *)
(* together (DataOK), and what the settings say of the app when no update  *)
(* is half done (SettledOK).                                               *)

\* The steps before there is a state, those of release_apply and edge_apply,
\* and those of do_rollback.
EarlySteps == {"backup", "forget", "keepEnv", "keepState"}
LateSteps  == {"checkout", "merge", "after", "image", "version", "build", "record", "up", "done"}
Refilled   == {"core", "kyoube", "home", "fill", "start", "clear"}
UndoSteps  == {"stop", "back", "replaced", "env", "rebuild", "rerecord", "recreate"} \cup Refilled
Steps      == {"rest", "clearEnv"} \cup EarlySteps \cup LateSteps \cup UndoSteps

AtOneOf(steps)  == script.at \in steps

State == [of: 0..MaxRuns, mode: {"none", "release", "edge"}, to: 0..Newest, done: BOOLEAN, ref: Code,
          head: Code, after: Code, backup: 0..MaxRuns, rollback: BOOLEAN, replaced: BOOLEAN]
Copy  == [of: 0..MaxRuns, env: Env \cup {NoEnv}]

HostTypes ==
    /\ HostTypeOK
    /\ saved.state \in State /\ saved.before \in Copy
    /\ saved = [state |-> saved.state, before |-> saved.before, replaced |-> saved.replaced]
    /\ script \in [at: Steps, mode: {"none", "release", "edge", "rollback"}, to: 0..Newest,
                   pos: Code, id: 0..MaxRuns]
    /\ ledger \in [runs: 0..MaxRuns, stops: Nat, deeds: Nat, own: SUBSET AllChanges, strayed: BOOLEAN,
                   ran: [Runs -> [code: Code, env: Env \cup {NoEnv}]]]

\* What --edge puts in, from a head and what was fetched.
Newer(head, seen) == IF Up(seen) \subseteq head THEN head ELSE Up(seen)

\* The settings name the code that runs.
Agrees(e, image, code) ==
    /\ BuildsSource(e) => image = code
    /\ ~BuildsSource(e) /\ e.version \in Tagged => code = Up(e.version)

\* A run up to save_state: nothing has changed but the backup and the state.
EarlyOK ==
    AtOneOf(EarlySteps) =>
        /\ ~saved.state.rollback /\ ~Unfinished
        /\ script.id = ledger.runs /\ script.id \in Runs /\ script.pos = container.code
        /\ \/ script.mode = "release" /\ script.to \in Tagged /\ script.pos \subseteq Up(script.to)
           \/ script.mode = "edge" /\ script.to = 0 /\ script.pos \subseteq Newer(repo.head, repo.seen)
        /\ AtOneOf({"backup", "forget"}) => saved.state.of < script.id
        /\ ~AtOneOf({"backup"}) => /\ ledger.ran[script.id].code = container.code
                              /\ ledger.ran[script.id].env = env
                              /\ backup[script.id] # NoData
        /\ AtOneOf({"keepEnv", "keepState"}) => saved.state = NoState
        /\ AtOneOf({"keepState"}) => saved.before.of = script.id /\ saved.before.env = env

\* The rest of an update, first or resumed: each step finds the one before done.
LateOK ==
    AtOneOf(LateSteps) =>
        /\ ~saved.state.rollback /\ Unfinished
        /\ script.mode = saved.state.mode /\ script.to = saved.state.to
        /\ AtOneOf({"checkout"}) => script.mode = "release"
        /\ AtOneOf({"merge", "after"}) => script.mode = "edge"
        /\ AtOneOf({"version"}) => (env.local <=> script.mode = "edge")
        /\ AtOneOf({"build", "record"}) => script.mode = "edge"
        /\ AtOneOf({"build", "record", "up", "done"}) => (env.local <=> script.mode = "edge") /\ env.version = script.to
        /\ AtOneOf({"record", "up"}) /\ script.mode = "edge" => source.image = repo.head
        /\ AtOneOf({"done"}) => container.code = ImageOf(env)
        /\ ~AtOneOf({"merge"}) /\ script.mode = "edge" /\ ~ledger.strayed =>
              repo.head = Newer(saved.state.head, repo.seen)

Restored(p) == /\ data[p].schema = backup[saved.state.backup][p].schema
               /\ data[p].put = saved.state.backup

\* A rollback, first or repeated.
UndoOK ==
    /\ AtOneOf({"clearEnv"}) => saved.state = NoState
    /\ AtOneOf(UndoSteps) =>
        /\ saved.state # NoState /\ saved.state.rollback /\ script.pos = saved.state.ref
        /\ container.up => AtOneOf({"stop", "clear"})
        /\ AtOneOf({"replaced", "env", "rebuild"}) => repo.head = saved.state.ref
        /\ AtOneOf({"rebuild", "rerecord", "recreate"} \cup Refilled) => env = saved.before.env
        /\ AtOneOf({"rebuild", "rerecord"}) => saved.state.mode = "edge"
        /\ AtOneOf({"rerecord", "recreate"} \cup Refilled) /\ BuildsSource(env) => source.image = saved.state.ref
        /\ AtOneOf(Refilled) => container.code = saved.state.ref
        /\ AtOneOf({"kyoube", "home", "fill", "start"}) => Restored("core")
        /\ AtOneOf({"home", "fill", "start"}) => Restored("kyoube")
        /\ AtOneOf({"start"}) => Restored("home")
        /\ AtOneOf({"clear"}) => container.up /\ \A p \in Parts : data[p].put = saved.state.backup

\* The rollback point is that of the run which saved it.
PointOK ==
    saved.state # NoState =>
        /\ saved.state.of \in 1..ledger.runs /\ saved.state.backup = saved.state.of
        /\ saved.before.of = saved.state.of /\ saved.before.env = ledger.ran[saved.state.of].env
        /\ saved.state.ref = ledger.ran[saved.state.of].code
        /\ backup[saved.state.of] # NoData
        /\ saved.before.env \in Env
        /\ ~BuildsSource(saved.before.env) /\ saved.before.env.version \in Tagged =>
              saved.state.ref = Up(saved.before.env.version)
        /\ saved.state.mode = "release" /\ BuildsSource(saved.before.env) => source.image = saved.state.ref

\* An update only goes forward, and what it leaves of the branch is upstream's.
StateOK ==
    saved.state # NoState =>
        /\ \/ saved.state.mode = "release" /\ saved.state.to \in Tagged
           \/ saved.state.mode = "edge" /\ saved.state.to = 0
        /\ saved.state.mode = "edge" /\ ~ledger.strayed =>
              \/ saved.state.after \in {NoCode, saved.state.head}
              \/ \E k \in 1..Newest : saved.state.after = Up(k)
        /\ ~saved.state.done /\ ~saved.state.rollback =>
              /\ saved.state.mode = "release" => container.code \subseteq Up(saved.state.to)
              /\ saved.state.mode = "edge" /\ ~ledger.strayed =>
                    /\ container.code \subseteq Newer(saved.state.head, repo.seen)
                    /\ repo.head \in {saved.state.head, Newer(saved.state.head, repo.seen)}

DataOK ==
    /\ data["core"].schema # {} /\ \A b \in Runs : backup[b] # NoData => backup[b]["core"].schema # {}
    /\ ~saved.state.rollback => container.up
    /\ container.up => \A p, q \in Parts : data[p].put = data[q].put
    /\ container.up /\ ~ledger.strayed => \A p \in Parts : data[p].schema \subseteq container.code
    /\ ~ledger.strayed => \A b \in Runs, p \in Parts : backup[b][p].schema \subseteq ledger.ran[b].code

SettledOK == ~Unfinished /\ ~saved.state.rollback => Agrees(env, source.image, container.code)

RepoOK ==
    /\ repo.on => repo.head = repo.tip
    /\ ledger.own \subseteq (Newest + 1)..(Newest + MaxOwn)
    /\ ~ledger.strayed => ledger.own \subseteq repo.tip

HostInv == /\ HostTypes /\ EarlyOK /\ LateOK /\ UndoOK
           /\ PointOK /\ StateOK /\ DataOK /\ SettledOK /\ RepoOK

-----------------------------------------------------------------------------
(* Types                                                                   *)

LEMMA StatesDiffer == NoState \in State /\ NoState.of = 0 /\ ~NoState.done /\ ~NoState.rollback
BY HostAssumption DEF NoState, State, Code, NoCode, NoRun

LEMMA UpIsCode == \A k \in 0..Newest : Up(k) \in Code
BY HostAssumption DEF Up, Code, AllChanges

\* A step of a run goes on to the next one.
LEMMA ScriptGoes ==
    ASSUME HostInv, NEW step \in Steps, Goto(step)
    PROVE  /\ script'.at = step /\ script'.mode = script.mode /\ script'.to = script.to
           /\ script'.pos = script.pos /\ script'.id = script.id
           /\ script' \in [at: Steps, mode: {"none", "release", "edge", "rollback"}, to: 0..Newest,
                           pos: Code, id: 0..MaxRuns]
BY DEF HostInv, HostTypes, Goto

-----------------------------------------------------------------------------
(* The backup and the rollback point                                       *)

LEMMA BackupKeeps == ASSUME HostInv, Backup PROVE HostInv'
<1>1. /\ script.at = "backup" /\ Goto("forget")
      /\ backup' = [backup EXCEPT ![script.id] = data]
      /\ ledger' = [ledger EXCEPT !.ran[script.id] = [code |-> container.code, env |-> env]]
      /\ UNCHANGED <<origin, repo, env, saved, source, container, data>>
  BY DEF Backup, Reached
<1>2. HostTypes /\ EarlyOK /\ LateOK /\ UndoOK /\ PointOK /\ StateOK /\ DataOK /\ SettledOK /\ RepoOK
  BY DEF HostInv
<1>3. /\ script'.at = "forget" /\ script'.mode = script.mode /\ script'.to = script.to
      /\ script'.pos = script.pos /\ script'.id = script.id
      /\ script' \in [at: Steps, mode: {"none", "release", "edge", "rollback"}, to: 0..Newest,
                      pos: Code, id: 0..MaxRuns]
  BY <1>1, ScriptGoes DEF Steps, EarlySteps
<1>4. script.id \in Runs /\ script.id = ledger.runs /\ ~saved.state.rollback /\ ~Unfinished /\ saved.state.of < script.id
  BY <1>1, <1>2 DEF EarlyOK, AtOneOf, EarlySteps
<1>5. /\ backup' \in [Runs -> [Parts -> Part]] /\ backup'[script.id] = data
      /\ \A b \in Runs : b # script.id => backup'[b] = backup[b]
  BY <1>1, <1>2, <1>4 DEF HostTypes, HostTypeOK
<1>6. /\ ledger'.runs = ledger.runs /\ ledger'.own = ledger.own /\ ledger'.strayed = ledger.strayed
      /\ ledger'.ran[script.id].code = container.code /\ ledger'.ran[script.id].env = env
      /\ \A b \in Runs : b # script.id => ledger'.ran[b] = ledger.ran[b]
      /\ ledger' \in [runs: 0..MaxRuns, stops: Nat, deeds: Nat, own: SUBSET AllChanges, strayed: BOOLEAN,
                      ran: [Runs -> [code: Code, env: Env \cup {NoEnv}]]]
  BY <1>1, <1>2, <1>4 DEF HostTypes, HostTypeOK
<1>7. HostTypes'
  BY <1>1, <1>2, <1>3, <1>5, <1>6 DEF HostTypes, HostTypeOK
<1>8. data # NoData
  BY <1>2 DEF DataOK, NoData, NoCode, Parts
<1>9. EarlyOK'
  BY <1>1, <1>2, <1>3, <1>4, <1>5, <1>6, <1>8 DEF EarlyOK, AtOneOf, EarlySteps, Unfinished
<1>10. LateOK' /\ UndoOK'
  BY <1>3 DEF LateOK, UndoOK, AtOneOf, LateSteps, UndoSteps, Refilled
<1>11. PointOK'
  BY <1>1, <1>2, <1>4, <1>5, <1>6 DEF PointOK, Runs
<1>12. StateOK' /\ SettledOK' /\ RepoOK'
  BY <1>1, <1>2, <1>6 DEF StateOK, SettledOK, RepoOK, Unfinished, Agrees, BuildsSource
<1>13. DataOK'
  BY <1>1, <1>2, <1>4, <1>5, <1>6 DEF DataOK
<1>14. QED
  BY <1>7, <1>9, <1>10, <1>11, <1>12, <1>13 DEF HostInv

LEMMA ForgetKeeps == ASSUME HostInv, Forget, UNCHANGED <<origin, repo, env, source, container, data, backup, ledger>> PROVE HostInv'
<1>1. script.at = "forget" /\ Goto("keepEnv") /\ saved' = [saved EXCEPT !.state = NoState]
  BY DEF Forget, Reached
<1>2. HostTypes /\ EarlyOK /\ LateOK /\ UndoOK /\ PointOK /\ StateOK /\ DataOK /\ SettledOK /\ RepoOK
  BY DEF HostInv
<1>3. /\ script'.at = "keepEnv" /\ script'.mode = script.mode /\ script'.to = script.to
      /\ script'.pos = script.pos /\ script'.id = script.id
      /\ script' \in [at: Steps, mode: {"none", "release", "edge", "rollback"}, to: 0..Newest,
                      pos: Code, id: 0..MaxRuns]
  BY <1>1, ScriptGoes DEF Steps, EarlySteps, LateSteps, UndoSteps, Refilled
<1>4. /\ saved'.state = NoState /\ saved'.before = saved.before /\ saved'.replaced = saved.replaced
      /\ saved' = [state |-> saved'.state, before |-> saved'.before, replaced |-> saved'.replaced]
  BY <1>1, <1>2 DEF HostTypes
<1>5. HostTypes'
  BY <1>2, <1>3, <1>4, StatesDiffer DEF HostTypes, HostTypeOK
<1>6. EarlyOK'
  BY <1>1, <1>2, <1>3, <1>4, StatesDiffer DEF EarlyOK, AtOneOf, EarlySteps, Unfinished
<1>7. LateOK' /\ UndoOK'
  BY <1>3 DEF LateOK, UndoOK, AtOneOf, LateSteps, UndoSteps, Refilled
<1>8. PointOK' /\ StateOK' /\ RepoOK'
  BY <1>2, <1>4 DEF PointOK, StateOK, RepoOK
<1>9. ~Unfinished /\ ~saved.state.rollback
  BY <1>1, <1>2 DEF EarlyOK, AtOneOf, EarlySteps
<1>10. SettledOK' /\ DataOK'
  BY <1>2, <1>4, <1>9 DEF SettledOK, DataOK, Agrees, BuildsSource
<1>11. QED
  BY <1>5, <1>6, <1>7, <1>8, <1>10 DEF HostInv

LEMMA KeepEnvKeeps == ASSUME HostInv, KeepEnv, UNCHANGED <<origin, repo, env, source, container, data, backup, ledger>> PROVE HostInv'
<1>1. script.at = "keepEnv" /\ Goto("keepState") /\ saved' = [saved EXCEPT !.before = [of |-> script.id, env |-> env]]
  BY DEF KeepEnv, Reached
<1>2. HostTypes /\ EarlyOK /\ LateOK /\ UndoOK /\ PointOK /\ StateOK /\ DataOK /\ SettledOK /\ RepoOK
  BY DEF HostInv
<1>3. /\ script'.at = "keepState" /\ script'.mode = script.mode /\ script'.to = script.to
      /\ script'.pos = script.pos /\ script'.id = script.id
      /\ script' \in [at: Steps, mode: {"none", "release", "edge", "rollback"}, to: 0..Newest,
                      pos: Code, id: 0..MaxRuns]
  BY <1>1, ScriptGoes DEF Steps, EarlySteps, LateSteps, UndoSteps, Refilled
<1>4. /\ saved'.state = NoState /\ saved.state = NoState /\ saved'.replaced = saved.replaced
      /\ saved'.before.of = script.id /\ saved'.before.env = env /\ saved'.before \in Copy
      /\ saved' = [state |-> saved'.state, before |-> saved'.before, replaced |-> saved'.replaced]
  BY <1>1, <1>2 DEF HostTypes, HostTypeOK, Copy, EarlyOK, AtOneOf, EarlySteps, Unfinished
<1>5. HostTypes'
  BY <1>2, <1>3, <1>4, StatesDiffer DEF HostTypes, HostTypeOK
<1>6. EarlyOK'
  BY <1>1, <1>2, <1>3, <1>4 DEF EarlyOK, AtOneOf, EarlySteps, Unfinished
<1>7. LateOK' /\ UndoOK'
  BY <1>3 DEF LateOK, UndoOK, AtOneOf, LateSteps, UndoSteps, Refilled
<1>8. PointOK' /\ StateOK' /\ RepoOK'
  BY <1>2, <1>4 DEF PointOK, StateOK, RepoOK
<1>9. SettledOK' /\ DataOK'
  BY <1>2, <1>4 DEF DataOK, SettledOK, Unfinished, Agrees, BuildsSource
<1>10. QED
  BY <1>5, <1>6, <1>7, <1>8, <1>9 DEF HostInv

LEMMA KeepStateKeeps == ASSUME HostInv, KeepState, UNCHANGED <<origin, repo, env, source, container, data, backup, ledger>> PROVE HostInv'
<1>1. /\ script.at = "keepState" /\ Goto(IF script.mode = "edge" THEN "merge" ELSE "checkout")
      /\ saved' = [saved EXCEPT !.state = StateOf(script.id)]
  BY DEF KeepState, Reached
<1>2. HostTypes /\ EarlyOK /\ LateOK /\ UndoOK /\ PointOK /\ StateOK /\ DataOK /\ SettledOK /\ RepoOK
  BY DEF HostInv
<1>3. /\ script.mode = "edge" => Goto("merge")
      /\ script.mode # "edge" => Goto("checkout")
  BY <1>1
<1>4. /\ script.mode = "edge" => script'.at = "merge"
      /\ script.mode # "edge" => script'.at = "checkout"
      /\ script'.mode = script.mode /\ script'.to = script.to /\ script'.pos = script.pos /\ script'.id = script.id
      /\ script' \in [at: Steps, mode: {"none", "release", "edge", "rollback"}, to: 0..Newest,
                      pos: Code, id: 0..MaxRuns]
  BY <1>3, ScriptGoes DEF Steps, EarlySteps, LateSteps
<1>5. /\ ~Unfinished /\ ~saved.state.rollback /\ script.id = ledger.runs /\ script.id \in Runs /\ script.pos = container.code
      /\ \/ script.mode = "release" /\ script.to \in Tagged /\ script.pos \subseteq Up(script.to)
         \/ script.mode = "edge" /\ script.to = 0 /\ script.pos \subseteq Newer(repo.head, repo.seen)
      /\ ledger.ran[script.id].code = container.code /\ ledger.ran[script.id].env = env /\ backup[script.id] # NoData
      /\ saved.before.of = script.id /\ saved.before.env = env
  BY <1>1, <1>2 DEF EarlyOK, AtOneOf, EarlySteps
<1>6. /\ StateOf(script.id) \in State /\ StateOf(script.id).of = script.id /\ StateOf(script.id).mode = script.mode
      /\ StateOf(script.id).to = script.to /\ StateOf(script.id).ref = script.pos /\ StateOf(script.id).head = repo.head
      /\ StateOf(script.id).backup = script.id /\ ~StateOf(script.id).rollback /\ ~StateOf(script.id).done
      /\ StateOf(script.id).after = NoCode
  BY <1>2, <1>5, StatesDiffer DEF StateOf, NoState, State, HostTypes, HostTypeOK, NoCode, Runs
<1>7. /\ saved'.state = StateOf(script.id) /\ saved'.before = saved.before /\ saved'.replaced = saved.replaced
      /\ saved' = [state |-> saved'.state, before |-> saved'.before, replaced |-> saved'.replaced]
  BY <1>1, <1>2 DEF HostTypes
<1>8. HostTypes'
  BY <1>2, <1>4, <1>6, <1>7 DEF HostTypes, HostTypeOK
<1>9. EarlyOK' /\ UndoOK'
  BY <1>4 DEF EarlyOK, UndoOK, AtOneOf, EarlySteps, UndoSteps, Refilled
<1>10. saved'.state # NoState
  BY <1>5, <1>6, <1>7, StatesDiffer DEF Runs
<1>11. LateOK'
  BY <1>4, <1>5, <1>6, <1>7, <1>10 DEF LateOK, AtOneOf, LateSteps, Unfinished
<1>12. PointOK'
  BY <1>2, <1>5, <1>6, <1>7 DEF PointOK, Runs, SettledOK, Agrees, BuildsSource, HostTypes, HostTypeOK
<1>13. StateOK'
  BY <1>2, <1>5, <1>6, <1>7 DEF StateOK
<1>14. DataOK' /\ RepoOK' /\ SettledOK'
  BY <1>2, <1>5, <1>6, <1>7 DEF DataOK, RepoOK, SettledOK, Unfinished, Agrees, BuildsSource
<1>15. QED
  BY <1>8, <1>9, <1>11, <1>12, <1>13, <1>14 DEF HostInv

LEMMA SwitchKeeps == ASSUME HostInv, SwitchCheckout PROVE HostInv'
<1>1. /\ script.at = "checkout" /\ Goto("image")
      /\ \/ UNCHANGED repo
         \/ repo' = [repo EXCEPT !.head = Up(script.to), !.on = FALSE]
      /\ UNCHANGED <<origin, env, saved, source, container, data, backup, ledger>>
  BY DEF SwitchCheckout, Reached, Checkout
<1>2. HostTypes /\ EarlyOK /\ LateOK /\ UndoOK /\ PointOK /\ StateOK /\ DataOK /\ SettledOK /\ RepoOK
  BY DEF HostInv
<1>3. /\ script'.at = "image" /\ script'.mode = script.mode /\ script'.to = script.to
      /\ script'.pos = script.pos /\ script'.id = script.id
      /\ script' \in [at: Steps, mode: {"none", "release", "edge", "rollback"}, to: 0..Newest,
                      pos: Code, id: 0..MaxRuns]
  BY <1>1, ScriptGoes DEF Steps, EarlySteps, LateSteps, UndoSteps, Refilled
<1>4. /\ Unfinished /\ ~saved.state.rollback /\ script.mode = "release" /\ saved.state.mode = "release"
      /\ script.to = saved.state.to
  BY <1>1, <1>2 DEF LateOK, AtOneOf, LateSteps
<1>5. /\ repo' \in [tip: Code, head: Code, on: BOOLEAN, seen: 1..Newest] /\ repo'.tip = repo.tip
      /\ repo'.on => repo'.head = repo'.tip
  BY <1>1, <1>2, UpIsCode, ZenonT(40) DEF RepoOK, HostTypes, HostTypeOK
<1>6. HostTypes'
  BY <1>1, <1>2, <1>3, <1>5 DEF HostTypes, HostTypeOK
<1>7. EarlyOK' /\ UndoOK'
  BY <1>3 DEF EarlyOK, UndoOK, AtOneOf, EarlySteps, UndoSteps, Refilled
<1>8. LateOK'
  BY <1>1, <1>3, <1>4 DEF LateOK, AtOneOf, LateSteps, Unfinished
<1>9. PointOK' /\ DataOK' /\ SettledOK'
  BY <1>1, <1>2 DEF PointOK, DataOK, SettledOK, Unfinished, Agrees, BuildsSource
<1>10. StateOK' /\ RepoOK'
  BY <1>1, <1>2, <1>4, <1>5 DEF StateOK, RepoOK
<1>11. QED
  BY <1>6, <1>7, <1>8, <1>9, <1>10 DEF HostInv


\* The fast-forward leaves the branch where the update puts it.
LEMMA MergeKeeps == ASSUME HostInv, Merge PROVE HostInv'
<1>1. /\ script.at = "merge" /\ Goto("after")
      /\ UNCHANGED <<origin, env, saved, source, container, data, backup, ledger>>
      /\ \/ /\ repo.head = saved.state.head /\ Up(repo.seen) \ repo.head # {} /\ repo.on /\ repo.head \subseteq Up(repo.seen)
            /\ repo' = [repo EXCEPT !.head = Up(repo.seen), !.tip = Up(repo.seen)]
         \/ /\ ~(repo.head = saved.state.head /\ Up(repo.seen) \ repo.head # {})
            /\ repo' = repo
  BY DEF Merge, Reached
<1>2. HostTypes /\ EarlyOK /\ LateOK /\ UndoOK /\ PointOK /\ StateOK /\ DataOK /\ SettledOK /\ RepoOK
  BY DEF HostInv
<1>3. /\ script'.at = "after" /\ script'.mode = script.mode /\ script'.to = script.to
      /\ script'.pos = script.pos /\ script'.id = script.id
      /\ script' \in [at: Steps, mode: {"none", "release", "edge", "rollback"}, to: 0..Newest,
                      pos: Code, id: 0..MaxRuns]
  BY <1>1, ScriptGoes DEF Steps, EarlySteps, LateSteps, UndoSteps, Refilled
<1>4. /\ Unfinished /\ saved.state # NoState /\ ~saved.state.done /\ ~saved.state.rollback
      /\ script.mode = "edge" /\ saved.state.mode = "edge" /\ script.to = saved.state.to
  BY <1>1, <1>2 DEF LateOK, AtOneOf, LateSteps, Unfinished
<1>5. ~ledger.strayed => /\ repo.head \in {saved.state.head, Newer(saved.state.head, repo.seen)}
                         /\ container.code \subseteq Newer(saved.state.head, repo.seen)
  BY <1>2, <1>4 DEF StateOK
<1>6. /\ repo' \in [tip: Code, head: Code, on: BOOLEAN, seen: 1..Newest] /\ repo'.seen = repo.seen
      /\ repo'.on => repo'.head = repo'.tip
      /\ ~ledger.strayed => ledger.own \subseteq repo'.tip
  <2>1. CASE repo' = repo
    BY <1>2, <2>1 DEF RepoOK, HostTypes, HostTypeOK
  <2>2. CASE /\ repo.head = saved.state.head /\ repo.on /\ repo.head \subseteq Up(repo.seen)
             /\ repo' = [repo EXCEPT !.head = Up(repo.seen), !.tip = Up(repo.seen)]
    <3>1. Up(repo.seen) \in Code
      BY <1>2, UpIsCode, HostAssumption DEF HostTypes, HostTypeOK
    <3>2. /\ repo'.head = Up(repo.seen) /\ repo'.tip = Up(repo.seen) /\ repo'.seen = repo.seen
          /\ repo' \in [tip: Code, head: Code, on: BOOLEAN, seen: 1..Newest]
      BY <1>2, <2>2, <3>1 DEF HostTypes, HostTypeOK
    <3>3. QED
      BY <1>2, <2>2, <3>2 DEF RepoOK
  <2>3. QED
    BY <1>1, <2>1, <2>2
<1>7. ~ledger.strayed => repo'.head = Newer(saved.state.head, repo'.seen)
  BY <1>1, <1>2, <1>5, <1>6, ZenonT(40) DEF Newer, HostTypes, HostTypeOK
<1>8. HostTypes'
  BY <1>1, <1>2, <1>3, <1>6 DEF HostTypes, HostTypeOK
<1>9. EarlyOK' /\ UndoOK'
  BY <1>3 DEF EarlyOK, UndoOK, AtOneOf, EarlySteps, UndoSteps, Refilled
<1>10. LateOK'
  BY <1>1, <1>3, <1>4, <1>7 DEF LateOK, AtOneOf, LateSteps, Unfinished
<1>11. PointOK' /\ DataOK' /\ SettledOK'
  BY <1>1, <1>2 DEF PointOK, DataOK, SettledOK, Unfinished, Agrees, BuildsSource
<1>12. StateOK'
  BY <1>1, <1>2, <1>4, <1>5, <1>6, <1>7 DEF StateOK
<1>13. RepoOK'
  BY <1>1, <1>2, <1>6 DEF RepoOK
<1>14. QED
  BY <1>8, <1>9, <1>10, <1>11, <1>12, <1>13 DEF HostInv

LEMMA AfterKeeps == ASSUME HostInv, After PROVE HostInv'
<1>1. /\ script.at = "after" /\ UNCHANGED <<origin, repo, env, source, container, data, backup, ledger>>
      /\ BuildsSource(env) => Goto("build")
      /\ ~BuildsSource(env) => Goto("image")
      /\ \/ saved.state.after = NoCode /\ saved' = [saved EXCEPT !.state.after = repo.head]
         \/ saved' = saved
  BY DEF After, Reached
<1>2. HostTypes /\ EarlyOK /\ LateOK /\ UndoOK /\ PointOK /\ StateOK /\ DataOK /\ SettledOK /\ RepoOK
  BY DEF HostInv
<1>3. /\ script'.at \in {"build", "image"} /\ script'.mode = script.mode /\ script'.to = script.to
      /\ script'.at = "build" => BuildsSource(env)
      /\ script'.pos = script.pos /\ script'.id = script.id
      /\ script' \in [at: Steps, mode: {"none", "release", "edge", "rollback"}, to: 0..Newest,
                      pos: Code, id: 0..MaxRuns]
  BY <1>1, ScriptGoes DEF Steps, LateSteps
<1>4. /\ Unfinished /\ saved.state # NoState /\ ~saved.state.done /\ ~saved.state.rollback
      /\ script.mode = "edge" /\ saved.state.mode = "edge" /\ script.to = saved.state.to
      /\ ~ledger.strayed => repo.head = Newer(saved.state.head, repo.seen)
  BY <1>1, <1>2 DEF LateOK, AtOneOf, LateSteps, Unfinished
<1>5. /\ saved'.state \in State /\ saved'.before = saved.before /\ saved'.replaced = saved.replaced
      /\ saved' = [state |-> saved'.state, before |-> saved'.before, replaced |-> saved'.replaced]
      /\ saved'.state.of = saved.state.of /\ saved'.state.mode = saved.state.mode /\ saved'.state.to = saved.state.to
      /\ ~saved'.state.done /\ saved'.state.ref = saved.state.ref /\ saved'.state.head = saved.state.head
      /\ saved'.state.backup = saved.state.backup /\ ~saved'.state.rollback
      /\ saved'.state.after \in {saved.state.after, repo.head}
  BY <1>2, <1>4, <1>1 DEF HostTypes, HostTypeOK, State
<1>6. saved'.state # NoState
  BY <1>2, <1>4, <1>5 DEF PointOK, NoState, NoRun, HostTypes
<1>7. saved.state.to = 0
  BY <1>2, <1>4 DEF StateOK
<1>8. ~ledger.strayed => \/ saved'.state.after \in {NoCode, saved.state.head}
                         \/ \E k \in 1..Newest : saved'.state.after = Up(k)
  BY <1>2, <1>4, <1>5 DEF StateOK, Newer, HostTypes, HostTypeOK
<1>9. HostTypes'
  BY <1>1, <1>2, <1>3, <1>5 DEF HostTypes, HostTypeOK
<1>10. EarlyOK' /\ UndoOK'
  BY <1>3 DEF EarlyOK, UndoOK, AtOneOf, EarlySteps, UndoSteps, Refilled
<1>11. LateOK'
  BY <1>1, <1>3, <1>4, <1>5, <1>6, <1>7 DEF BuildsSource, LateOK, AtOneOf, LateSteps, Unfinished
<1>12. PointOK'
  BY <1>1, <1>2, <1>4, <1>5 DEF PointOK, BuildsSource
<1>13. StateOK'
  BY <1>1, <1>2, <1>4, <1>5, <1>8 DEF StateOK
<1>14. DataOK' /\ RepoOK'
  BY <1>1, <1>2, <1>4, <1>5 DEF DataOK, RepoOK
<1>15. SettledOK'
  BY <1>5, <1>6 DEF SettledOK, Unfinished
<1>16. QED
  BY <1>9, <1>10, <1>11, <1>12, <1>13, <1>14, <1>15 DEF HostInv

LEMMA SetImageKeeps == ASSUME HostInv, SetImage PROVE HostInv'
<1>1. /\ script.at = "image" /\ Goto("version")
      /\ env' = [env EXCEPT !.local = script.mode = "edge"]
      /\ UNCHANGED <<origin, repo, saved, source, container, data, backup, ledger>>
  BY DEF SetImage, Reached
<1>2. HostTypes /\ EarlyOK /\ LateOK /\ UndoOK /\ PointOK /\ StateOK /\ DataOK /\ SettledOK /\ RepoOK
  BY DEF HostInv
<1>3. /\ script'.at = "version" /\ script'.mode = script.mode /\ script'.to = script.to
      /\ script'.pos = script.pos /\ script'.id = script.id
      /\ script' \in [at: Steps, mode: {"none", "release", "edge", "rollback"}, to: 0..Newest,
                      pos: Code, id: 0..MaxRuns]
  BY <1>1, ScriptGoes DEF Steps, EarlySteps, LateSteps, UndoSteps, Refilled
<1>4. env' \in Env /\ (env'.local <=> script.mode = "edge")
  BY <1>1, <1>2 DEF Env, HostTypes, HostTypeOK
<1>5. /\ Unfinished /\ ~saved.state.rollback
      /\ script.mode = saved.state.mode /\ script.to = saved.state.to
      /\ script.mode = "edge" /\ ~ledger.strayed => repo.head = Newer(saved.state.head, repo.seen)
  BY <1>1, <1>2 DEF LateOK, AtOneOf, LateSteps
<1>6. HostTypes'
  BY <1>1, <1>2, <1>3, <1>4 DEF HostTypes, HostTypeOK
<1>7. EarlyOK' /\ UndoOK'
  BY <1>3 DEF EarlyOK, UndoOK, AtOneOf, EarlySteps, UndoSteps, Refilled
<1>8. LateOK'
  BY <1>1, <1>3, <1>4, <1>5 DEF LateOK, AtOneOf, LateSteps, Unfinished
<1>9. PointOK' /\ StateOK' /\ DataOK' /\ RepoOK'
  BY <1>1, <1>2 DEF PointOK, StateOK, DataOK, RepoOK
<1>10. SettledOK'
  BY <1>1, <1>5 DEF SettledOK, Unfinished
<1>11. QED
  BY <1>6, <1>7, <1>8, <1>9, <1>10 DEF HostInv

LEMMA SetVersionKeeps == ASSUME HostInv, SetVersion PROVE HostInv'
<1>1. /\ script.at = "version"
      /\ script.mode = "edge" => Goto("build")
      /\ script.mode # "edge" => Goto("up")
      /\ env' = [env EXCEPT !.version = script.to]
      /\ UNCHANGED <<origin, repo, saved, source, container, data, backup, ledger>>
  BY DEF SetVersion, Reached
<1>2. HostTypes /\ EarlyOK /\ LateOK /\ UndoOK /\ PointOK /\ StateOK /\ DataOK /\ SettledOK /\ RepoOK
  BY DEF HostInv
<1>3. /\ script.mode = "edge" => script'.at = "build"
      /\ script.mode # "edge" => script'.at = "up"
      /\ script'.mode = script.mode /\ script'.to = script.to /\ script'.pos = script.pos /\ script'.id = script.id
      /\ script' \in [at: Steps, mode: {"none", "release", "edge", "rollback"}, to: 0..Newest,
                      pos: Code, id: 0..MaxRuns]
  BY <1>1, ScriptGoes DEF Steps, LateSteps
<1>4. env' \in Env /\ (env'.local <=> script.mode = "edge") /\ env'.version = script.to
  BY <1>1, <1>2 DEF Env, LateOK, AtOneOf, LateSteps, HostTypes, HostTypeOK
<1>5. /\ Unfinished /\ ~saved.state.rollback
      /\ script.mode = saved.state.mode /\ script.to = saved.state.to
      /\ script.mode = "edge" /\ ~ledger.strayed => repo.head = Newer(saved.state.head, repo.seen)
  BY <1>1, <1>2 DEF LateOK, AtOneOf, LateSteps
<1>6. HostTypes'
  BY <1>1, <1>2, <1>3, <1>4 DEF HostTypes, HostTypeOK
<1>7. EarlyOK' /\ UndoOK'
  BY <1>3 DEF EarlyOK, UndoOK, AtOneOf, EarlySteps, UndoSteps, Refilled
<1>8. LateOK'
  BY <1>1, <1>3, <1>4, <1>5 DEF LateOK, AtOneOf, LateSteps, Unfinished
<1>9. PointOK' /\ StateOK' /\ DataOK' /\ RepoOK'
  BY <1>1, <1>2 DEF PointOK, StateOK, DataOK, RepoOK
<1>10. SettledOK'
  BY <1>1, <1>5 DEF SettledOK, Unfinished
<1>11. QED
  BY <1>6, <1>7, <1>8, <1>9, <1>10 DEF HostInv


LEMMA RestIsNoScript ==
    /\ NoScript.at = "rest"
    /\ NoScript \in [at: Steps, mode: {"none", "release", "edge", "rollback"}, to: 0..Newest,
                     pos: Code, id: 0..MaxRuns]
BY HostAssumption DEF NoScript, Steps, Code, NoCode, NoRun

\* The app's start migrates the two databases, and only adds to them.
LEMMA StartsMigrate ==
    ASSUME HostInv, NEW code \in Code, Starts(code)
    PROVE  /\ container' = [code |-> code, up |-> TRUE] /\ data' \in [Parts -> Part]
           /\ \A p \in Parts : /\ data'[p].put = data[p].put
                               /\ data[p].schema \subseteq data'[p].schema
                               /\ data'[p].schema \subseteq data[p].schema \cup code
<1>1. /\ container' = [code |-> code, up |-> TRUE] /\ data \in [Parts -> Part]
      /\ data' = [p \in Parts |-> IF p = "home" THEN data[p] ELSE [data[p] EXCEPT !.schema = @ \cup code]]
  BY DEF Starts, HostInv, HostTypes, HostTypeOK
<1>2. ASSUME NEW p \in Parts
      PROVE  /\ data'[p] \in Part /\ data'[p].put = data[p].put
             /\ data[p].schema \subseteq data'[p].schema
             /\ data'[p].schema \subseteq data[p].schema \cup code
  BY <1>1 DEF Part, Code
<1>3. data' \in [Parts -> Part]
  BY <1>1, <1>2
<1>4. QED
  BY <1>1, <1>2, <1>3

LEMMA BuildKeeps == ASSUME HostInv, Build("build", "record") PROVE HostInv'
<1>1. /\ script.at = "build" /\ Goto("record")
      /\ source' = [source EXCEPT !.image = repo.head]
      /\ UNCHANGED <<origin, repo, env, saved, container, data, backup, ledger>>
  BY DEF Build, Reached
<1>2. HostTypes /\ EarlyOK /\ LateOK /\ UndoOK /\ PointOK /\ StateOK /\ DataOK /\ SettledOK /\ RepoOK
  BY DEF HostInv
<1>3. /\ script'.at = "record" /\ script'.mode = script.mode /\ script'.to = script.to
      /\ script'.pos = script.pos /\ script'.id = script.id
      /\ script' \in [at: Steps, mode: {"none", "release", "edge", "rollback"}, to: 0..Newest,
                      pos: Code, id: 0..MaxRuns]
  BY <1>1, ScriptGoes DEF Steps, EarlySteps, LateSteps, UndoSteps, Refilled
<1>4. /\ Unfinished /\ ~saved.state.rollback
      /\ script.mode = "edge" /\ script.mode = saved.state.mode /\ script.to = saved.state.to
      /\ env.local /\ env.version = script.to
      /\ ~ledger.strayed => repo.head = Newer(saved.state.head, repo.seen)
  BY <1>1, <1>2 DEF LateOK, AtOneOf, LateSteps
<1>5. source' \in [image: Code, built: Code] /\ source'.image = repo.head
  BY <1>1, <1>2 DEF LateOK, AtOneOf, LateSteps, HostTypes, HostTypeOK
<1>6. HostTypes'
  BY <1>1, <1>2, <1>3, <1>5 DEF HostTypes, HostTypeOK
<1>7. EarlyOK' /\ UndoOK'
  BY <1>3 DEF EarlyOK, UndoOK, AtOneOf, EarlySteps, UndoSteps, Refilled
<1>8. LateOK'
  BY <1>1, <1>3, <1>4, <1>5 DEF LateOK, AtOneOf, LateSteps, Unfinished
<1>9. PointOK' /\ StateOK' /\ DataOK' /\ RepoOK'
  BY <1>1, <1>2, <1>4 DEF PointOK, StateOK, DataOK, RepoOK, BuildsSource
<1>10. SettledOK'
  BY <1>1, <1>4 DEF SettledOK, Unfinished
<1>11. QED
  BY <1>6, <1>7, <1>8, <1>9, <1>10 DEF HostInv

LEMMA RecordKeeps == ASSUME HostInv, Record("record", "up") PROVE HostInv'
<1>1. /\ script.at = "record" /\ Goto("up")
      /\ source' = [source EXCEPT !.built = repo.head]
      /\ UNCHANGED <<origin, repo, env, saved, container, data, backup, ledger>>
  BY DEF Record, Reached
<1>2. HostTypes /\ EarlyOK /\ LateOK /\ UndoOK /\ PointOK /\ StateOK /\ DataOK /\ SettledOK /\ RepoOK
  BY DEF HostInv
<1>3. /\ script'.at = "up" /\ script'.mode = script.mode /\ script'.to = script.to
      /\ script'.pos = script.pos /\ script'.id = script.id
      /\ script' \in [at: Steps, mode: {"none", "release", "edge", "rollback"}, to: 0..Newest,
                      pos: Code, id: 0..MaxRuns]
  BY <1>1, ScriptGoes DEF Steps, EarlySteps, LateSteps, UndoSteps, Refilled
<1>4. /\ Unfinished /\ ~saved.state.rollback
      /\ script.mode = "edge" /\ script.mode = saved.state.mode /\ script.to = saved.state.to
      /\ env.local /\ env.version = script.to
      /\ ~ledger.strayed => repo.head = Newer(saved.state.head, repo.seen)
  BY <1>1, <1>2 DEF LateOK, AtOneOf, LateSteps
<1>5. source' \in [image: Code, built: Code] /\ source'.image = source.image /\ source.image = repo.head
  BY <1>1, <1>2 DEF LateOK, AtOneOf, LateSteps, HostTypes, HostTypeOK
<1>6. HostTypes'
  BY <1>1, <1>2, <1>3, <1>5 DEF HostTypes, HostTypeOK
<1>7. EarlyOK' /\ UndoOK'
  BY <1>3 DEF EarlyOK, UndoOK, AtOneOf, EarlySteps, UndoSteps, Refilled
<1>8. LateOK'
  BY <1>1, <1>3, <1>4, <1>5 DEF LateOK, AtOneOf, LateSteps, Unfinished
<1>9. PointOK' /\ StateOK' /\ DataOK' /\ RepoOK'
  BY <1>1, <1>2, <1>4 DEF PointOK, StateOK, DataOK, RepoOK, BuildsSource
<1>10. SettledOK'
  BY <1>1, <1>4 DEF SettledOK, Unfinished
<1>11. QED
  BY <1>6, <1>7, <1>8, <1>9, <1>10 DEF HostInv

\* The code the app is restarted with contains what migrated its data.
LEMMA RestartKeeps == ASSUME HostInv, Restart PROVE HostInv'
<1>1. /\ script.at = "up" /\ Starts(Selected) /\ Goto("done")
      /\ UNCHANGED <<origin, repo, env, saved, source, backup, ledger>>
  BY DEF Restart, Reached
<1>2. HostTypes /\ EarlyOK /\ LateOK /\ UndoOK /\ PointOK /\ StateOK /\ DataOK /\ SettledOK /\ RepoOK
  BY DEF HostInv
<1>3. /\ script'.at = "done" /\ script'.mode = script.mode /\ script'.to = script.to
      /\ script'.pos = script.pos /\ script'.id = script.id
      /\ script' \in [at: Steps, mode: {"none", "release", "edge", "rollback"}, to: 0..Newest,
                      pos: Code, id: 0..MaxRuns]
  BY <1>1, ScriptGoes DEF Steps, EarlySteps, LateSteps, UndoSteps, Refilled
<1>4. /\ Unfinished /\ saved.state # NoState /\ ~saved.state.done /\ ~saved.state.rollback
      /\ script.mode = saved.state.mode /\ script.to = saved.state.to
      /\ (env.local <=> script.mode = "edge") /\ env.version = script.to
      /\ script.mode = "edge" => source.image = repo.head
      /\ script.mode = "edge" /\ ~ledger.strayed => repo.head = Newer(saved.state.head, repo.seen)
  BY <1>1, <1>2 DEF LateOK, AtOneOf, LateSteps, Unfinished
<1>5. /\ \/ saved.state.mode = "release" /\ saved.state.to \in Tagged
         \/ saved.state.mode = "edge" /\ saved.state.to = 0
      /\ saved.state.mode = "release" => container.code \subseteq Up(saved.state.to)
      /\ saved.state.mode = "edge" /\ ~ledger.strayed => container.code \subseteq Newer(saved.state.head, repo.seen)
  BY <1>2, <1>4 DEF StateOK
<1>6. /\ saved.state.mode = "release" => Selected = Up(saved.state.to)
      /\ saved.state.mode = "edge" => Selected = repo.head
  BY <1>4, <1>5, HostAssumption DEF Selected, ImageOf, BuildsSource
<1>7. Selected \in Code /\ (~ledger.strayed => container.code \subseteq Selected)
  BY <1>2, <1>4, <1>5, <1>6, UpIsCode, HostAssumption DEF HostTypes, HostTypeOK
<1>8. /\ container' = [code |-> Selected, up |-> TRUE] /\ data' \in [Parts -> Part]
      /\ \A p \in Parts : /\ data'[p].put = data[p].put
                          /\ data[p].schema \subseteq data'[p].schema
                          /\ data'[p].schema \subseteq data[p].schema \cup Selected
  BY <1>1, <1>7, StartsMigrate
<1>9. HostTypes'
  BY <1>1, <1>2, <1>3, <1>7, <1>8 DEF HostTypes, HostTypeOK
<1>10. EarlyOK' /\ UndoOK'
  BY <1>3 DEF EarlyOK, UndoOK, AtOneOf, EarlySteps, UndoSteps, Refilled
<1>11. LateOK'
  BY <1>1, <1>3, <1>4, <1>8 DEF Selected, ImageOf, BuildsSource, LateOK, AtOneOf, LateSteps, Unfinished
<1>12. PointOK' /\ RepoOK'
  BY <1>1, <1>2 DEF PointOK, RepoOK
<1>13. StateOK'
  BY <1>1, <1>2, <1>4, <1>5, <1>6, <1>8 DEF StateOK
<1>14. DataOK'
  BY <1>1, <1>2, <1>4, <1>7, <1>8 DEF DataOK, Parts
<1>15. SettledOK'
  BY <1>1, <1>4 DEF SettledOK, Unfinished
<1>16. QED
  BY <1>9, <1>10, <1>11, <1>12, <1>13, <1>14, <1>15 DEF HostInv

LEMMA DoneKeeps == ASSUME HostInv, Done PROVE HostInv'
<1>1. /\ script.at = "done" /\ script' = NoScript
      /\ saved' = [saved EXCEPT !.state.done = TRUE]
      /\ UNCHANGED <<origin, repo, env, source, container, data, backup, ledger>>
  BY DEF Done, Reached
<1>2. HostTypes /\ EarlyOK /\ LateOK /\ UndoOK /\ PointOK /\ StateOK /\ DataOK /\ SettledOK /\ RepoOK
  BY DEF HostInv
<1>3. /\ Unfinished /\ saved.state # NoState /\ ~saved.state.done /\ ~saved.state.rollback
      /\ script.mode = saved.state.mode /\ script.to = saved.state.to
      /\ (env.local <=> script.mode = "edge") /\ env.version = script.to /\ container.code = ImageOf(env)
  BY <1>1, <1>2 DEF LateOK, AtOneOf, LateSteps, Unfinished
<1>4. /\ \/ saved.state.mode = "release" /\ saved.state.to \in Tagged
         \/ saved.state.mode = "edge" /\ saved.state.to = 0
  BY <1>2, <1>3 DEF StateOK
<1>5. /\ saved'.state = [saved.state EXCEPT !.done = TRUE]
      /\ saved'.before = saved.before /\ saved'.replaced = saved.replaced
      /\ saved' = [state |-> saved'.state, before |-> saved'.before, replaced |-> saved'.replaced]
  BY <1>1, <1>2 DEF HostTypes
<1>6. /\ saved'.state \in State
      /\ saved'.state.of = saved.state.of /\ saved'.state.mode = saved.state.mode /\ saved'.state.to = saved.state.to
      /\ saved'.state.done /\ saved'.state.ref = saved.state.ref /\ saved'.state.head = saved.state.head
      /\ saved'.state.backup = saved.state.backup /\ ~saved'.state.rollback /\ saved'.state.after = saved.state.after
  BY <1>2, <1>3, <1>5 DEF HostTypes, State
<1>7. HostTypes'
  BY <1>1, <1>2, <1>5, <1>6, RestIsNoScript DEF HostTypes, HostTypeOK
<1>8. EarlyOK' /\ LateOK' /\ UndoOK'
  BY <1>1, RestIsNoScript DEF EarlyOK, LateOK, UndoOK, AtOneOf, EarlySteps, LateSteps, UndoSteps, Refilled
<1>9. PointOK'
  BY <1>1, <1>2, <1>3, <1>5, <1>6 DEF PointOK
<1>10. StateOK' /\ DataOK' /\ RepoOK'
  BY <1>1, <1>2, <1>3, <1>6 DEF StateOK, DataOK, RepoOK
<1>11. SettledOK'
  BY <1>1, <1>3, <1>4, HostAssumption DEF ImageOf, SettledOK, Unfinished, Agrees, BuildsSource
<1>12. QED
  BY <1>7, <1>8, <1>9, <1>10, <1>11 DEF HostInv



-----------------------------------------------------------------------------
(* The rollback                                                            *)

LEMMA BeginRollbackKeeps == ASSUME HostInv, BeginRollback PROVE HostInv'
<1>1. /\ script.at = "rest" /\ ledger.runs < MaxRuns /\ saved.state # NoState
      /\ script' = [at |-> "stop", mode |-> "rollback", to |-> saved.state.to, pos |-> saved.state.ref,
                    id |-> ledger.runs + 1]
      /\ ledger' = [ledger EXCEPT !.runs = @ + 1]
      /\ saved' = [saved EXCEPT !.state.rollback = TRUE]
      /\ UNCHANGED <<origin, repo, env, source, container, data, backup>>
  BY DEF BeginRollback, Run, Reached
<1>2. HostTypes /\ EarlyOK /\ LateOK /\ UndoOK /\ PointOK /\ StateOK /\ DataOK /\ SettledOK /\ RepoOK
  BY DEF HostInv
<1>3. saved.state.of \in 1..ledger.runs
  BY <1>1, <1>2 DEF PointOK
<1>4. /\ saved'.state = [saved.state EXCEPT !.rollback = TRUE]
      /\ saved'.before = saved.before /\ saved'.replaced = saved.replaced
      /\ saved' = [state |-> saved'.state, before |-> saved'.before, replaced |-> saved'.replaced]
  BY <1>1, <1>2 DEF HostTypes
<1>5. /\ saved'.state \in State
      /\ saved'.state.of = saved.state.of /\ saved'.state.mode = saved.state.mode /\ saved'.state.to = saved.state.to
      /\ saved'.state.ref = saved.state.ref /\ saved'.state.head = saved.state.head
      /\ saved'.state.backup = saved.state.backup /\ saved'.state.rollback /\ saved'.state.after = saved.state.after
  BY <1>2, <1>4 DEF HostTypes, State
<1>6. /\ script'.at = "stop" /\ script'.pos = saved.state.ref
      /\ script' \in [at: Steps, mode: {"none", "release", "edge", "rollback"}, to: 0..Newest,
                      pos: Code, id: 0..MaxRuns]
  BY <1>1, <1>2, HostAssumption DEF HostTypes, State, Steps, UndoSteps
<1>7. /\ ledger'.runs = ledger.runs + 1 /\ ledger'.own = ledger.own /\ ledger'.strayed = ledger.strayed
      /\ ledger'.ran = ledger.ran
      /\ ledger' \in [runs: 0..MaxRuns, stops: Nat, deeds: Nat, own: SUBSET AllChanges, strayed: BOOLEAN,
                      ran: [Runs -> [code: Code, env: Env \cup {NoEnv}]]]
  BY <1>1, <1>2, HostAssumption DEF HostTypes
<1>8. saved'.state # NoState
  BY <1>3, <1>5, StatesDiffer
<1>9. HostTypes'
  BY <1>1, <1>2, <1>4, <1>5, <1>6, <1>7 DEF HostTypes, HostTypeOK
<1>10. EarlyOK' /\ LateOK'
  BY <1>6 DEF EarlyOK, LateOK, AtOneOf, EarlySteps, LateSteps
<1>11. UndoOK'
  BY <1>1, <1>5, <1>6, <1>8 DEF UndoOK, AtOneOf, UndoSteps, Refilled
<1>12. PointOK'
  BY <1>1, <1>2, <1>3, <1>5, <1>7, HostAssumption DEF PointOK, BuildsSource, HostTypes
<1>13. StateOK'
  BY <1>1, <1>2, <1>5, <1>7, ZenonT(40) DEF StateOK
<1>14. DataOK'
  BY <1>1, <1>2, <1>5, <1>7 DEF DataOK
<1>15. SettledOK' /\ RepoOK'
  BY <1>1, <1>2, <1>5, <1>7 DEF SettledOK, RepoOK
<1>16. QED
  BY <1>9, <1>10, <1>11, <1>12, <1>13, <1>14, <1>15 DEF HostInv

LEMMA StopAppKeeps == ASSUME HostInv, StopApp PROVE HostInv'
<1>1. /\ script.at = "stop" /\ Goto("back")
      /\ container' = [container EXCEPT !.up = FALSE]
      /\ UNCHANGED <<origin, repo, env, saved, source, data, backup, ledger>>
  BY DEF StopApp, Reached
<1>2. HostTypes /\ EarlyOK /\ LateOK /\ UndoOK /\ PointOK /\ StateOK /\ DataOK /\ SettledOK /\ RepoOK
  BY DEF HostInv
<1>3. /\ script'.at = "back" /\ script'.mode = script.mode /\ script'.to = script.to
      /\ script'.pos = script.pos /\ script'.id = script.id
      /\ script' \in [at: Steps, mode: {"none", "release", "edge", "rollback"}, to: 0..Newest,
                      pos: Code, id: 0..MaxRuns]
  BY <1>1, ScriptGoes DEF Steps, EarlySteps, LateSteps, UndoSteps, Refilled
<1>4. /\ saved.state # NoState /\ saved.state.rollback /\ script.pos = saved.state.ref
  BY <1>1, <1>2 DEF UndoOK, AtOneOf, UndoSteps, Refilled
<1>5. container' \in [code: Code, up: BOOLEAN] /\ ~container'.up
  BY <1>1, <1>2 DEF HostTypes, HostTypeOK
<1>6. HostTypes'
  BY <1>1, <1>2, <1>3, <1>5 DEF HostTypes, HostTypeOK
<1>7. EarlyOK' /\ LateOK'
  BY <1>3 DEF EarlyOK, LateOK, AtOneOf, EarlySteps, LateSteps
<1>8. UndoOK'
  BY <1>1, <1>3, <1>4, <1>5 DEF UndoOK, AtOneOf, UndoSteps, Refilled
<1>9. PointOK' /\ RepoOK'
  BY <1>1, <1>2 DEF PointOK, RepoOK
<1>10. StateOK' /\ SettledOK' /\ DataOK'
  BY <1>1, <1>2, <1>4, <1>5 DEF StateOK, DataOK, SettledOK
<1>11. QED
  BY <1>6, <1>7, <1>8, <1>9, <1>10 DEF HostInv

\* The branch goes back only from where the update left it: nothing of one's own is on it.
LEMMA BackKeeps == ASSUME HostInv, Back PROVE HostInv'
<1>1. /\ script.at = "back" /\ Goto("replaced")
      /\ UNCHANGED <<origin, env, saved, source, container, data, backup, ledger>>
      /\ \/ /\ TipIsOurs /\ saved.state.mode = "edge"
            /\ repo' = [repo EXCEPT !.tip = saved.state.head, !.head = script.pos, !.on = script.pos = saved.state.head]
         \/ repo' = [repo EXCEPT !.head = script.pos, !.on = FALSE]
         \/ repo' = [repo EXCEPT !.tip = repo.tip, !.head = script.pos, !.on = FALSE]
  BY DEF Back, Reached
<1>2. HostTypes /\ EarlyOK /\ LateOK /\ UndoOK /\ PointOK /\ StateOK /\ DataOK /\ SettledOK /\ RepoOK
  BY DEF HostInv
<1>3. /\ script'.at = "replaced" /\ script'.mode = script.mode /\ script'.to = script.to
      /\ script'.pos = script.pos /\ script'.id = script.id
      /\ script' \in [at: Steps, mode: {"none", "release", "edge", "rollback"}, to: 0..Newest,
                      pos: Code, id: 0..MaxRuns]
  BY <1>1, ScriptGoes DEF Steps, EarlySteps, LateSteps, UndoSteps, Refilled
<1>4. /\ saved.state # NoState /\ saved.state.rollback /\ script.pos = saved.state.ref
  BY <1>1, <1>2 DEF UndoOK, AtOneOf, UndoSteps, Refilled
<1>5. /\ script.pos \in Code /\ saved.state.head \in Code /\ saved.state.ref = script.pos
      /\ repo \in [tip: Code, head: Code, on: BOOLEAN, seen: 1..Newest]
  BY <1>2, <1>4 DEF State, HostTypes, HostTypeOK
<1>6. /\ repo' \in [tip: Code, head: Code, on: BOOLEAN, seen: 1..Newest] /\ repo'.head = script.pos
      /\ repo'.on => repo'.head = repo'.tip
      /\ \/ repo'.tip = repo.tip
         \/ repo'.tip = saved.state.head /\ TipIsOurs /\ saved.state.mode = "edge"
  BY <1>1, <1>5
<1>7. ASSUME ~ledger.strayed
      PROVE  ledger.own \subseteq repo'.tip
  BY <1>2, <1>7, HostAssumption, <1>4, <1>6 DEF RepoOK, NoCode, Up, StateOK, TipIsOurs
<1>8. HostTypes'
  BY <1>1, <1>2, <1>3, <1>6 DEF HostTypes, HostTypeOK
<1>9. EarlyOK' /\ LateOK'
  BY <1>3 DEF EarlyOK, LateOK, AtOneOf, EarlySteps, LateSteps
<1>10. UndoOK'
  BY <1>1, <1>2, <1>3, <1>4, <1>5, <1>6 DEF UndoOK, AtOneOf, UndoSteps, Refilled
<1>11. PointOK' /\ StateOK' /\ SettledOK' /\ DataOK'
  BY <1>1, <1>2, <1>4 DEF PointOK, StateOK, DataOK, SettledOK, BuildsSource
<1>12. RepoOK'
  BY <1>1, <1>2, <1>6, <1>7 DEF RepoOK
<1>13. QED
  BY <1>8, <1>9, <1>10, <1>11, <1>12 DEF HostInv


LEMMA KeepReplacedKeeps == ASSUME HostInv, KeepReplaced PROVE HostInv'
<1>1. /\ script.at = "replaced" /\ Goto("env")
      /\ UNCHANGED <<origin, repo, env, source, container, data, backup, ledger>>
      /\ \/ saved' = saved
         \/ saved' = [saved EXCEPT !.replaced = env, !.state.replaced = TRUE]
  BY DEF KeepReplaced, Reached
<1>2. HostTypes /\ EarlyOK /\ LateOK /\ UndoOK /\ PointOK /\ StateOK /\ DataOK /\ SettledOK /\ RepoOK
  BY DEF HostInv
<1>3. /\ script'.at = "env" /\ script'.mode = script.mode /\ script'.to = script.to
      /\ script'.pos = script.pos /\ script'.id = script.id
      /\ script' \in [at: Steps, mode: {"none", "release", "edge", "rollback"}, to: 0..Newest,
                      pos: Code, id: 0..MaxRuns]
  BY <1>1, ScriptGoes DEF Steps, EarlySteps, LateSteps, UndoSteps, Refilled
<1>4. /\ saved.state # NoState /\ saved.state.rollback /\ script.pos = saved.state.ref /\ ~container.up /\ repo.head = saved.state.ref
  BY <1>1, <1>2 DEF UndoOK, AtOneOf, UndoSteps, Refilled
<1>5. saved.state.of # 0
  BY <1>2, <1>4 DEF PointOK
<1>6. /\ saved'.state \in State /\ saved'.before = saved.before /\ saved'.replaced \in Env \cup {NoEnv}
      /\ saved' = [state |-> saved'.state, before |-> saved'.before, replaced |-> saved'.replaced]
      /\ saved'.state.of = saved.state.of /\ saved'.state.mode = saved.state.mode /\ saved'.state.to = saved.state.to
      /\ saved'.state.ref = saved.state.ref /\ saved'.state.head = saved.state.head
      /\ saved'.state.backup = saved.state.backup /\ saved'.state.rollback /\ saved'.state.after = saved.state.after
  <2>1. CASE saved' = saved
    BY <1>2, <1>4, <2>1 DEF HostTypes, HostTypeOK
  <2>2. CASE saved' = [saved EXCEPT !.replaced = env, !.state.replaced = TRUE]
    BY <1>2, <2>2, <1>4 DEF HostTypes, HostTypeOK, State
  <2>3. QED
    BY <1>1, <2>1, <2>2
<1>7. saved'.state # NoState
  BY <1>5, <1>6, StatesDiffer
<1>8. HostTypes'
  BY <1>1, <1>2, <1>3, <1>6 DEF HostTypes, HostTypeOK
<1>9. EarlyOK' /\ LateOK'
  BY <1>3 DEF EarlyOK, LateOK, AtOneOf, EarlySteps, LateSteps
<1>10. UndoOK'
  BY <1>1, <1>3, <1>4, <1>6, <1>7 DEF UndoOK, AtOneOf, UndoSteps, Refilled
<1>11. PointOK'
  BY <1>1, <1>2, <1>4, <1>6 DEF PointOK, BuildsSource
<1>12. StateOK'
  BY <1>1, <1>2, <1>4, <1>6 DEF StateOK
<1>13. DataOK' /\ SettledOK' /\ RepoOK'
  BY <1>1, <1>2, <1>4, <1>6 DEF DataOK, SettledOK, RepoOK
<1>14. QED
  BY <1>8, <1>9, <1>10, <1>11, <1>12, <1>13 DEF HostInv

LEMMA RestoreEnvKeeps == ASSUME HostInv, RestoreEnv PROVE HostInv'
<1>1. /\ script.at = "env" /\ env' = saved.before.env
      /\ Goto(IF saved.state.mode = "edge" /\ BuildsSource(env') THEN "rebuild" ELSE "recreate")
      /\ UNCHANGED <<origin, repo, saved, source, container, data, backup, ledger>>
  BY DEF RestoreEnv, Reached
<1>2. HostTypes /\ EarlyOK /\ LateOK /\ UndoOK /\ PointOK /\ StateOK /\ DataOK /\ SettledOK /\ RepoOK
  BY DEF HostInv
<1>3. /\ script'.at \in {"rebuild", "recreate"}
      /\ script'.at = "rebuild" => saved.state.mode = "edge"
      /\ script'.at = "recreate" => ~(saved.state.mode = "edge" /\ BuildsSource(env'))
      /\ script'.mode = script.mode /\ script'.to = script.to
      /\ script'.pos = script.pos /\ script'.id = script.id
      /\ script' \in [at: Steps, mode: {"none", "release", "edge", "rollback"}, to: 0..Newest,
                      pos: Code, id: 0..MaxRuns]
  BY <1>1, ScriptGoes DEF Steps, UndoSteps
<1>4. /\ saved.state # NoState /\ saved.state.rollback /\ script.pos = saved.state.ref /\ ~container.up /\ repo.head = saved.state.ref
  BY <1>1, <1>2 DEF UndoOK, AtOneOf, UndoSteps, Refilled
<1>5. /\ saved.before.env \in Env /\ saved.state.mode \in {"release", "edge"}
      /\ saved.state.mode = "release" /\ BuildsSource(env') => source.image = saved.state.ref
  BY <1>1, <1>2, <1>4 DEF PointOK, StateOK
<1>6. HostTypes'
  BY <1>1, <1>2, <1>3, <1>5 DEF HostTypes, HostTypeOK
<1>7. EarlyOK' /\ LateOK'
  BY <1>3 DEF EarlyOK, LateOK, AtOneOf, EarlySteps, LateSteps
<1>8. UndoOK'
  BY <1>1, <1>3, <1>4, <1>5 DEF BuildsSource, UndoOK, AtOneOf, UndoSteps, Refilled
<1>9. PointOK' /\ StateOK'
  BY <1>1, <1>2 DEF PointOK, StateOK
<1>10. DataOK' /\ SettledOK' /\ RepoOK'
  BY <1>1, <1>2, <1>4 DEF DataOK, SettledOK, RepoOK
<1>11. QED
  BY <1>6, <1>7, <1>8, <1>9, <1>10 DEF HostInv

LEMMA RebuildKeeps == ASSUME HostInv, Build("rebuild", "rerecord") PROVE HostInv'
<1>1. /\ script.at = "rebuild" /\ Goto("rerecord")
      /\ source' = [source EXCEPT !.image = repo.head]
      /\ UNCHANGED <<origin, repo, env, saved, container, data, backup, ledger>>
  BY DEF Build, Reached
<1>2. HostTypes /\ EarlyOK /\ LateOK /\ UndoOK /\ PointOK /\ StateOK /\ DataOK /\ SettledOK /\ RepoOK
  BY DEF HostInv
<1>3. /\ script'.at = "rerecord" /\ script'.mode = script.mode /\ script'.to = script.to
      /\ script'.pos = script.pos /\ script'.id = script.id
      /\ script' \in [at: Steps, mode: {"none", "release", "edge", "rollback"}, to: 0..Newest,
                      pos: Code, id: 0..MaxRuns]
  BY <1>1, ScriptGoes DEF Steps, EarlySteps, LateSteps, UndoSteps, Refilled
<1>4. /\ saved.state # NoState /\ saved.state.rollback /\ script.pos = saved.state.ref
      /\ ~container.up /\ saved.state.mode = "edge" /\ env = saved.before.env /\ repo.head = saved.state.ref
  BY <1>1, <1>2 DEF UndoOK, AtOneOf, UndoSteps, Refilled
<1>5. source' \in [image: Code, built: Code] /\ source'.image = repo.head
  BY <1>1, <1>2 DEF HostTypes, HostTypeOK
<1>6. HostTypes'
  BY <1>1, <1>2, <1>3, <1>5 DEF HostTypes, HostTypeOK
<1>7. EarlyOK' /\ LateOK'
  BY <1>3 DEF EarlyOK, LateOK, AtOneOf, EarlySteps, LateSteps
<1>8. UndoOK'
  BY <1>1, <1>3, <1>4, <1>5 DEF BuildsSource, UndoOK, AtOneOf, UndoSteps, Refilled
<1>9. PointOK' /\ StateOK'
  BY <1>1, <1>2, <1>4 DEF PointOK, StateOK, BuildsSource
<1>10. DataOK' /\ SettledOK' /\ RepoOK'
  BY <1>1, <1>2, <1>4 DEF DataOK, SettledOK, RepoOK
<1>11. QED
  BY <1>6, <1>7, <1>8, <1>9, <1>10 DEF HostInv

LEMMA RerecordKeeps == ASSUME HostInv, Record("rerecord", "recreate") PROVE HostInv'
<1>1. /\ script.at = "rerecord" /\ Goto("recreate")
      /\ source' = [source EXCEPT !.built = repo.head]
      /\ UNCHANGED <<origin, repo, env, saved, container, data, backup, ledger>>
  BY DEF Record, Reached
<1>2. HostTypes /\ EarlyOK /\ LateOK /\ UndoOK /\ PointOK /\ StateOK /\ DataOK /\ SettledOK /\ RepoOK
  BY DEF HostInv
<1>3. /\ script'.at = "recreate" /\ script'.mode = script.mode /\ script'.to = script.to
      /\ script'.pos = script.pos /\ script'.id = script.id
      /\ script' \in [at: Steps, mode: {"none", "release", "edge", "rollback"}, to: 0..Newest,
                      pos: Code, id: 0..MaxRuns]
  BY <1>1, ScriptGoes DEF Steps, EarlySteps, LateSteps, UndoSteps, Refilled
<1>4. /\ saved.state # NoState /\ saved.state.rollback /\ script.pos = saved.state.ref
      /\ ~container.up /\ saved.state.mode = "edge" /\ env = saved.before.env
      /\ BuildsSource(env) => source.image = saved.state.ref
  BY <1>1, <1>2 DEF UndoOK, AtOneOf, UndoSteps, Refilled
<1>5. source' \in [image: Code, built: Code] /\ source'.image = source.image
  BY <1>1, <1>2 DEF HostTypes, HostTypeOK
<1>6. HostTypes'
  BY <1>1, <1>2, <1>3, <1>5 DEF HostTypes, HostTypeOK
<1>7. EarlyOK' /\ LateOK'
  BY <1>3 DEF EarlyOK, LateOK, AtOneOf, EarlySteps, LateSteps
<1>8. UndoOK'
  BY <1>1, <1>3, <1>4, <1>5 DEF BuildsSource, UndoOK, AtOneOf, UndoSteps, Refilled
<1>9. PointOK' /\ StateOK'
  BY <1>1, <1>2, <1>4 DEF PointOK, StateOK, BuildsSource
<1>10. DataOK' /\ SettledOK' /\ RepoOK'
  BY <1>1, <1>2, <1>4 DEF DataOK, SettledOK, RepoOK
<1>11. QED
  BY <1>6, <1>7, <1>8, <1>9, <1>10 DEF HostInv

\* What the settings select is the code the rollback goes back to.
LEMMA RecreateKeeps == ASSUME HostInv, Recreate PROVE HostInv'
<1>1. /\ script.at = "recreate" /\ Goto("core") /\ Selected # NoCode
      /\ container' = [code |-> Selected, up |-> FALSE]
      /\ UNCHANGED <<origin, repo, env, saved, source, data, backup, ledger>>
  BY DEF Recreate, Reached
<1>2. HostTypes /\ EarlyOK /\ LateOK /\ UndoOK /\ PointOK /\ StateOK /\ DataOK /\ SettledOK /\ RepoOK
  BY DEF HostInv
<1>3. /\ script'.at = "core" /\ script'.mode = script.mode /\ script'.to = script.to
      /\ script'.pos = script.pos /\ script'.id = script.id
      /\ script' \in [at: Steps, mode: {"none", "release", "edge", "rollback"}, to: 0..Newest,
                      pos: Code, id: 0..MaxRuns]
  BY <1>1, ScriptGoes DEF Steps, EarlySteps, LateSteps, UndoSteps, Refilled
<1>4. /\ saved.state # NoState /\ saved.state.rollback /\ script.pos = saved.state.ref
      /\ env = saved.before.env /\ (BuildsSource(env) => source.image = saved.state.ref)
  BY <1>1, <1>2 DEF UndoOK, AtOneOf, UndoSteps, Refilled
<1>5. Selected = saved.state.ref /\ saved.state.ref \in Code
  BY <1>1, <1>2, <1>4 DEF Selected, ImageOf, PointOK, HostTypes, State
<1>6. HostTypes'
  BY <1>1, <1>2, <1>3, <1>5 DEF HostTypes, HostTypeOK
<1>7. EarlyOK' /\ LateOK'
  BY <1>3 DEF EarlyOK, LateOK, AtOneOf, EarlySteps, LateSteps
<1>8. UndoOK'
  BY <1>1, <1>3, <1>4, <1>5 DEF BuildsSource, UndoOK, AtOneOf, UndoSteps, Refilled
<1>9. PointOK' /\ StateOK'
  BY <1>1, <1>2, <1>4 DEF PointOK, StateOK
<1>10. DataOK' /\ SettledOK' /\ RepoOK'
  BY <1>1, <1>2, <1>4 DEF DataOK, SettledOK, RepoOK
<1>11. QED
  BY <1>6, <1>7, <1>8, <1>9, <1>10 DEF HostInv

\* restore.sh puts back one part, as the backup holds it.
LEMMA PartIsPutBack ==
    ASSUME HostInv, saved.state # NoState, NEW p \in Parts,
           data' = [data EXCEPT ![p] = [backup[saved.state.backup][p] EXCEPT !.put = saved.state.backup]]
    PROVE  /\ data' \in [Parts -> Part] /\ data'[p].put = saved.state.backup
           /\ data'[p].schema = backup[saved.state.backup][p].schema
           /\ \A q \in Parts : q # p => data'[q] = data[q]
           /\ data'["core"].schema # {}
<1>1. /\ saved.state.backup \in Runs /\ data \in [Parts -> Part] /\ saved.state.backup \in 0..MaxRuns
      /\ backup[saved.state.backup][p] \in Part /\ backup[saved.state.backup] # NoData
  BY HostAssumption DEF HostInv, HostTypes, HostTypeOK, PointOK, Runs, State
<1>2. [backup[saved.state.backup][p] EXCEPT !.put = saved.state.backup] \in Part
  BY <1>1 DEF Part
<1>3. /\ data' \in [Parts -> Part] /\ \A q \in Parts : q # p => data'[q] = data[q]
      /\ data'[p] = [backup[saved.state.backup][p] EXCEPT !.put = saved.state.backup]
  BY <1>1, <1>2
<1>4. data'[p].put = saved.state.backup /\ data'[p].schema = backup[saved.state.backup][p].schema
  BY <1>1, <1>3 DEF Part
<1>5. data["core"].schema # {} /\ backup[saved.state.backup]["core"].schema # {} /\ "core" \in Parts
  BY <1>1 DEF HostInv, DataOK, Parts
<1>6. QED
  BY <1>3, <1>4, <1>5

LEMMA RestoreCoreKeeps == ASSUME HostInv, RestorePart("core", "core", "kyoube") PROVE HostInv'
<1>1. /\ script.at = "core" /\ Goto("kyoube")
      /\ data' = [data EXCEPT !["core"] = [backup[saved.state.backup]["core"] EXCEPT !.put = saved.state.backup]]
      /\ UNCHANGED <<origin, repo, env, saved, source, container, backup, ledger>>
  BY DEF RestorePart, Reached
<1>2. HostTypes /\ EarlyOK /\ LateOK /\ UndoOK /\ PointOK /\ StateOK /\ DataOK /\ SettledOK /\ RepoOK
  BY DEF HostInv
<1>3. /\ script'.at = "kyoube" /\ script'.mode = script.mode /\ script'.to = script.to
      /\ script'.pos = script.pos /\ script'.id = script.id
      /\ script' \in [at: Steps, mode: {"none", "release", "edge", "rollback"}, to: 0..Newest,
                      pos: Code, id: 0..MaxRuns]
  BY <1>1, ScriptGoes DEF Steps, EarlySteps, LateSteps, UndoSteps, Refilled
<1>4. /\ saved.state # NoState /\ saved.state.rollback /\ script.pos = saved.state.ref
      /\ ~container.up /\ container.code = saved.state.ref
      /\ env = saved.before.env /\ (BuildsSource(env) => source.image = saved.state.ref)
  BY <1>1, <1>2 DEF UndoOK, AtOneOf, UndoSteps, Refilled
<1>5. /\ data' \in [Parts -> Part] /\ data'["core"].put = saved.state.backup
      /\ data'["core"].schema = backup[saved.state.backup]["core"].schema
      /\ \A q \in Parts : q # "core" => data'[q] = data[q]
      /\ data'["core"].schema # {}
  BY <1>1, <1>4, PartIsPutBack DEF Parts
<1>6. Restored("core")'
  BY <1>1, <1>4, <1>5 DEF Restored, Parts
<1>7. HostTypes'
  BY <1>1, <1>2, <1>3, <1>5 DEF HostTypes, HostTypeOK
<1>8. EarlyOK' /\ LateOK'
  BY <1>3 DEF EarlyOK, LateOK, AtOneOf, EarlySteps, LateSteps
<1>9. UndoOK'
  BY <1>1, <1>3, <1>4, <1>6 DEF BuildsSource, UndoOK, AtOneOf, UndoSteps, Refilled
<1>10. PointOK' /\ StateOK'
  BY <1>1, <1>2, <1>4 DEF PointOK, StateOK
<1>11. DataOK' /\ SettledOK' /\ RepoOK'
  BY <1>1, <1>2, <1>4, <1>5 DEF DataOK, SettledOK, RepoOK
<1>12. QED
  BY <1>7, <1>8, <1>9, <1>10, <1>11 DEF HostInv

LEMMA RestoreKyoubeKeeps == ASSUME HostInv, RestorePart("kyoube", "kyoube", "home") PROVE HostInv'
<1>1. /\ script.at = "kyoube" /\ Goto("home")
      /\ data' = [data EXCEPT !["kyoube"] = [backup[saved.state.backup]["kyoube"] EXCEPT !.put = saved.state.backup]]
      /\ UNCHANGED <<origin, repo, env, saved, source, container, backup, ledger>>
  BY DEF RestorePart, Reached
<1>2. HostTypes /\ EarlyOK /\ LateOK /\ UndoOK /\ PointOK /\ StateOK /\ DataOK /\ SettledOK /\ RepoOK
  BY DEF HostInv
<1>3. /\ script'.at = "home" /\ script'.mode = script.mode /\ script'.to = script.to
      /\ script'.pos = script.pos /\ script'.id = script.id
      /\ script' \in [at: Steps, mode: {"none", "release", "edge", "rollback"}, to: 0..Newest,
                      pos: Code, id: 0..MaxRuns]
  BY <1>1, ScriptGoes DEF Steps, EarlySteps, LateSteps, UndoSteps, Refilled
<1>4. /\ saved.state # NoState /\ saved.state.rollback /\ script.pos = saved.state.ref
      /\ ~container.up /\ container.code = saved.state.ref
      /\ env = saved.before.env /\ (BuildsSource(env) => source.image = saved.state.ref)
      /\ Restored("core")
  BY <1>1, <1>2 DEF UndoOK, AtOneOf, UndoSteps, Refilled
<1>5. /\ data' \in [Parts -> Part] /\ data'["kyoube"].put = saved.state.backup
      /\ data'["kyoube"].schema = backup[saved.state.backup]["kyoube"].schema
      /\ \A q \in Parts : q # "kyoube" => data'[q] = data[q]
      /\ data'["core"].schema # {}
  BY <1>1, <1>4, PartIsPutBack DEF Parts
<1>6. Restored("core")' /\ Restored("kyoube")'
  BY <1>1, <1>4, <1>5 DEF Restored, Parts
<1>7. HostTypes'
  BY <1>1, <1>2, <1>3, <1>5 DEF HostTypes, HostTypeOK
<1>8. EarlyOK' /\ LateOK'
  BY <1>3 DEF EarlyOK, LateOK, AtOneOf, EarlySteps, LateSteps
<1>9. UndoOK'
  BY <1>1, <1>3, <1>4, <1>6 DEF BuildsSource, UndoOK, AtOneOf, UndoSteps, Refilled
<1>10. PointOK' /\ StateOK'
  BY <1>1, <1>2, <1>4 DEF PointOK, StateOK
<1>11. DataOK' /\ SettledOK' /\ RepoOK'
  BY <1>1, <1>2, <1>4, <1>5 DEF DataOK, SettledOK, RepoOK
<1>12. QED
  BY <1>7, <1>8, <1>9, <1>10, <1>11 DEF HostInv

LEMMA RestoreHomeKeeps == ASSUME HostInv, RestorePart("home", "fill", "start") PROVE HostInv'
<1>1. /\ script.at = "fill" /\ Goto("start")
      /\ data' = [data EXCEPT !["home"] = [backup[saved.state.backup]["home"] EXCEPT !.put = saved.state.backup]]
      /\ UNCHANGED <<origin, repo, env, saved, source, container, backup, ledger>>
  BY DEF RestorePart, Reached
<1>2. HostTypes /\ EarlyOK /\ LateOK /\ UndoOK /\ PointOK /\ StateOK /\ DataOK /\ SettledOK /\ RepoOK
  BY DEF HostInv
<1>3. /\ script'.at = "start" /\ script'.mode = script.mode /\ script'.to = script.to
      /\ script'.pos = script.pos /\ script'.id = script.id
      /\ script' \in [at: Steps, mode: {"none", "release", "edge", "rollback"}, to: 0..Newest,
                      pos: Code, id: 0..MaxRuns]
  BY <1>1, ScriptGoes DEF Steps, EarlySteps, LateSteps, UndoSteps, Refilled
<1>4. /\ saved.state # NoState /\ saved.state.rollback /\ script.pos = saved.state.ref
      /\ ~container.up /\ container.code = saved.state.ref
      /\ env = saved.before.env /\ (BuildsSource(env) => source.image = saved.state.ref)
      /\ Restored("core") /\ Restored("kyoube")
  BY <1>1, <1>2 DEF UndoOK, AtOneOf, UndoSteps, Refilled
<1>5. /\ data' \in [Parts -> Part] /\ data'["home"].put = saved.state.backup
      /\ data'["home"].schema = backup[saved.state.backup]["home"].schema
      /\ \A q \in Parts : q # "home" => data'[q] = data[q]
      /\ data'["core"].schema # {}
  BY <1>1, <1>4, PartIsPutBack DEF Parts
<1>6. Restored("core")' /\ Restored("kyoube")' /\ Restored("home")'
  BY <1>1, <1>4, <1>5 DEF Restored, Parts
<1>7. HostTypes'
  BY <1>1, <1>2, <1>3, <1>5 DEF HostTypes, HostTypeOK
<1>8. EarlyOK' /\ LateOK'
  BY <1>3 DEF EarlyOK, LateOK, AtOneOf, EarlySteps, LateSteps
<1>9. UndoOK'
  BY <1>1, <1>3, <1>4, <1>6 DEF BuildsSource, UndoOK, AtOneOf, UndoSteps, Refilled
<1>10. PointOK' /\ StateOK'
  BY <1>1, <1>2, <1>4 DEF PointOK, StateOK
<1>11. DataOK' /\ SettledOK' /\ RepoOK'
  BY <1>1, <1>2, <1>4, <1>5 DEF DataOK, SettledOK, RepoOK
<1>12. QED
  BY <1>7, <1>8, <1>9, <1>10, <1>11 DEF HostInv


LEMMA EmptyHomeKeeps == ASSUME HostInv, EmptyHome PROVE HostInv'
<1>1. /\ script.at = "home" /\ Goto("fill") /\ data' = [data EXCEPT !.home = NoData.home]
      /\ UNCHANGED <<origin, repo, env, saved, source, container, backup, ledger>>
  BY DEF EmptyHome, Reached
<1>2. HostTypes /\ EarlyOK /\ LateOK /\ UndoOK /\ PointOK /\ StateOK /\ DataOK /\ SettledOK /\ RepoOK
  BY DEF HostInv
<1>3. /\ script'.at = "fill" /\ script'.mode = script.mode /\ script'.to = script.to
      /\ script'.pos = script.pos /\ script'.id = script.id
      /\ script' \in [at: Steps, mode: {"none", "release", "edge", "rollback"}, to: 0..Newest,
                      pos: Code, id: 0..MaxRuns]
  BY <1>1, ScriptGoes DEF Steps, EarlySteps, LateSteps, UndoSteps, Refilled
<1>4. /\ saved.state # NoState /\ saved.state.rollback /\ script.pos = saved.state.ref
      /\ ~container.up /\ container.code = saved.state.ref /\ Restored("core") /\ Restored("kyoube")
      /\ env = saved.before.env /\ (BuildsSource(env) => source.image = saved.state.ref)
  BY <1>1, <1>2 DEF UndoOK, AtOneOf, UndoSteps, Refilled
<1>5. data \in [Parts -> Part] /\ NoData.home \in Part
  BY <1>2, HostAssumption DEF NoData, NoCode, Part, Parts, Code, HostTypes, HostTypeOK
<1>6. /\ data' \in [Parts -> Part] /\ data'["core"] = data["core"] /\ data'["kyoube"] = data["kyoube"]
  BY <1>1, <1>5 DEF Parts
<1>7. Restored("core")' /\ Restored("kyoube")'
  BY <1>1, <1>4, <1>6 DEF Restored
<1>8. HostTypes'
  BY <1>1, <1>2, <1>3, <1>6 DEF HostTypes, HostTypeOK
<1>9. EarlyOK' /\ LateOK'
  BY <1>3 DEF EarlyOK, LateOK, AtOneOf, EarlySteps, LateSteps
<1>10. UndoOK'
  BY <1>1, <1>3, <1>4, <1>7 DEF BuildsSource, UndoOK, AtOneOf, UndoSteps, Refilled
<1>11. PointOK' /\ StateOK'
  BY <1>1, <1>2, <1>4 DEF PointOK, StateOK
<1>12. DataOK' /\ SettledOK' /\ RepoOK'
  BY <1>1, <1>2, <1>4, <1>6 DEF DataOK, SettledOK, RepoOK
<1>13. QED
  BY <1>8, <1>9, <1>10, <1>11, <1>12 DEF HostInv

\* The code that starts took the backup it starts on.
LEMMA StartRestoredKeeps == ASSUME HostInv, StartRestored PROVE HostInv'
<1>1. /\ script.at = "start" /\ Starts(container.code) /\ Goto("clear")
      /\ UNCHANGED <<origin, repo, env, saved, source, backup, ledger>>
  BY DEF StartRestored, Reached
<1>2. HostTypes /\ EarlyOK /\ LateOK /\ UndoOK /\ PointOK /\ StateOK /\ DataOK /\ SettledOK /\ RepoOK
  BY DEF HostInv
<1>3. /\ script'.at = "clear" /\ script'.mode = script.mode /\ script'.to = script.to
      /\ script'.pos = script.pos /\ script'.id = script.id
      /\ script' \in [at: Steps, mode: {"none", "release", "edge", "rollback"}, to: 0..Newest,
                      pos: Code, id: 0..MaxRuns]
  BY <1>1, ScriptGoes DEF Steps, EarlySteps, LateSteps, UndoSteps, Refilled
<1>4. /\ saved.state # NoState /\ saved.state.rollback /\ script.pos = saved.state.ref
      /\ container.code = saved.state.ref /\ Restored("core") /\ Restored("kyoube") /\ Restored("home")
      /\ env = saved.before.env /\ (BuildsSource(env) => source.image = saved.state.ref)
  BY <1>1, <1>2 DEF UndoOK, AtOneOf, UndoSteps, Refilled
<1>5. container.code \in Code
  BY <1>2 DEF HostTypes, HostTypeOK
<1>6. /\ container' = [code |-> container.code, up |-> TRUE] /\ data' \in [Parts -> Part]
      /\ \A p \in Parts : /\ data'[p].put = data[p].put
                          /\ data[p].schema \subseteq data'[p].schema
                          /\ data'[p].schema \subseteq data[p].schema \cup container.code
  BY <1>1, <1>5, StartsMigrate
<1>7. \A p \in Parts : data'[p].put = saved.state.backup
  BY <1>4, <1>6 DEF Restored, Parts
<1>8. /\ saved.state.backup \in Runs /\ ledger.ran[saved.state.backup].code = container.code
      /\ data["core"].schema # {}
  BY SMTT(20), <1>2, <1>4, HostAssumption DEF PointOK, DataOK, Runs, HostTypes
<1>9. ~ledger.strayed => \A p \in Parts : data'[p].schema \subseteq container.code
  BY <1>2, <1>4, <1>6, <1>8 DEF Restored, Parts, DataOK
<1>10. HostTypes'
  BY <1>1, <1>2, <1>3, <1>5, <1>6 DEF HostTypes, HostTypeOK
<1>11. EarlyOK' /\ LateOK'
  BY <1>3 DEF EarlyOK, LateOK, AtOneOf, EarlySteps, LateSteps
<1>12. UndoOK'
  BY <1>1, <1>3, <1>4, <1>6, <1>7 DEF BuildsSource, UndoOK, AtOneOf, UndoSteps, Refilled
<1>13. PointOK' /\ StateOK'
  BY <1>1, <1>2, <1>4 DEF PointOK, StateOK
<1>14. DataOK'
  BY <1>1, <1>2, <1>4, <1>6, <1>7, <1>8, <1>9 DEF DataOK, Parts
<1>15. SettledOK' /\ RepoOK'
  BY <1>1, <1>2, <1>4 DEF SettledOK, RepoOK
<1>16. QED
  BY <1>10, <1>11, <1>12, <1>13, <1>14, <1>15 DEF HostInv

LEMMA ClearStateKeeps == ASSUME HostInv, ClearState, UNCHANGED <<origin, repo, env, source, container, data, backup, ledger>> PROVE HostInv'
<1>1. script.at = "clear" /\ Goto("clearEnv") /\ saved' = [saved EXCEPT !.state = NoState]
  BY DEF ClearState, Reached
<1>2. HostTypes /\ EarlyOK /\ LateOK /\ UndoOK /\ PointOK /\ StateOK /\ DataOK /\ SettledOK /\ RepoOK
  BY DEF HostInv
<1>3. /\ script'.at = "clearEnv" /\ script'.mode = script.mode /\ script'.to = script.to
      /\ script'.pos = script.pos /\ script'.id = script.id
      /\ script' \in [at: Steps, mode: {"none", "release", "edge", "rollback"}, to: 0..Newest,
                      pos: Code, id: 0..MaxRuns]
  BY <1>1, ScriptGoes DEF Steps, EarlySteps, LateSteps, UndoSteps, Refilled
<1>4. /\ saved.state # NoState /\ container.up /\ container.code = saved.state.ref /\ env = saved.before.env
      /\ BuildsSource(env) => source.image = saved.state.ref
  BY <1>1, <1>2 DEF UndoOK, AtOneOf, UndoSteps, Refilled
<1>5. Agrees(env, source.image, container.code)
  BY <1>2, <1>4 DEF PointOK, Agrees
<1>6. /\ saved'.state = NoState /\ saved'.before = saved.before /\ saved'.replaced = saved.replaced
      /\ saved' = [state |-> saved'.state, before |-> saved'.before, replaced |-> saved'.replaced]
  BY <1>1, <1>2 DEF HostTypes
<1>7. HostTypes'
  BY <1>2, <1>3, <1>6, StatesDiffer DEF HostTypes, HostTypeOK
<1>8. EarlyOK' /\ LateOK'
  BY <1>3 DEF EarlyOK, LateOK, AtOneOf, EarlySteps, LateSteps
<1>9. UndoOK'
  BY <1>3, <1>6 DEF UndoOK, AtOneOf, UndoSteps, Refilled
<1>10. PointOK' /\ StateOK' /\ RepoOK'
  BY <1>2, <1>6 DEF PointOK, StateOK, RepoOK
<1>11. SettledOK' /\ DataOK'
  BY <1>2, <1>4, <1>5, <1>6 DEF SettledOK, DataOK, Agrees, BuildsSource
<1>12. QED
  BY <1>7, <1>8, <1>9, <1>10, <1>11 DEF HostInv

LEMMA ClearEnvKeeps == ASSUME HostInv, ClearEnv, UNCHANGED <<origin, repo, env, source, container, data, backup, ledger>> PROVE HostInv'
<1>1. script.at = "clearEnv" /\ script' = NoScript /\ saved' = [saved EXCEPT !.before = NoCopy]
  BY DEF ClearEnv, Reached
<1>2. HostTypes /\ EarlyOK /\ LateOK /\ UndoOK /\ PointOK /\ StateOK /\ DataOK /\ SettledOK /\ RepoOK
  BY DEF HostInv
<1>3. saved.state = NoState
  BY <1>1, <1>2 DEF UndoOK, AtOneOf
<1>4. /\ saved'.state = NoState /\ saved'.before = NoCopy /\ saved'.replaced = saved.replaced /\ NoCopy \in Copy
      /\ saved' = [state |-> saved'.state, before |-> saved'.before, replaced |-> saved'.replaced]
  BY <1>1, <1>2, <1>3, HostAssumption DEF HostTypes, NoCopy, Copy, NoRun
<1>5. HostTypes'
  BY <1>1, <1>2, <1>4, StatesDiffer, RestIsNoScript DEF HostTypes, HostTypeOK
<1>6. EarlyOK' /\ LateOK' /\ UndoOK'
  BY <1>1, RestIsNoScript DEF EarlyOK, LateOK, UndoOK, AtOneOf, EarlySteps, LateSteps, UndoSteps, Refilled
<1>7. PointOK' /\ StateOK' /\ RepoOK'
  BY <1>2, <1>4 DEF PointOK, StateOK, RepoOK
<1>8. SettledOK' /\ DataOK'
  BY <1>2, <1>3, <1>4 DEF DataOK, SettledOK, Unfinished, Agrees, BuildsSource
<1>9. QED
  BY <1>5, <1>6, <1>7, <1>8 DEF HostInv


-----------------------------------------------------------------------------
(* Runs begin                                                              *)

\* While no update is half done, the position that update.sh finds is the code that runs.
LEMMA PositionIsCode ==
    ASSUME HostInv, ~Unfinished, ~saved.state.rollback, Position # NoCode
    PROVE  Position = container.code
BY DEF HostInv, SettledOK, Position, Agrees

LEMMA RunIsCounted ==
    ASSUME HostInv, ledger.runs < MaxRuns, ledger' = [ledger EXCEPT !.runs = @ + 1]
    PROVE  /\ ledger'.runs = ledger.runs + 1 /\ ledger'.own = ledger.own /\ ledger'.strayed = ledger.strayed
           /\ ledger'.ran = ledger.ran /\ ledger.runs \in Nat /\ ledger'.runs \in Runs
           /\ ledger' \in [runs: 0..MaxRuns, stops: Nat, deeds: Nat, own: SUBSET AllChanges, strayed: BOOLEAN,
                           ran: [Runs -> [code: Code, env: Env \cup {NoEnv}]]]
<1>1. ledger \in [runs: 0..MaxRuns, stops: Nat, deeds: Nat, own: SUBSET AllChanges, strayed: BOOLEAN,
                  ran: [Runs -> [code: Code, env: Env \cup {NoEnv}]]]
  BY DEF HostInv, HostTypes
<1>2. ledger.runs \in Nat /\ ledger.runs + 1 \in 0..MaxRuns /\ ledger.runs + 1 \in Runs
  BY <1>1, HostAssumption DEF Runs
<1>3. QED
  BY <1>1, <1>2

LEMMA UpdateReleaseKeeps == ASSUME HostInv, NEW to \in Tagged, UpdateRelease(to) PROVE HostInv'
<1>1. /\ script.at = "rest" /\ ledger.runs < MaxRuns /\ ~saved.state.rollback /\ ~Unfinished
      /\ IsForward(Position, Up(to)) /\ UNCHANGED <<origin, env, source, container, data, backup, saved>>
      /\ \/ repo' = [repo EXCEPT !.head = Up(to), !.on = FALSE] /\ UNCHANGED <<script, ledger>>
         \/ /\ repo' = [repo EXCEPT !.seen = origin]
            /\ script' = [at |-> "backup", mode |-> "release", to |-> to, pos |-> Position, id |-> ledger.runs + 1]
            /\ ledger' = [ledger EXCEPT !.runs = @ + 1]
  BY DEF UpdateRelease, MayBegin, Reached, Checkout, Run
<1>2. HostTypes /\ EarlyOK /\ LateOK /\ UndoOK /\ PointOK /\ StateOK /\ DataOK /\ SettledOK /\ RepoOK
  BY DEF HostInv
<1>3. Position = container.code /\ Position \subseteq Up(to) /\ Position \in Code
  BY <1>1, <1>2, PositionIsCode DEF IsForward, NoCode, HostTypes, HostTypeOK
<1>4. Up(to) \in Code /\ to \in 0..Newest
  BY UpIsCode, HostAssumption
<1>5. CASE repo' = [repo EXCEPT !.head = Up(to), !.on = FALSE] /\ UNCHANGED <<script, ledger>>
  <2>1. /\ repo' \in [tip: Code, head: Code, on: BOOLEAN, seen: 1..Newest] /\ repo'.tip = repo.tip /\ ~repo'.on
    BY <1>2, <1>4, <1>5 DEF HostTypes, HostTypeOK
  <2>2. HostTypes'
    BY <1>1, <1>2, <1>5, <2>1 DEF HostTypes, HostTypeOK
  <2>3. EarlyOK' /\ LateOK' /\ UndoOK'
    BY <1>1, <1>5 DEF EarlyOK, LateOK, UndoOK, AtOneOf, EarlySteps, LateSteps, UndoSteps, Refilled
  <2>4. PointOK' /\ DataOK' /\ SettledOK' /\ RepoOK'
    BY <1>1, <1>2, <1>5, <2>1 DEF PointOK, DataOK, RepoOK, SettledOK, Unfinished, Agrees, BuildsSource
  <2>5. StateOK'
    BY <1>1, <1>2, <1>5 DEF StateOK, Unfinished
  <2>6. QED
    BY <2>2, <2>3, <2>4, <2>5 DEF HostInv
<1>6. CASE /\ repo' = [repo EXCEPT !.seen = origin]
           /\ script' = [at |-> "backup", mode |-> "release", to |-> to, pos |-> Position, id |-> ledger.runs + 1]
           /\ ledger' = [ledger EXCEPT !.runs = @ + 1]
  <2>1. /\ repo' \in [tip: Code, head: Code, on: BOOLEAN, seen: 1..Newest]
        /\ repo'.tip = repo.tip /\ repo'.head = repo.head /\ repo'.on = repo.on
    BY <1>2, <1>6 DEF HostTypes, HostTypeOK
  <2>2. /\ ledger'.runs = ledger.runs + 1 /\ ledger'.own = ledger.own /\ ledger'.strayed = ledger.strayed
        /\ ledger'.ran = ledger.ran /\ ledger.runs \in Nat /\ ledger'.runs \in Runs
        /\ ledger' \in [runs: 0..MaxRuns, stops: Nat, deeds: Nat, own: SUBSET AllChanges, strayed: BOOLEAN,
                        ran: [Runs -> [code: Code, env: Env \cup {NoEnv}]]]
    BY <1>1, <1>6, RunIsCounted
  <2>3. /\ script'.at = "backup" /\ script'.mode = "release" /\ script'.to = to /\ script'.pos = container.code
        /\ script'.id = ledger'.runs
        /\ script' \in [at: Steps, mode: {"none", "release", "edge", "rollback"}, to: 0..Newest,
                        pos: Code, id: 0..MaxRuns]
    BY <1>3, <1>4, <1>6, <2>2, HostAssumption DEF Steps, EarlySteps, Runs
  <2>4. HostTypes'
    BY <1>1, <1>2, <2>1, <2>2, <2>3 DEF HostTypes, HostTypeOK
  <2>5. saved.state.of < script'.id
    BY <1>2, <2>2, <2>3, StatesDiffer DEF PointOK
  <2>6. EarlyOK'
    BY <1>1, <1>3, <2>2, <2>3, <2>5 DEF EarlyOK, AtOneOf, EarlySteps, Unfinished
  <2>7. LateOK' /\ UndoOK'
    BY <2>3 DEF LateOK, UndoOK, AtOneOf, LateSteps, UndoSteps, Refilled
  <2>8. PointOK'
    BY <1>1, <1>2, <2>2 DEF PointOK, BuildsSource
  <2>9. StateOK'
    BY <1>1, <1>2, <2>2 DEF StateOK, Unfinished
  <2>10. DataOK' /\ SettledOK' /\ RepoOK'
    BY <1>1, <1>2, <2>1, <2>2 DEF DataOK, RepoOK, SettledOK, Unfinished, Agrees, BuildsSource
  <2>11. QED
    BY <2>4, <2>6, <2>7, <2>8, <2>9, <2>10 DEF HostInv
<1>7. QED
  BY <1>1, <1>5, <1>6

LEMMA UpdateEdgeKeeps == ASSUME HostInv, UpdateEdge PROVE HostInv'
<1>1. /\ script.at = "rest" /\ ledger.runs < MaxRuns /\ ~saved.state.rollback /\ ~Unfinished
      /\ IsForward(Position, IF Up(origin) \ repo.head # {} THEN Up(origin) ELSE repo.head)
      /\ repo' = [repo EXCEPT !.seen = origin]
      /\ script' = [at |-> "backup", mode |-> "edge", to |-> 0, pos |-> Position, id |-> ledger.runs + 1]
      /\ ledger' = [ledger EXCEPT !.runs = @ + 1]
      /\ UNCHANGED <<origin, env, source, container, data, backup, saved>>
  BY DEF UpdateEdge, MayBegin, Reached, Run
<1>2. HostTypes /\ EarlyOK /\ LateOK /\ UndoOK /\ PointOK /\ StateOK /\ DataOK /\ SettledOK /\ RepoOK
  BY DEF HostInv
<1>3. /\ repo' \in [tip: Code, head: Code, on: BOOLEAN, seen: 1..Newest] /\ repo'.seen = origin
      /\ repo'.tip = repo.tip /\ repo'.head = repo.head /\ repo'.on = repo.on
  BY <1>1, <1>2 DEF HostTypes, HostTypeOK
<1>4. Position = container.code /\ Position \in Code
  BY <1>1, <1>2, PositionIsCode DEF IsForward, NoCode, HostTypes, HostTypeOK
<1>5. container.code \subseteq Newer(repo'.head, repo'.seen)
  BY <1>1, <1>3, <1>4 DEF IsForward, Newer
<1>6. /\ ledger'.runs = ledger.runs + 1 /\ ledger'.own = ledger.own /\ ledger'.strayed = ledger.strayed
      /\ ledger'.ran = ledger.ran /\ ledger.runs \in Nat /\ ledger'.runs \in Runs
      /\ ledger' \in [runs: 0..MaxRuns, stops: Nat, deeds: Nat, own: SUBSET AllChanges, strayed: BOOLEAN,
                      ran: [Runs -> [code: Code, env: Env \cup {NoEnv}]]]
  BY <1>1, RunIsCounted
<1>7. /\ script'.at = "backup" /\ script'.mode = "edge" /\ script'.to = 0 /\ script'.pos = container.code
      /\ script'.id = ledger'.runs
      /\ script' \in [at: Steps, mode: {"none", "release", "edge", "rollback"}, to: 0..Newest,
                      pos: Code, id: 0..MaxRuns]
  BY <1>1, <1>4, <1>6, HostAssumption DEF Steps, EarlySteps, Runs
<1>8. saved.state.of < script'.id
  BY <1>2, <1>6, <1>7, StatesDiffer DEF PointOK
<1>9. HostTypes'
  BY <1>1, <1>2, <1>3, <1>6, <1>7 DEF HostTypes, HostTypeOK
<1>10. EarlyOK'
  BY <1>1, <1>5, <1>6, <1>7, <1>8 DEF EarlyOK, AtOneOf, EarlySteps, Unfinished
<1>11. LateOK' /\ UndoOK'
  BY <1>7 DEF LateOK, UndoOK, AtOneOf, LateSteps, UndoSteps, Refilled
<1>12. PointOK'
  BY <1>1, <1>2, <1>6 DEF PointOK, BuildsSource
<1>13. StateOK'
  BY <1>1, <1>2, <1>6 DEF StateOK, Unfinished
<1>14. DataOK' /\ SettledOK' /\ RepoOK'
  BY <1>1, <1>2, <1>3, <1>6, SMTT(20) DEF DataOK, RepoOK, SettledOK, Unfinished, Agrees, BuildsSource
<1>15. QED
  BY <1>9, <1>10, <1>11, <1>12, <1>13, <1>14 DEF HostInv

\* A resumed run finds the state of the run that was stopped.
LEMMA ResumeKeeps == ASSUME HostInv, NEW mode \in {"release", "edge"}, NEW to, Resume(mode, to) PROVE HostInv'
<1>1. /\ script.at = "rest" /\ ledger.runs < MaxRuns /\ ~saved.state.rollback /\ Unfinished /\ saved.state.mode = mode
      /\ script' = [at |-> IF mode = "edge" THEN "merge" ELSE "checkout", mode |-> mode, to |-> saved.state.to,
                    pos |-> saved.state.ref, id |-> ledger.runs + 1]
      /\ ledger' = [ledger EXCEPT !.runs = @ + 1]
      /\ UNCHANGED <<origin, repo, env, saved, source, container, data, backup>>
  BY DEF Resume, MayBegin, Reached, Run
<1>2. HostTypes /\ EarlyOK /\ LateOK /\ UndoOK /\ PointOK /\ StateOK /\ DataOK /\ SettledOK /\ RepoOK
  BY DEF HostInv
<1>3. /\ ledger'.runs = ledger.runs + 1 /\ ledger'.own = ledger.own /\ ledger'.strayed = ledger.strayed
      /\ ledger'.ran = ledger.ran /\ ledger.runs \in Nat /\ ledger'.runs \in Runs
      /\ ledger' \in [runs: 0..MaxRuns, stops: Nat, deeds: Nat, own: SUBSET AllChanges, strayed: BOOLEAN,
                      ran: [Runs -> [code: Code, env: Env \cup {NoEnv}]]]
  BY <1>1, RunIsCounted
<1>4. /\ mode = "edge" => script'.at = "merge"
      /\ mode = "release" => script'.at = "checkout"
      /\ script'.mode = mode /\ script'.to = saved.state.to
      /\ script' \in [at: Steps, mode: {"none", "release", "edge", "rollback"}, to: 0..Newest,
                      pos: Code, id: 0..MaxRuns]
  BY <1>1, <1>2, <1>3, HostAssumption DEF Steps, LateSteps, Runs, State, HostTypes
<1>5. HostTypes'
  BY <1>1, <1>2, <1>3, <1>4 DEF HostTypes, HostTypeOK
<1>6. EarlyOK' /\ UndoOK'
  BY <1>4 DEF EarlyOK, UndoOK, AtOneOf, EarlySteps, UndoSteps, Refilled
<1>7. LateOK'
  BY <1>1, <1>4 DEF LateOK, AtOneOf, LateSteps, Unfinished
<1>8. PointOK'
  BY <1>1, <1>2, <1>3 DEF PointOK, BuildsSource
<1>9. StateOK'
  BY <1>1, <1>2, <1>3 DEF StateOK
<1>10. DataOK' /\ SettledOK' /\ RepoOK'
  BY <1>1, <1>2, <1>3 DEF DataOK, RepoOK, SettledOK, Unfinished, Agrees, BuildsSource
<1>11. QED
  BY <1>5, <1>6, <1>7, <1>8, <1>9, <1>10 DEF HostInv



-----------------------------------------------------------------------------
(* What happens to a run, and between runs                                 *)

LEMMA StopsKeeps == ASSUME HostInv, Stops PROVE HostInv'
<1>1. /\ script' = NoScript /\ ledger' = [ledger EXCEPT !.stops = @ + 1]
      /\ UNCHANGED <<origin, repo, env, saved, source, container, data, backup>>
  BY DEF Stops
<1>2. HostTypes /\ EarlyOK /\ LateOK /\ UndoOK /\ PointOK /\ StateOK /\ DataOK /\ SettledOK /\ RepoOK
  BY DEF HostInv
<1>3. /\ ledger'.runs = ledger.runs /\ ledger'.own = ledger.own /\ ledger'.strayed = ledger.strayed
      /\ ledger'.ran = ledger.ran
      /\ ledger' \in [runs: 0..MaxRuns, stops: Nat, deeds: Nat, own: SUBSET AllChanges, strayed: BOOLEAN,
                      ran: [Runs -> [code: Code, env: Env \cup {NoEnv}]]]
  BY <1>1, <1>2 DEF HostTypes
<1>4. HostTypes'
  BY <1>1, <1>2, <1>3, RestIsNoScript DEF HostTypes, HostTypeOK
<1>5. EarlyOK' /\ LateOK' /\ UndoOK'
  BY <1>1, RestIsNoScript DEF EarlyOK, LateOK, UndoOK, AtOneOf, EarlySteps, LateSteps, UndoSteps, Refilled
<1>6. PointOK'
  BY <1>1, <1>2, <1>3 DEF PointOK, BuildsSource
<1>7. StateOK'
  BY <1>1, <1>2, <1>3 DEF StateOK
<1>8. DataOK' /\ SettledOK' /\ RepoOK'
  BY <1>1, <1>2, <1>3 DEF DataOK, RepoOK, SettledOK, Unfinished, Agrees, BuildsSource
<1>9. QED
  BY <1>4, <1>5, <1>6, <1>7, <1>8 DEF HostInv

LEMMA OriginAdvancesKeeps == ASSUME HostInv, OriginAdvances PROVE HostInv'
<1>1. /\ origin < Newest /\ origin' = origin + 1
      /\ UNCHANGED <<repo, env, saved, source, container, data, backup, script, ledger>>
  BY DEF OriginAdvances
<1>2. HostTypes /\ EarlyOK /\ LateOK /\ UndoOK /\ PointOK /\ StateOK /\ DataOK /\ SettledOK /\ RepoOK
  BY DEF HostInv
<1>3. origin' \in 1..Newest
  BY <1>1, <1>2, HostAssumption DEF HostTypes, HostTypeOK
<1>4. HostTypes'
  BY <1>1, <1>2, <1>3 DEF HostTypes, HostTypeOK
<1>5. EarlyOK'
  BY <1>1, <1>2 DEF EarlyOK, AtOneOf, Unfinished
<1>6. LateOK'
  BY <1>1, <1>2 DEF LateOK, AtOneOf, Unfinished, ImageOf, BuildsSource
<1>7. UndoOK'
  BY <1>1, <1>2 DEF UndoOK, AtOneOf, Restored, BuildsSource
<1>8. PointOK'
  BY <1>1, <1>2 DEF PointOK, BuildsSource
<1>9. StateOK'
  BY <1>1, <1>2 DEF StateOK
<1>10. DataOK' /\ SettledOK' /\ RepoOK'
  BY <1>1, <1>2 DEF DataOK, RepoOK, SettledOK, Unfinished, Agrees, BuildsSource
<1>11. QED
  BY <1>4, <1>5, <1>6, <1>7, <1>8, <1>9, <1>10 DEF HostInv

\* Numbering one's own commits never runs into upstream's.
LEMMA NextOwn ==
    ASSUME HostInv, Cardinality(ledger.own) < MaxOwn
    PROVE  Newest + Cardinality(ledger.own) + 1 \in (Newest + 1)..(Newest + MaxOwn)
<1>1. ledger.own \subseteq (Newest + 1)..(Newest + MaxOwn)
  BY DEF HostInv, RepoOK
<1>2. IsFiniteSet((Newest + 1)..(Newest + MaxOwn))
  BY HostAssumption, FS_Interval
<1>3. IsFiniteSet(ledger.own)
  BY <1>1, <1>2, FS_Subset
<1>4. Cardinality(ledger.own) \in Nat
  BY <1>3, FS_CardinalityType
<1>5. QED
  BY <1>4, HostAssumption

LEMMA CommitsKeeps == ASSUME HostInv, Commits PROVE HostInv'
<1> DEFINE new == Newest + Cardinality(ledger.own) + 1
<1>1. /\ script.at = "rest" /\ repo.on /\ Cardinality(ledger.own) < MaxOwn
      /\ repo' = [repo EXCEPT !.head = @ \cup {new}, !.tip = @ \cup {new}]
      /\ ledger' = [ledger EXCEPT !.own = @ \cup {new}, !.strayed = Strays]
      /\ UNCHANGED <<origin, env, saved, source, container, data, backup, script>>
  BY DEF Commits, Reached
<1>2. HostTypes /\ EarlyOK /\ LateOK /\ UndoOK /\ PointOK /\ StateOK /\ DataOK /\ SettledOK /\ RepoOK
  BY DEF HostInv
<1>3. new \in (Newest + 1)..(Newest + MaxOwn)
  BY <1>1, NextOwn
<1>4. new \in AllChanges
  BY <1>3, HostAssumption DEF AllChanges
<1> HIDE DEF new
<1>5. /\ repo' \in [tip: Code, head: Code, on: BOOLEAN, seen: 1..Newest] /\ repo'.seen = repo.seen
      /\ repo'.tip = repo.tip \cup {new} /\ repo'.head = repo.head \cup {new} /\ repo'.on = repo.on
  BY <1>1, <1>2, <1>4 DEF Code, HostTypes, HostTypeOK
<1>6. /\ ledger'.runs = ledger.runs /\ ledger'.ran = ledger.ran
      /\ ~ledger'.strayed => ~ledger.strayed /\ ~(Unfinished /\ saved.state.mode = "edge")
      /\ ledger'.own = ledger.own \cup {new}
      /\ ledger' \in [runs: 0..MaxRuns, stops: Nat, deeds: Nat, own: SUBSET AllChanges, strayed: BOOLEAN,
                      ran: [Runs -> [code: Code, env: Env \cup {NoEnv}]]]
  BY <1>1, <1>2, <1>4 DEF Strays, HostTypes
<1>7. HostTypes'
  BY <1>1, <1>2, <1>5, <1>6 DEF HostTypes, HostTypeOK
<1>8. EarlyOK' /\ LateOK' /\ UndoOK'
  BY <1>1 DEF EarlyOK, LateOK, UndoOK, AtOneOf, EarlySteps, LateSteps, UndoSteps, Refilled
<1>9. PointOK'
  BY <1>1, <1>2, <1>6 DEF PointOK, BuildsSource
<1>10. StateOK'
  BY <1>1, <1>2, <1>6 DEF StateOK, Unfinished
<1>11. DataOK' /\ SettledOK'
  BY <1>1, <1>2, <1>6 DEF DataOK, SettledOK, Unfinished, Agrees, BuildsSource
<1>12. RepoOK'
  BY <1>1, <1>2, <1>3, <1>5, <1>6 DEF RepoOK
<1>13. QED
  BY <1>7, <1>8, <1>9, <1>10, <1>11, <1>12 DEF HostInv

LEMMA ChecksOutKeeps == ASSUME HostInv, ChecksOut PROVE HostInv'
<1>1. /\ script.at = "rest"
      /\ \/ repo' = [repo EXCEPT !.head = repo.tip, !.on = TRUE]
         \/ \E k \in Tags : repo' = [repo EXCEPT !.head = Up(k), !.on = FALSE]
      /\ ledger' = [ledger EXCEPT !.deeds = @ + 1, !.strayed = Strays]
      /\ UNCHANGED <<origin, env, saved, source, container, data, backup, script>>
  BY DEF ChecksOut, Between, Reached
<1>2. HostTypes /\ EarlyOK /\ LateOK /\ UndoOK /\ PointOK /\ StateOK /\ DataOK /\ SettledOK /\ RepoOK
  BY DEF HostInv
<1>3. \A k \in Tags : Up(k) \in Code
  BY UpIsCode, HostAssumption DEF Tags
<1>4. /\ repo' \in [tip: Code, head: Code, on: BOOLEAN, seen: 1..Newest] /\ repo'.seen = repo.seen
      /\ repo'.tip = repo.tip /\ (repo'.on => repo'.head = repo'.tip)
  <2>1. repo \in [tip: Code, head: Code, on: BOOLEAN, seen: 1..Newest]
    BY <1>2 DEF HostTypes, HostTypeOK
  <2>2. CASE repo' = [repo EXCEPT !.head = repo.tip, !.on = TRUE]
    BY <2>1, <2>2
  <2>3. CASE \E k \in Tags : repo' = [repo EXCEPT !.head = Up(k), !.on = FALSE]
    BY <1>3, <2>3, <2>1
  <2>4. QED
    BY <1>1, <2>2, <2>3
<1>5. /\ ledger'.runs = ledger.runs /\ ledger'.ran = ledger.ran
      /\ ~ledger'.strayed => ~ledger.strayed /\ ~(Unfinished /\ saved.state.mode = "edge")
      /\ ledger'.own = ledger.own
      /\ ledger' \in [runs: 0..MaxRuns, stops: Nat, deeds: Nat, own: SUBSET AllChanges, strayed: BOOLEAN,
                      ran: [Runs -> [code: Code, env: Env \cup {NoEnv}]]]
  <2>1. Strays \in BOOLEAN /\ (~Strays => ~ledger.strayed /\ ~(Unfinished /\ saved.state.mode = "edge"))
    BY <1>2 DEF Strays, HostTypes
  <2>2. ledger \in [runs: 0..MaxRuns, stops: Nat, deeds: Nat, own: SUBSET AllChanges, strayed: BOOLEAN,
                    ran: [Runs -> [code: Code, env: Env \cup {NoEnv}]]]
    BY <1>2 DEF HostTypes
  <2>3. ledger.deeds + 1 \in Nat
    BY <2>2
  <2>4. ledger'.strayed <=> Strays
    BY <1>1, <2>2
  <2>5. QED
    BY <1>1, <2>1, <2>2, <2>3, <2>4
<1>6. HostTypes'
  BY <1>1, <1>2, <1>4, <1>5 DEF HostTypes, HostTypeOK
<1>7. EarlyOK' /\ LateOK' /\ UndoOK'
  BY <1>1 DEF EarlyOK, LateOK, UndoOK, AtOneOf, EarlySteps, LateSteps, UndoSteps, Refilled
<1>8. PointOK'
  BY <1>1, <1>2, <1>5 DEF PointOK, BuildsSource
<1>9. StateOK'
  BY <1>1, <1>2, <1>5 DEF StateOK, Unfinished
<1>10. DataOK' /\ SettledOK'
  BY <1>1, <1>2, <1>5, ZenonT(40) DEF DataOK, SettledOK, Unfinished, Agrees, BuildsSource
<1>11. RepoOK'
  BY <1>1, <1>2, <1>4, <1>5 DEF RepoOK
<1>12. QED
  BY <1>6, <1>7, <1>8, <1>9, <1>10, <1>11 DEF HostInv

LEMMA EditsEnvKeeps == ASSUME HostInv, EditsEnv PROVE HostInv'
<1>1. /\ script.at = "rest" /\ env' = [env EXCEPT !.own = @ + 1]
      /\ ledger' = [ledger EXCEPT !.deeds = @ + 1]
      /\ UNCHANGED <<origin, repo, saved, source, container, data, backup, script>>
  BY DEF EditsEnv, Between, Deed, Reached
<1>2. HostTypes /\ EarlyOK /\ LateOK /\ UndoOK /\ PointOK /\ StateOK /\ DataOK /\ SettledOK /\ RepoOK
  BY DEF HostInv
<1>3. /\ ledger'.runs = ledger.runs /\ ledger'.own = ledger.own /\ ledger'.strayed = ledger.strayed
      /\ ledger'.ran = ledger.ran
      /\ ledger' \in [runs: 0..MaxRuns, stops: Nat, deeds: Nat, own: SUBSET AllChanges, strayed: BOOLEAN,
                      ran: [Runs -> [code: Code, env: Env \cup {NoEnv}]]]
  BY <1>1, <1>2 DEF HostTypes
<1>4. env' \in Env /\ env'.local = env.local /\ env'.version = env.version
  BY <1>1, <1>2, SMTT(20) DEF Env, HostTypes, HostTypeOK
<1>5. HostTypes'
  BY <1>1, <1>2, <1>3, <1>4 DEF HostTypes, HostTypeOK
<1>6. EarlyOK' /\ LateOK' /\ UndoOK'
  BY <1>1 DEF EarlyOK, LateOK, UndoOK, AtOneOf, EarlySteps, LateSteps, UndoSteps, Refilled
<1>7. PointOK'
  BY <1>1, <1>2, <1>3 DEF PointOK, BuildsSource
<1>8. StateOK'
  BY <1>1, <1>2, <1>3 DEF StateOK
<1>9. DataOK' /\ RepoOK'
  BY <1>1, <1>2, <1>3 DEF DataOK, RepoOK
<1>10. SettledOK'
  BY <1>1, <1>2, <1>4 DEF SettledOK, Unfinished, Agrees, BuildsSource
<1>11. QED
  BY <1>5, <1>6, <1>7, <1>8, <1>9, <1>10 DEF HostInv


-----------------------------------------------------------------------------
(* The invariant                                                           *)

\* An install of a release, or of the branch.
LEMMA HostStarts == ASSUME HostInit PROVE HostInv
<1>1. PICK t \in 1..origin, r \in {0} \cup Tagged :
         /\ repo = [tip |-> Up(t), head |-> Up(t), on |-> TRUE, seen |-> origin]
         /\ env = [local |-> r = 0, version |-> r, own |-> 0]
         /\ source = [image |-> IF r = 0 THEN Up(t) ELSE NoCode, built |-> IF r = 0 THEN Up(t) ELSE NoCode]
         /\ container = [code |-> IF r = 0 THEN Up(t) ELSE Up(r), up |-> TRUE]
         /\ data = [p \in Parts |-> [schema |-> IF p = "home" THEN NoCode ELSE IF r = 0 THEN Up(t) ELSE Up(r),
                                     put |-> 0]]
  BY DEF HostInit
<1>2. /\ origin \in 1..Newest /\ saved = [state |-> NoState, before |-> NoCopy, replaced |-> NoEnv]
      /\ backup = [b \in Runs |-> NoData] /\ script = NoScript
      /\ ledger = [runs |-> 0, stops |-> 0, deeds |-> 0, own |-> {}, strayed |-> FALSE,
                   ran |-> [b \in Runs |-> [code |-> NoCode, env |-> NoEnv]]]
  BY DEF HostInit
<1>3. PICK code \in Code : /\ code # {} /\ container.code = code /\ container.up
                           /\ container \in [code: Code, up: BOOLEAN]
                           /\ data = [p \in Parts |-> [schema |-> IF p = "home" THEN NoCode ELSE code, put |-> 0]]
                           /\ r = 0 => source.image = code
                           /\ r # 0 => code = Up(r)
  <2>1. Up(t) \in Code /\ (r # 0 => Up(r) \in Code) /\ 1 \in Up(t) /\ (r # 0 => 1 \in Up(r))
    BY <1>2, UpIsCode, HostAssumption DEF Up
  <2>2. CASE r = 0
    BY <1>1, <2>1, <2>2
  <2>3. CASE r # 0
    BY <1>1, <2>1, <2>3
  <2>4. QED
    BY <2>2, <2>3
<1>4. repo \in [tip: Code, head: Code, on: BOOLEAN, seen: 1..Newest] /\ source \in [image: Code, built: Code]
  BY <1>1, <1>2, UpIsCode, HostAssumption DEF Code, NoCode
<1>5. env \in Env /\ (env.local <=> r = 0) /\ env.version = r
  <2>1. r \in 0..Newest /\ 0 \in Nat /\ (r = 0) \in BOOLEAN
    BY HostAssumption
  <2>2. QED
    BY <1>1, <2>1 DEF Env
<1>6. NoData \in [Parts -> Part] /\ data \in [Parts -> Part]
  BY <1>3, HostAssumption DEF NoData, Part, Code, NoCode
<1>7. NoCopy \in Copy
  BY HostAssumption DEF NoCopy, Copy, NoRun
<1>8. ledger \in [runs: 0..MaxRuns, stops: Nat, deeds: Nat, own: SUBSET AllChanges, strayed: BOOLEAN,
                  ran: [Runs -> [code: Code, env: Env \cup {NoEnv}]]]
  BY <1>2, HostAssumption DEF Code, NoCode
<1>9. HostTypes
  BY <1>2, <1>3, <1>4, <1>5, <1>6, <1>7, <1>8, StatesDiffer, RestIsNoScript DEF HostTypeOK,
     HostTypes
<1>10. EarlyOK /\ LateOK /\ UndoOK
  BY <1>2, RestIsNoScript DEF EarlyOK, LateOK, UndoOK, AtOneOf, EarlySteps, LateSteps, UndoSteps, Refilled
<1>11. PointOK /\ StateOK
  BY <1>2 DEF PointOK, StateOK
<1>12. DataOK
  BY <1>3, <1>2 DEF Parts, NoCode, NoData, DataOK
<1>13. SettledOK
  BY <1>2, <1>3, <1>5, HostAssumption DEF SettledOK, Agrees, BuildsSource
<1>14. RepoOK
  BY <1>1, <1>2 DEF RepoOK
<1>15. QED
  BY <1>9, <1>10, <1>11, <1>12, <1>13, <1>14 DEF HostInv

\* HostInv is inductive.
LEMMA HostKeeps == ASSUME HostInv, [HostNext]_hostVars PROVE HostInv'
<1>1. CASE \E k \in Tagged : UpdateRelease(k) \/ Resume("release", k)
  BY <1>1, UpdateReleaseKeeps, ResumeKeeps
<1>2. CASE UpdateEdge \/ Resume("edge", 0) \/ BeginRollback
  BY <1>2, UpdateEdgeKeeps, ResumeKeeps, BeginRollbackKeeps
<1>3. CASE Update
  <2>1. CASE SaveState
    BY <2>1, ForgetKeeps, KeepEnvKeeps, KeepStateKeeps DEF SaveState
  <2>2. QED
    BY <1>3, <2>1, BackupKeeps, SwitchKeeps, MergeKeeps, AfterKeeps, SetImageKeeps, SetVersionKeeps,
       BuildKeeps, RecordKeeps, RestartKeeps, DoneKeeps DEF Update
<1>4. CASE Rollback
  <2>1. CASE Clears
    BY <2>1, ClearStateKeeps, ClearEnvKeeps DEF Clears
  <2>2. QED
    BY <1>4, <2>1, StopAppKeeps, BackKeeps, KeepReplacedKeeps, RestoreEnvKeeps, RebuildKeeps, RerecordKeeps,
       RecreateKeeps, RestoreCoreKeeps, RestoreKyoubeKeeps, EmptyHomeKeeps, RestoreHomeKeeps,
       StartRestoredKeeps DEF Rollback
<1>5. CASE Stops \/ OriginAdvances \/ Commits \/ ChecksOut \/ EditsEnv
  BY <1>5, StopsKeeps, OriginAdvancesKeeps, CommitsKeeps, ChecksOutKeeps, EditsEnvKeeps
<1>6. CASE UNCHANGED hostVars
  BY <1>6 DEF hostVars, HostInv, HostTypes, HostTypeOK, EarlyOK, LateOK, UndoOK, PointOK, StateOK, DataOK,
              SettledOK, RepoOK, AtOneOf, Unfinished, Restored, Agrees, BuildsSource, ImageOf
<1>7. QED
  BY <1>1, <1>2, <1>3, <1>4, <1>5, <1>6 DEF HostNext

\* HostInv implies every property of the host that a run checks.
LEMMA HostHolds ==
    ASSUME HostInv
    PROVE  /\ HostTypeOK /\ NeverOlderCodeOnNewerData /\ HalfRestoredNeverStarts
           /\ RollbackPointIsWhole /\ RollbackReturns /\ OwnCommitsStay
<1>1. HostTypes /\ EarlyOK /\ LateOK /\ UndoOK /\ PointOK /\ StateOK /\ DataOK /\ SettledOK /\ RepoOK
  BY DEF HostInv
<1>2. HostTypeOK /\ NeverOlderCodeOnNewerData /\ HalfRestoredNeverStarts /\ OwnCommitsStay
  BY <1>1 DEF HostTypes, DataOK, RepoOK, NeverOlderCodeOnNewerData, HalfRestoredNeverStarts, OwnCommitsStay
<1>3. RollbackPointIsWhole
  BY <1>1 DEF PointOK, RollbackPointIsWhole
<1>4. RollbackReturns
  BY <1>1 DEF PointOK, UndoOK, AtOneOf, UndoSteps, Refilled, RollbackReturns, Reached
<1>5. QED
  BY <1>2, <1>3, <1>4

\* Updates, resumed updates and rollbacks, stopped anywhere and mixed with what people
\* do to the checkout and to .env, keep everything HostInv says (update.sh).
THEOREM HostInvariance == HostSpec => []HostInv
<1>1. HostInit => HostInv
  BY HostStarts
<1>2. HostInv /\ [HostNext]_hostVars => HostInv'
  BY HostKeeps
<1>3. QED
  BY <1>1, <1>2, PTL DEF HostSpec

\* Every variable of the host keeps its type.
THEOREM HostIsTyped == HostSpec => []HostTypeOK
BY HostInvariance, HostHolds, PTL

\* No code ever starts on data that code it does not contain has migrated
\* (require_forward, is_ancestor, the order of do_rollback).
THEOREM OnlyNewerCodeStarts == HostSpec => []NeverOlderCodeOnNewerData
BY HostInvariance, HostHolds, PTL

\* The app never starts on a mix of restored and not restored parts (the rollback mark).
THEOREM NoHalfRestoredStart == HostSpec => []HalfRestoredNeverStarts
BY HostInvariance, HostHolds, PTL

\* What --rollback needs is there as long as there is a state: the settings, the code
\* and the backup of one and the same run (save_state).
THEOREM PointStaysWhole == HostSpec => []RollbackPointIsWhole
BY HostInvariance, HostHolds, PTL

\* A rollback that ends has put back the code, the settings and all the data, however
\* often it was stopped and repeated (do_rollback).
THEOREM RollbackGoesAllTheWay == HostSpec => []RollbackReturns
BY HostInvariance, HostHolds, PTL

\* Neither an update nor a rollback drops a commit made on the branch (rollback_branch).
THEOREM OwnCommitsSurvive == HostSpec => []OwnCommitsStay
BY HostInvariance, HostHolds, PTL

\* A behaviour stays with its part, and its steps are that part's.
LEMMA PartSteps ==
    ASSUME [PlatformNext]_<<part, partVars>>
    PROVE  /\ part' = part
           /\ part = "lifecycle" => [LifecycleNext]_lifecycleVars
           /\ part = "connections" => [ConnectionsNext]_connectionVars
           /\ part = "budget" => [BudgetNext]_budgetVars
           /\ part = "frame" => [FrameNext]_frameVars
           /\ part = "tables" => [TablesNext]_tablesVars
           /\ part = "protection" => [ProtectionNext]_protectionVars
           /\ part = "grants" => [GrantsNext]_grantVars
           /\ part = "governance" => [GovernanceNext]_governanceVars
           /\ part = "host" => [HostNext]_hostVars
BY DEF PlatformNext, partVars

LEMMA PartStarts ==
    ASSUME PlatformInit
    PROVE  /\ part = "lifecycle" => LifecycleInit
           /\ part = "connections" => ConnectionsInit
           /\ part = "budget" => BudgetInit
           /\ part = "frame" => FrameInit
           /\ part = "tables" => TablesInit
           /\ part = "protection" => ProtectionInit
           /\ part = "grants" => GrantsInit
           /\ part = "governance" => GovernanceInit
           /\ part = "host" => HostInit
BY DEF PlatformInit

\* Nothing goes out through an app that a person has not confirmed
\* (apps/service.ts).
THEOREM OnlyConfirmed == PlatformSpec => []OnlyConfirmedGoesOut
<1>1. PlatformInit => (part = "lifecycle" => LifecycleInv)
  BY PartStarts, LifecycleInitially
<1>2. (part = "lifecycle" => LifecycleInv) /\ [PlatformNext]_<<part, partVars>>
        => (part = "lifecycle" => LifecycleInv)'
  BY PartSteps, LifecycleInductive
<1>3. (part = "lifecycle" => LifecycleInv) => OnlyConfirmedGoesOut
  BY CurrentIsConfirmed DEF LifecycleInv, OnlyConfirmedGoesOut
<1>4. QED
  BY <1>1, <1>2, <1>3, PTL DEF PlatformSpec

\* A call goes out with the right and current secret, and a broken one rests
\* (connections/service.ts, secrets/cache.ts).
THEOREM SecretsStayCurrent == PlatformSpec => []SecretsAreCurrent
<1>1. PlatformInit => (part = "connections" => ConnectionsInv)
  BY PartStarts, ConnectionsInitially
<1>2. (part = "connections" => ConnectionsInv) /\ [PlatformNext]_<<part, partVars>>
        => (part = "connections" => ConnectionsInv)'
  BY PartSteps, ConnectionsInductive
<1>3. (part = "connections" => ConnectionsInv) => SecretsAreCurrent
  BY SecretsAreGood DEF ConnectionsInv, SecretsAreCurrent
<1>4. QED
  BY <1>1, <1>2, <1>3, PTL DEF PlatformSpec

\* The daily cap holds, failed calls cost nothing and rows are decided in time
\* (decisions/service.ts, store.ts).
THEOREM BudgetStaysKept == PlatformSpec => []BudgetIsKept
<1>1. PlatformInit => (part = "budget" => BudgetInv)
  BY PartStarts, BudgetInitially
<1>2. (part = "budget" => BudgetInv) /\ [PlatformNext]_<<part, partVars>>
        => (part = "budget" => BudgetInv)'
  BY PartSteps, BudgetInductive
<1>3. (part = "budget" => BudgetInv) => BudgetIsKept
  BY BudgetHolds DEF BudgetInv, BudgetIsKept
<1>4. QED
  BY <1>1, <1>2, <1>3, PTL DEF PlatformSpec

\* Whoever watches a task hears what the host heard last, and the host's slots
\* are its running watches (ui/apps/bridge.ts, task-watch.ts).
LEMMA FrameStays == PlatformSpec => [](part = "frame" => FrameInv /\ NothingHeardYet)
<1> DEFINE Frame == part = "frame" => FrameInv /\ NothingHeardYet
<1>1. PlatformInit => Frame
  BY PartStarts, FrameStarts, NothingHeardFirst
<1>2. Frame /\ [PlatformNext]_<<part, partVars>> => Frame'
  BY PartSteps, FrameSteps, NothingHeardStill
<1>3. QED
  BY <1>1, <1>2, PTL DEF PlatformSpec

THEOREM WatchesStayRight == PlatformSpec => []WatchesWork
<1>1. (part = "frame" => FrameInv /\ NothingHeardYet) => WatchesWork
  BY FrameIsRight DEF WatchesWork
<1>2. QED
  BY <1>1, FrameStays, PTL

\* A callback never hears an older state of its task after a newer one, whatever
\* watches end, start again and are answered late (task-watch.ts).
THEOREM FramesOnlyGoForward == PlatformSpec => FramesGoForward
<1>1. (part = "frame" => FrameInv /\ NothingHeardYet) /\ [PlatformNext]_<<part, partVars>>
        => [part = "frame" => NeverHearsOlder]_frameVars
  BY PartSteps, StepsHearOn
<1>2. QED
  BY <1>1, FrameStays, PTL DEF PlatformSpec, FramesGoForward

\* The catalog tells of the tables as they are, fields are held to their choices,
\* and the trash keeps what it must (data/schema-service.ts).
THEOREM TablesStayTold == PlatformSpec => []TablesAgree
<1>1. PlatformInit => (part = "tables" => TablesInv)
  BY PartStarts, TablesInitially
<1>2. (part = "tables" => TablesInv) /\ [PlatformNext]_<<part, partVars>>
        => (part = "tables" => TablesInv)'
  BY PartSteps, TablesInductive
<1>3. (part = "tables" => TablesInv) => TablesAgree
  BY TablesAreTold DEF TablesAgree
<1>4. QED
  BY <1>1, <1>2, <1>3, PTL DEF PlatformSpec

\* The manager rule and the groups undo what they did and no more, a person's scoped
\* grant is on record, and `off` puts back the setting KyoubeAI first replaced
\* (kyoube-agent-rules: guard.ts, groups.ts; docker/bootstrap: governance.ts).
THEOREM AgentRulesStay == PlatformSpec => []AgentRulesHold
<1> DEFINE Rules == /\ part = "protection" => ProtectionInv
                    /\ part = "grants" => GrantsInv
                    /\ part = "governance" => GovernanceInv
<1>1. PlatformInit => Rules
  BY PartStarts, ProtectionStarts, GrantsInitially, GovernanceInitially
<1>2. Rules /\ [PlatformNext]_<<part, partVars>> => Rules'
  BY PartSteps, ProtectionSteps, GrantsInductive, GovernanceInductive
<1>3. Rules => AgentRulesHold
  BY ProtectionTyped, NothingLeftToUndo, GrantsAreKept, TheFirstIsRestored DEF
     ProtectionInv, GrantsInv, GovernanceInv, AgentRulesHold
<1>4. QED
  BY <1>1, <1>2, <1>3, PTL DEF PlatformSpec

\* Updates and rollbacks, stopped anywhere, never start code on data it does not
\* contain, nor half-restored data, and lose no settings and no commit (update.sh).
THEOREM UpdatesStaySafe == PlatformSpec => []UpdatesAreSafe
<1>1. PlatformInit => (part = "host" => HostInv)
  BY PartStarts, HostStarts
<1>2. (part = "host" => HostInv) /\ [PlatformNext]_<<part, partVars>>
        => (part = "host" => HostInv)'
  BY PartSteps, HostKeeps
<1>3. (part = "host" => HostInv) => UpdatesAreSafe
  BY HostHolds DEF UpdatesAreSafe
<1>4. QED
  BY <1>1, <1>2, <1>3, PTL DEF PlatformSpec
=============================================================================
