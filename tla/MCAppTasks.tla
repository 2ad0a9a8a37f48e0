----------------------------- MODULE MCAppTasks -----------------------------
(***************************************************************************)
(* A small instance of AppTasks for TLC.  A behaviour is of one of two     *)
(* scenes: in "racing" two calls of one person race with each other, with  *)
(* the agent and with failures; in "serial" two people make one call at a  *)
(* time, while windows pass and finished tasks are set to work again.      *)
(***************************************************************************)
EXTENDS AppTasks, TLC

CONSTANTS c1, c2, ann, bob

VARIABLE scene

CallerPair   == {c1, c2}
AnnAndBob    == {ann, bob}
OnePerson    == {AnyPerson}
CallersAlike == Permutations(CallerPair)

CallerSteps(c) == Begin(c) \/ Step(c) \/ Fail(c)

Racing ==
    \/ \E c \in Callers : CallerSteps(c) /\ call'[c].who = AnyPerson
    \/ \E i \in Ids : Delete(i) \/ \E s \in Status \ {"none", "todo", "deleted"} : Move(i, s)

Serial ==
    \/ Core
    \/ \E c \in Callers : CallerSteps(c) /\ \A d \in Callers \ {c} : At(d, "idle")

ScenesInit == Init /\ scene \in {"racing", "serial"}
ScenesNext ==
    \/ scene = "racing" /\ Racing /\ UNCHANGED scene
    \/ scene = "serial" /\ Serial /\ UNCHANGED scene
ScenesSpec == ScenesInit /\ [][ScenesNext]_<<vars, scene>>

\* An app's unfinished tasks pass the limit by no more than the other calls that race
\* (TaskService.start counts before it creates): never, where one call runs at a time,
\* whoever makes it and whatever failed before; and the variables keep their types.
LimitsHold == TypeOK /\ OvershootIsBounded(IF scene = "serial" THEN 1 ELSE Cardinality(Callers))
=============================================================================
