------------------------------- MODULE Accounts -------------------------------
(***************************************************************************)
(* Who may have an account: the licence (packages/license, the Licence      *)
(* page's worker, `kyoube license`), the seat check of every sign-up, and   *)
(* `kyoube users remove`.                                                   *)
(*                                                                         *)
(* The core's users, the files of /kyoubeai/kyoube and the board key are    *)
(* shared by commands, the page and sign-ups that know nothing of each      *)
(* other; every step between two awaits is an action, and any call of the   *)
(* core or its database may fail.  A licence key is what its payload says   *)
(* and whether its signature is good.                                       *)
(***************************************************************************)
EXTENDS Integers, FiniteSets, FiniteSetsExt

CONSTANTS
    Persons,        \* whoever signs up
    Operators,       \* commands of an operator and calls of the page under way
    FreeSeats,      \* FREE_SEATS
    Licences,       \* the keys people try: [seats, until, instance, good]
    MaxDay,         \* bound: the clock
    MaxCommands     \* bound: commands and changes by hand

ASSUME AccountsAssumption ==
    /\ FreeSeats \in Nat \ {0} /\ MaxDay \in Nat /\ MaxCommands \in Nat
    /\ IsFiniteSet(Persons) /\ "unknown" \notin Persons
    /\ Licences \subseteq [seats : Nat \ {0}, until : Nat, instance : Nat, good : BOOLEAN]

VARIABLES
    account,        \* the core's users: here, admin, member of a company
    licence,        \* license.key, instance-id, the date
    boardKey,       \* whose the stored board key is, and as whose it is recorded
    signup,         \* the sign-up of each person
    job,            \* the locals of each command or call
    memo         \* history

accountVars == <<account, licence, boardKey, signup, job, memo>>

-----------------------------------------------------------------------------
Unknown == "unknown"
NoLicence == [seats |-> 0, until |-> 0, instance |-> 0, good |-> FALSE]
NoJob == [at |-> "idle", kind |-> "none", who |-> Unknown, key |-> NoLicence, id |-> 0, admin |-> FALSE]

Here   == {p \in Persons : account[p].here}
Admins == {p \in Here : account[p].admin}

\* verifyLicense, licenseStatus.
Verify(key, id, day) ==
    CASE ~key.good -> "bad_signature"
      [] key.good /\ day > key.until -> "expired"
      [] key.good /\ day <= key.until /\ key.instance \notin {0, id} -> "wrong_instance"
      [] OTHER -> "valid"
EffectiveLimit(seats) == IF seats > FreeSeats THEN seats ELSE FreeSeats
LimitOf(key, id, day) ==
    IF key # NoLicence /\ Verify(key, id, day) = "valid" THEN EffectiveLimit(key.seats) ELSE FreeSeats

-----------------------------------------------------------------------------
(* A sign-up: the hook's checkSeat, then the core's insert                 *)

SignupTo(p, at) == signup' = [signup EXCEPT ![p] = [at |-> at, key |-> NoLicence, id |-> 0]]
SignsUp(p) ==
    /\ ~account[p].here /\ signup[p].at = "idle"
    /\ signup' = [signup EXCEPT ![p] = [at |-> "counting", key |-> licence.key, id |-> licence.id]]
    /\ memo' = [memo EXCEPT !.overlap = Max({@, Cardinality({q \in Persons : signup'[q].at # "idle"})})]
    /\ UNCHANGED <<account, licence, boardKey, job>>

\* The count has come; anything unexpected refuses.
Seats(s) == LimitOf(s.key, s.id, licence.day)
FitsAtLimit(s) == Cardinality(Here) <= Seats(s)     \* mutant
Fits(s) == Cardinality(Here) < Seats(s)
ChecksSeat(p) ==
    /\ signup[p].at = "counting"
    /\ \/ Fits(signup[p]) /\ SignupTo(p, "creating")
       \/ SignupTo(p, "idle")
    /\ UNCHANGED <<account, licence, boardKey, job, memo>>
IsCreated(p) ==
    /\ signup[p].at = "creating"
    /\ account' = [account EXCEPT ![p] = [here |-> TRUE, admin |-> FALSE, member |-> TRUE]]
    /\ SignupTo(p, "idle")
    /\ UNCHANGED <<licence, boardKey, job, memo>>

-----------------------------------------------------------------------------
(* The licence key                                                         *)

ByHand == memo.commands < MaxCommands
JobBegins(e, what) ==
    /\ job[e].at = "idle" /\ ByHand
    /\ job' = [job EXCEPT ![e] = what]
    /\ memo' = [memo EXCEPT !.commands = @ + 1]
    /\ UNCHANGED <<account, licence, boardKey, signup>>
JobAt(e, kind, at) == job[e].kind = kind /\ job[e].at = at
JobTo(e, at) == job' = [job EXCEPT ![e].at = at]
JobEnds(e) == job' = [job EXCEPT ![e] = NoJob]

\* `kyoube license set` makes sure of an instance ID; license.apply only reads it.
SetsLicence(e, key)   == JobBegins(e, [NoJob EXCEPT !.at = "identity", !.kind = "set", !.key = key])
AppliesLicence(e, key) == JobBegins(e, [NoJob EXCEPT !.at = "identity", !.kind = "apply", !.key = key])
ReadsIdentity(e) ==
    /\ job[e].at = "identity" /\ job[e].kind \in {"set", "apply"}
    /\ job' = [job EXCEPT ![e].id = licence.id,
                          ![e].at = IF job[e].kind = "set" /\ licence.id = 0 THEN "identifying" ELSE "verifying"]
    /\ UNCHANGED <<account, licence, boardKey, signup, memo>>
\* ensureInstanceId: a new one is written, over one that came meanwhile.
WritesIdentity(e) ==
    LET id == memo.ids + 1 IN
    /\ job[e].at = "identifying"
    /\ licence' = [licence EXCEPT !.id = id]
    /\ job' = [job EXCEPT ![e].id = id, ![e].at = "verifying"]
    /\ memo' = [memo EXCEPT !.ids = id]
    /\ UNCHANGED <<account, boardKey, signup>>
VerifiesKey(e) ==
    /\ job[e].at = "verifying"
    /\ IF Verify(job[e].key, job[e].id, licence.day) = "valid" THEN JobTo(e, "storing") ELSE JobEnds(e)
    /\ UNCHANGED <<account, licence, boardKey, signup, memo>>
StoresKey(e) ==
    /\ job[e].at = "storing"
    /\ licence' = [licence EXCEPT !.key = job[e].key]
    /\ JobEnds(e)
    /\ memo' = [memo EXCEPT !.limit = Max({@, LimitOf(job[e].key, licence.id, licence.day)})]
    /\ UNCHANGED <<account, boardKey, signup>>
ClearsLicence ==
    /\ licence.key # NoLicence /\ ByHand
    /\ licence' = [licence EXCEPT !.key = NoLicence]
    /\ memo' = [memo EXCEPT !.commands = @ + 1]
    /\ UNCHANGED <<account, boardKey, signup, job>>
DayPasses ==
    /\ licence.day < MaxDay
    /\ licence' = [licence EXCEPT !.day = @ + 1]
    /\ UNCHANGED <<account, boardKey, signup, job, memo>>

-----------------------------------------------------------------------------
(* kyoube users remove                                                     *)

RemovalStarts(e, p) == JobBegins(e, [NoJob EXCEPT !.at = "listing", !.kind = "remove", !.who = p])

LastAdmin(p)  == p \in Admins /\ Cardinality(Admins) = 1
EnvKeyAdmin(p) == p \in Admins /\ boardKey.fromEnv
KeyOwner(p)   == ~boardKey.fromEnv /\ boardKey.recorded = p
RefusesUser(p) == p \notin Here \/ LastAdmin(p) \/ EnvKeyAdmin(p)

\* Somebody else's change falls between a removal's look and its end.
Removing == \E e \in Operators : job[e].kind = "remove" /\ job[e].at # "listing"
ListsUsers(e) ==
    LET p == job[e].who IN
    /\ JobAt(e, "remove", "listing")
    /\ IF RefusesUser(p) THEN JobEnds(e) ELSE job' = [job EXCEPT ![e].at = "owner", ![e].admin = p \in Admins]
    /\ memo' = [memo EXCEPT !.raced = @ \/ (~RefusesUser(p) /\ Removing)]
    /\ UNCHANGED <<account, licence, boardKey, signup>>
ReadsKeyOwner(e) ==
    /\ JobAt(e, "remove", "owner")
    /\ IF KeyOwner(job[e].who) THEN JobEnds(e) ELSE JobTo(e, "asked")
    /\ UNCHANGED <<account, licence, boardKey, signup, memo>>
Confirmed(e) ==
    /\ JobAt(e, "remove", "asked")
    /\ JobTo(e, "archiving") \/ JobEnds(e)
    /\ UNCHANGED <<account, licence, boardKey, signup, memo>>
\* Each call is done, or fails and leaves the rest to another run; the core's admin routes
\* want an instance admin's key.
Archives(e) ==
    LET p == job[e].who IN
    /\ JobAt(e, "remove", "archiving")
    /\ \/ /\ boardKey.owner \in Admins
          /\ account' = [account EXCEPT ![p].member = FALSE]
          /\ JobTo(e, IF job[e].admin THEN "demoting" ELSE "deleting")
          /\ memo' = [memo EXCEPT !.half = @ \cup {p}]
       \/ JobEnds(e) /\ UNCHANGED <<account, memo>>
    /\ UNCHANGED <<licence, boardKey, signup>>
Demotes(e) ==
    /\ JobAt(e, "remove", "demoting")
    /\ \/ /\ boardKey.owner \in Admins
          /\ account' = [account EXCEPT ![job[e].who].admin = FALSE]
          /\ JobTo(e, "deleting")
       \/ JobEnds(e) /\ UNCHANGED account
    /\ UNCHANGED <<licence, boardKey, signup, memo>>
DeletesUser(e) ==
    LET p == job[e].who IN
    /\ JobAt(e, "remove", "deleting")
    /\ \/ /\ account' = [account EXCEPT ![p] = [here |-> FALSE, admin |-> FALSE, member |-> FALSE]]
          /\ memo' = [memo EXCEPT !.half = @ \ {p}, !.keyLost = @ \/ boardKey.owner = p]
       \/ UNCHANGED <<account, memo>>
    /\ JobEnds(e) /\ UNCHANGED <<licence, boardKey, signup>>

-----------------------------------------------------------------------------
(* Elsewhere in the core                                                   *)

PromotesOrDemotes(p) ==
    /\ ByHand /\ account[p].here /\ (account[p].admin => Cardinality(Admins) > 1)
    /\ account' = [account EXCEPT ![p].admin = ~@]
    /\ memo' = [memo EXCEPT !.commands = @ + 1, !.raced = @ \/ Removing, !.half = @ \ {p}]
    /\ UNCHANGED <<licence, boardKey, signup, job>>
\* `kyoube setup` stores an admin's key; the core may not say whose it is.
SetupStores(p) ==
    /\ ByHand /\ p \in Admins
    /\ \E recorded \in {p, Unknown} :
         boardKey' = [boardKey EXCEPT !.owner = p, !.recorded = recorded]
    /\ memo' = [memo EXCEPT !.commands = @ + 1, !.raced = @ \/ Removing, !.half = @ \ {p}, !.keyLost = FALSE]
    /\ UNCHANGED <<account, licence, signup, job>>

-----------------------------------------------------------------------------
AccountsInit ==
    \E first \in Persons, fromEnv \in BOOLEAN, id \in 0..1 :
        /\ account = [p \in Persons |-> [here |-> p = first, admin |-> p = first, member |-> p = first]]
        /\ licence = [key |-> NoLicence, id |-> id, day |-> 0]
        /\ boardKey = [owner |-> first, recorded |-> IF fromEnv THEN Unknown ELSE first, fromEnv |-> fromEnv]
        /\ signup = [p \in Persons |-> [at |-> "idle", key |-> NoLicence, id |-> 0]]
        /\ job = [e \in Operators |-> NoJob]
        /\ memo = [commands |-> 0, overlap |-> 0, limit |-> FreeSeats, ids |-> id, raced |-> FALSE,
                      half |-> {}, keyLost |-> FALSE]

AccountsNext ==
    \/ \E p \in Persons : SignsUp(p) \/ ChecksSeat(p) \/ IsCreated(p) \/ PromotesOrDemotes(p) \/ SetupStores(p)
    \/ \E e \in Operators :
         \/ \E key \in Licences : SetsLicence(e, key) \/ AppliesLicence(e, key)
         \/ \E p \in Persons : RemovalStarts(e, p)
         \/ ReadsIdentity(e) \/ WritesIdentity(e) \/ VerifiesKey(e) \/ StoresKey(e)
         \/ ListsUsers(e) \/ ReadsKeyOwner(e) \/ Confirmed(e) \/ Archives(e) \/ Demotes(e) \/ DeletesUser(e)
    \/ ClearsLicence \/ DayPasses

AccountsSpec == AccountsInit /\ [][AccountsNext]_accountVars

-----------------------------------------------------------------------------
AccountsTypeOK ==
    /\ \A p \in Persons : account[p].admin \/ account[p].member => account[p].here
    /\ licence.key \in Licences \cup {NoLicence} /\ licence.day \in 0..MaxDay
    /\ boardKey.owner \in Persons /\ boardKey.recorded \in Persons \cup {Unknown}

\* There are never more accounts than the widest licence so far allows, but for as many
\* as signed up at the same moment (enforce.ts, docs/licensing.md).
SeatsAreKept == Cardinality(Here) <= memo.limit + Max({memo.overlap - 1, 0})

\* The stored key has a good signature, and while it lasts it opens this instance: it was
\* not stored for another, however identities are made (commands/license.ts, files.ts).
StoredKeyIsGood ==
    licence.key # NoLicence =>
        /\ licence.key.good
        /\ memo.ids <= 1 => licence.key.instance \in {0, licence.id}

\* No removal takes the last admin or the owner of the board key the commands use, but for
\* changes of either while it runs and a key whose owner setup could not read (users.ts).
KeysAndAdminsStay ==
    ~memo.raced =>
        /\ Admins # {}
        /\ memo.keyLost => ~boardKey.fromEnv /\ boardKey.recorded = Unknown

\* A removal that stopped halfway is finished by running it again: nothing it did makes
\* the next run refuse, unless they have become the last admin (users.ts).
HalfRemovedCanFinish ==
    ~memo.raced => \A p \in memo.half : p \in Here /\ ~LastAdmin(p) => ~RefusesUser(p) /\ ~KeyOwner(p)
=============================================================================
