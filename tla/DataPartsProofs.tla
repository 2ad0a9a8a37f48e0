--------------------------- MODULE DataPartsProofs ---------------------------
(***************************************************************************)
(* Theorems about the parts of MCDataParts.  Accounts, for all persons,    *)
(* operators and keys: AccountsInv is the inductive invariant; it says     *)
(* which seats are taken or promised, what a key can come to open, and     *)
(* what a removal has looked at that still holds.  AiColumns, for finitely *)
(* many writers and any limits: ColumnsInv says how far the watermark      *)
(* stays from the clock, and what a scan under way still owes.             *)
(***************************************************************************)
EXTENDS MCDataParts, FiniteSetTheorems, TLAPS

-----------------------------------------------------------------------------
(* Accounts                                                                *)

JobSteps == {"idle", "identity", "identifying", "verifying", "storing", "listing", "owner", "asked",
             "archiving", "demoting", "deleting"}
Key == [seats : Nat, until : Nat, instance : Nat, good : BOOLEAN]
Account == [here : BOOLEAN, admin : BOOLEAN, member : BOOLEAN]
Signup == [at : {"idle", "counting", "creating"}, key : Key, id : Nat]
Job == [at : JobSteps, kind : {"none", "set", "apply", "remove"}, who : Persons \cup {Unknown},
        key : Licences \cup {NoLicence}, id : Nat, admin : BOOLEAN]
Memo == [commands : Nat, overlap : Nat, limit : Nat, ids : Nat, raced : BOOLEAN,
         half : SUBSET Persons, keyLost : BOOLEAN]

AccountsTypes ==
    /\ account \in [Persons -> Account]
    /\ licence \in [key : Licences \cup {NoLicence}, id : Nat, day : 0..MaxDay]
    /\ boardKey \in [owner : Persons, recorded : Persons \cup {Unknown}, fromEnv : BOOLEAN]
    /\ signup \in [Persons -> Signup]
    /\ job \in [Operators -> Job]
    /\ memo \in Memo

\* Who has a sign-up under way, and whose seat has been counted.
SigningUp == {p \in Persons : signup[p].at # "idle"}
Creating == {p \in Persons : signup[p].at = "creating"}

PeopleOK ==
    /\ \A p \in Persons : account[p].admin \/ account[p].member => account[p].here
    /\ \A p \in SigningUp : ~account[p].here

\* Whoever has been counted has a seat as well: the last of those that overlap was still let
\* in below the limit.
SeatsOK ==
    /\ Cardinality(SigningUp) <= memo.overlap
    /\ Cardinality(Here) + Cardinality(Creating) <= memo.limit + Max({memo.overlap - 1, 0})

\* No key in use opens more seats than the widest so far, and none can come to.
LimitsOK ==
    /\ licence.id = memo.ids /\ FreeSeats <= memo.limit
    /\ LimitOf(licence.key, licence.id, licence.day) <= memo.limit
    /\ \A p \in SigningUp : LimitOf(signup[p].key, signup[p].id, licence.day) <= memo.limit

\* A key that is stored, or is about to be, was good for the instance as it was read.
KeysOK ==
    /\ licence.key # NoLicence => licence.key.good
    /\ licence.key.instance <= memo.ids
    /\ memo.ids <= 1 => licence.key.instance \in {0, memo.ids}
    /\ \A e \in Operators :
          /\ job[e].id <= memo.ids
          /\ job[e].at = "storing" => job[e].key.good /\ job[e].key.instance \in {0, job[e].id}

Late(j) == j.kind = "remove" /\ j.at \notin {"idle", "listing"}

\* What a removal has looked at still holds.
RemovalOK(j) ==
    /\ j.who \in Here
    /\ \E q \in Admins : q # j.who
    /\ j.at # "deleting" => (j.admin <=> j.who \in Admins)
    /\ j.at = "demoting" => j.admin
    /\ j.at = "deleting" => j.who \notin Admins
    /\ boardKey.fromEnv => j.who \notin Admins
    /\ j.at # "owner" => ~KeyOwner(j.who)
    /\ j.at \in {"demoting", "deleting"} /\ boardKey.fromEnv => boardKey.owner # j.who

UnracedOK ==
    /\ Admins # {}
    /\ memo.keyLost => ~boardKey.fromEnv /\ boardKey.recorded = Unknown
    /\ \A p \in memo.half : ~EnvKeyAdmin(p) /\ ~KeyOwner(p)
    /\ \A e \in Operators : Late(job[e]) => RemovalOK(job[e])
    /\ \A e, d \in Operators : Late(job[e]) /\ Late(job[d]) => e = d

JobsOK ==
    \A e \in Operators :
        /\ job[e].kind = "remove" => job[e].who \in Persons /\ job[e].at \in {"listing", "owner", "asked", "archiving", "demoting", "deleting"}
        /\ job[e].at \in {"listing", "owner", "asked", "archiving", "demoting", "deleting"} => job[e].kind = "remove"

AccountsInv ==
    /\ AccountsTypes /\ PeopleOK /\ SeatsOK /\ LimitsOK /\ KeysOK /\ JobsOK
    /\ boardKey.recorded \in {boardKey.owner, Unknown}
    /\ ~memo.raced => UnracedOK

-----------------------------------------------------------------------------
LEMMA MaxOfTwo ==
    ASSUME NEW a \in Int, NEW b \in Int
    PROVE  /\ Max({a, b}) \in {a, b}
           /\ Max({a, b}) >= a /\ Max({a, b}) >= b
BY DEF Max

\* What a valid key is (verifyLicense).
LEMMA ValidKey ==
    ASSUME NEW k \in Key, NEW id \in Nat, NEW day \in Nat
    PROVE  Verify(k, id, day) = "valid" <=> k.good /\ day <= k.until /\ k.instance \in {0, id}
BY DEF Verify, Key

LEMMA KeysAreKeys ==
    /\ NoLicence \in Key /\ Licences \subseteq Key /\ NoLicence \notin Licences
    /\ NoLicence.instance = 0 /\ ~NoLicence.good
BY AccountsAssumption DEF Key, NoLicence

LEMMA LimitType ==
    ASSUME NEW k \in Key, NEW id \in Nat, NEW day \in Nat
    PROVE  LimitOf(k, id, day) \in Nat /\ LimitOf(k, id, day) >= FreeSeats
BY AccountsAssumption DEF LimitOf, EffectiveLimit, Key

\* A key opens no more seats later than it does now.
LEMMA LimitFalls ==
    ASSUME NEW k \in Key, NEW id \in Nat, NEW day \in Nat
    PROVE  LimitOf(k, id, day + 1) <= LimitOf(k, id, day)
BY AccountsAssumption, ValidKey DEF Key, LimitOf, EffectiveLimit

\* An identity made later opens none of the keys that named an instance.
LEMMA LimitOfLaterInstance ==
    ASSUME NEW k \in Key, NEW id \in Nat, NEW day \in Nat, k.instance <= id
    PROVE  LimitOf(k, id + 1, day) <= LimitOf(k, id, day)
BY AccountsAssumption, ValidKey DEF Key, LimitOf, EffectiveLimit

LEMMA PeopleAreFinite ==
    ASSUME NEW S \in SUBSET Persons
    PROVE  IsFiniteSet(S) /\ Cardinality(S) \in Nat
BY AccountsAssumption, FS_Subset, FS_CardinalityType

LEMMA AccountsInitially ==
    ASSUME AccountsInit
    PROVE  AccountsInv
<1>1. PICK first \in Persons, fromEnv \in BOOLEAN, id \in 0..1 :
        /\ account = [p \in Persons |-> [here |-> p = first, admin |-> p = first, member |-> p = first]]
        /\ licence = [key |-> NoLicence, id |-> id, day |-> 0]
        /\ boardKey = [owner |-> first, recorded |-> IF fromEnv THEN Unknown ELSE first, fromEnv |-> fromEnv]
        /\ signup = [p \in Persons |-> [at |-> "idle", key |-> NoLicence, id |-> 0]]
        /\ job = [e \in Operators |-> NoJob]
        /\ memo = [commands |-> 0, overlap |-> 0, limit |-> FreeSeats, ids |-> id, raced |-> FALSE,
                      half |-> {}, keyLost |-> FALSE]
  BY DEF AccountsInit
<1>2. FreeSeats \in Nat \ {0} /\ MaxDay \in Nat
  BY AccountsAssumption
<1>3. AccountsTypes
  BY <1>1, <1>2, KeysAreKeys DEF Account, NoJob, Job, JobSteps, Signup, Memo, AccountsTypes
<1>4. SigningUp = {} /\ Creating = {} /\ Here = {first} /\ Admins = {first}
  BY <1>1 DEF SigningUp, Creating, Here, Admins
<1>5. PeopleOK
  BY <1>1, <1>4 DEF PeopleOK
<1>6. SeatsOK
  <2>1. Cardinality(Here) = 1 /\ Cardinality(SigningUp) = 0 /\ Cardinality(Creating) = 0
    BY <1>4, FS_Singleton, FS_EmptySet
  <2>2. memo.overlap = 0 /\ memo.limit = FreeSeats
    BY <1>1
  <2>3. Max({0 - 1, 0}) >= 0 /\ Max({0 - 1, 0}) \in Int
    <3>1. 0 - 1 \in Int /\ 0 \in Int
      OBVIOUS
    <3>2. QED
      BY <3>1, MaxOfTwo
  <2>4. QED
    BY <1>2, <2>1, <2>2, <2>3 DEF SeatsOK
<1>7. LimitsOK
  BY <1>1, <1>2, <1>4 DEF LimitOf, LimitsOK
<1>8. KeysOK /\ JobsOK
  BY <1>1, KeysAreKeys DEF KeysOK, JobsOK, NoJob
<1>9. UnracedOK
  BY <1>1, <1>4 DEF UnracedOK, Late, NoJob
<1>10. QED
  BY <1>1, <1>3, <1>5, <1>6, <1>7, <1>8, <1>9 DEF AccountsInv

\* What the history of a step that neither counts a sign-up nor raises the limit keeps.
MemoKept ==
    /\ memo' \in Memo
    /\ memo'.overlap = memo.overlap /\ memo'.limit = memo.limit /\ memo'.ids = memo.ids
    /\ memo'.half \subseteq memo.half /\ memo'.keyLost = memo.keyLost
    /\ memo.raced => memo'.raced

\* A step of one command that changes nothing but its own locals.
LEMMA JobStep ==
    ASSUME AccountsInv, NEW e \in Operators, NEW s \in Job, job' = [job EXCEPT ![e] = s],
           UNCHANGED <<account, licence, boardKey, signup>>, MemoKept,
           s.id <= memo.ids,
           s.at = "storing" => s.key.good /\ s.key.instance \in {0, s.id},
           s.kind = "remove" => s.who \in Persons /\ s.at \in {"listing", "owner", "asked", "archiving", "demoting", "deleting"},
           s.at \in {"listing", "owner", "asked", "archiving", "demoting", "deleting"} => s.kind = "remove",
           Late(s) /\ ~memo'.raced => RemovalOK(s) /\ \A d \in Operators \ {e} : ~Late(job[d])
    PROVE  AccountsInv'
<1>1. /\ AccountsTypes /\ PeopleOK /\ SeatsOK /\ LimitsOK /\ KeysOK /\ JobsOK
      /\ boardKey.recorded \in {boardKey.owner, Unknown}
      /\ job \in [Operators -> Job]
  BY DEF AccountsInv, AccountsTypes
<1>2. job' \in [Operators -> Job] /\ job'[e] = s /\ \A d \in Operators \ {e} : job'[d] = job[d]
  BY <1>1
<1>3. AccountsTypes'
  BY <1>1, <1>2 DEF AccountsTypes, MemoKept
<1>4. PeopleOK' /\ SeatsOK' /\ LimitsOK'
  BY <1>1 DEF PeopleOK, SeatsOK, LimitsOK, SigningUp, Creating, Here, MemoKept
<1>5. KeysOK' /\ JobsOK'
  BY <1>1, <1>2 DEF KeysOK, JobsOK, MemoKept
<1>6. ASSUME ~memo'.raced
      PROVE  UnracedOK'
  <2>1. UnracedOK
    BY <1>6 DEF MemoKept, AccountsInv
  <2>2. ASSUME NEW d \in Operators, Late(job'[d])
        PROVE  RemovalOK(job[d])'
    BY <1>2, <1>6, <2>1, <2>2 DEF UnracedOK, RemovalOK, Here, Admins, KeyOwner
  <2>3. \A d, f \in Operators : Late(job'[d]) /\ Late(job'[f]) => d = f
    BY <1>2, <1>6, <2>1 DEF UnracedOK
  <2>4. QED
    BY <2>1, <2>2, <2>3 DEF UnracedOK, MemoKept, Admins, Here, EnvKeyAdmin, KeyOwner
<1>7. QED
  BY <1>1, <1>3, <1>4, <1>5, <1>6 DEF AccountsInv

\* A command begins; what it is about decides nothing yet.
LEMMA JobBeginning ==
    ASSUME AccountsInv, NEW e \in Operators, NEW s \in Job, JobBegins(e, s),
           s.at \in {"identity", "listing"}, s.id = 0,
           s.kind = "remove" <=> s.at = "listing",
           s.kind = "remove" => s.who \in Persons
    PROVE  AccountsInv'
<1>1. /\ memo \in Memo /\ job' = [job EXCEPT ![e] = s] /\ memo' = [memo EXCEPT !.commands = @ + 1]
      /\ UNCHANGED <<account, licence, boardKey, signup>>
  BY DEF JobBegins, AccountsInv, AccountsTypes
<1>2. MemoKept
  BY <1>1 DEF MemoKept, Memo
<1>3. ~Late(s) /\ s.id <= memo.ids
  BY <1>1 DEF Late, Memo
<1>4. QED
  BY <1>1, <1>2, <1>3, JobStep

LEMMA CommandsBegin ==
    ASSUME AccountsInv, NEW e \in Operators,
           \/ \E key \in Licences : SetsLicence(e, key) \/ AppliesLicence(e, key)
           \/ \E p \in Persons : RemovalStarts(e, p)
    PROVE  AccountsInv'
BY JobBeginning DEF NoJob, Job, JobSteps, SetsLicence, AppliesLicence, RemovalStarts

\* A command that only reads, or ends.
LEMMA CommandsRead ==
    ASSUME AccountsInv, NEW e \in Operators,
           ReadsIdentity(e) \/ VerifiesKey(e) \/ ListsUsers(e) \/ ReadsKeyOwner(e) \/ Confirmed(e)
    PROVE  AccountsInv'
<1> DEFINE j == job[e]
<1>1. /\ j \in Job /\ memo \in Memo /\ licence.id = memo.ids /\ licence.id \in Nat /\ licence.day \in Nat
      /\ KeysOK /\ JobsOK /\ j.key \in Key
  BY AccountsAssumption, KeysAreKeys DEF AccountsInv, AccountsTypes, LimitsOK, Job
<1>2. UNCHANGED <<account, licence, boardKey, signup>>
  BY DEF ReadsIdentity, VerifiesKey, ListsUsers, ReadsKeyOwner, Confirmed
<1>3. ~ListsUsers(e) => memo' = memo
  BY DEF ReadsIdentity, VerifiesKey, ReadsKeyOwner, Confirmed
<1>4. MemoKept
  BY <1>1, <1>3 DEF ListsUsers, MemoKept, Memo
<1>5. ASSUME JobEnds(e)
      PROVE  AccountsInv'
  <2>1. PICK s \in Job : s = NoJob
    BY DEF NoJob, Job, JobSteps
  <2>2. s.at = "idle" /\ s.kind = "none" /\ s.id = 0 /\ ~Late(s) /\ s.id <= memo.ids
    BY <1>1, <2>1 DEF NoJob, Late, Memo
  <2>3. job' = [job EXCEPT ![e] = s]
    BY <1>5, <2>1 DEF JobEnds
  <2>4. QED
    BY <1>2, <1>4, <2>2, <2>3, JobStep
<1>6. ASSUME NEW at \in {"owner", "asked", "archiving", "storing"}, JobTo(e, at),
             at = "storing" => j.key.good /\ j.key.instance \in {0, j.id} /\ j.kind # "remove",
             at # "storing" => j.kind = "remove",
             at # "storing" /\ ~memo'.raced =>
                RemovalOK([j EXCEPT !.at = at]) /\ \A d \in Operators \ {e} : ~Late(job[d])
      PROVE  AccountsInv'
  <2>1. PICK s \in Job : s = [j EXCEPT !.at = at]
    BY <1>1 DEF Job, JobSteps
  <2>2. s.at = at /\ s.kind = j.kind /\ s.id = j.id /\ s.who = j.who /\ s.key = j.key
    BY <1>1, <2>1 DEF Job
  <2>3. job' = [job EXCEPT ![e] = s]
    BY <1>6, <2>1 DEF JobTo
  <2>4. Late(s) => at # "storing"
    BY <1>6, <2>2 DEF Late
  <2>5. j.id <= memo.ids /\ (j.kind = "remove" => j.who \in Persons)
    BY <1>1 DEF KeysOK, JobsOK
  <2>6. QED
    BY <1>2, <1>4, <1>6, <2>1, <2>2, <2>3, <2>4, <2>5, JobStep
<1>7. CASE ReadsIdentity(e)
  <2>1. PICK s \in Job : s = [j EXCEPT !.id = licence.id,
                          !.at = IF j.kind = "set" /\ licence.id = 0 THEN "identifying" ELSE "verifying"]
    BY <1>1 DEF Job, JobSteps
  <2>2. s.at \in {"identifying", "verifying"} /\ s.id = licence.id /\ s.kind = j.kind /\ s.kind # "remove"
    BY <1>1, <1>7, <2>1 DEF Job, ReadsIdentity
  <2>3. job' = [job EXCEPT ![e] = s]
    BY <1>7, <2>1 DEF ReadsIdentity
  <2>4. ~Late(s) /\ s.id <= memo.ids
    BY <1>1, <2>2 DEF Late, Memo
  <2>5. QED
    BY <1>2, <1>4, <2>2, <2>3, <2>4, JobStep
<1>8. CASE VerifiesKey(e)
  BY <1>1, ValidKey, <1>8, <1>6, <1>5 DEF Job, VerifiesKey, JobsOK
<1>9. CASE ListsUsers(e) /\ ~RefusesUser(j.who)
  <2> DEFINE p == j.who
  <2>0. PICK b \in BOOLEAN : b = (p \in Admins)
    <3>1. (p \in Admins) \in BOOLEAN
      OBVIOUS
    <3>2. WITNESS (p \in Admins) \in BOOLEAN
    <3>3. QED
      OBVIOUS
  <2>1. PICK s \in Job : s = [j EXCEPT !.at = "owner", !.admin = b]
    BY <1>1 DEF Job, JobSteps
  <2>2. /\ s.at = "owner" /\ s.kind = "remove" /\ s.id = j.id /\ s.who = p /\ (s.admin <=> p \in Admins)
        /\ j.kind = "remove"
    BY <1>1, <1>9, <2>0, <2>1 DEF Job, ListsUsers, JobAt
  <2>3. job' = [job EXCEPT ![e] = s] /\ (memo'.raced <=> memo.raced \/ Removing)
    BY <1>1, <1>9, <2>0, <2>1 DEF ListsUsers, Memo
  <2>4. p \in Persons /\ j.id <= memo.ids
    BY <1>1, <2>2 DEF JobsOK, KeysOK
  <2>5. ASSUME ~memo'.raced
        PROVE  RemovalOK(s) /\ \A d \in Operators \ {e} : ~Late(job[d])
    <3>1. UnracedOK /\ ~Removing
      BY <2>3, <2>5 DEF AccountsInv
    <3>2. \A d \in Operators : ~Late(job[d])
      BY <1>1, <3>1 DEF Removing, Late, JobsOK
    <3>3. p \in Here /\ ~LastAdmin(p) /\ ~EnvKeyAdmin(p)
      BY <1>9 DEF RefusesUser
    <3>4. \E q \in Admins : q # p
      <4>1. IsFiniteSet(Admins)
        BY PeopleAreFinite DEF Admins, Here
      <4>2. Admins # {} /\ Admins # {p}
        BY <3>1, <3>3, <4>1, FS_Singleton DEF UnracedOK, LastAdmin
      <4>3. QED
        BY <4>2
    <3>5. RemovalOK(s)
      BY <2>2, <3>3, <3>4 DEF RemovalOK, EnvKeyAdmin
    <3>6. QED
      BY <3>2, <3>5
  <2>6. QED
    BY <1>2, <1>4, <2>1, <2>2, <2>3, <2>4, <2>5, JobStep
<1>10. CASE ListsUsers(e) /\ RefusesUser(j.who)
  BY <1>5, <1>10 DEF ListsUsers
<1>11. ASSUME j.kind = "remove", j.at \in {"owner", "asked"}, memo' = memo, ~memo'.raced
       PROVE  RemovalOK(j) /\ \A d \in Operators \ {e} : ~Late(job[d])
  BY <1>11 DEF AccountsInv, UnracedOK, Late
<1>12. CASE ReadsKeyOwner(e)
  BY <1>12, <1>5, <1>1, <1>11, <1>6 DEF ReadsKeyOwner, JobAt, Job, RemovalOK
<1>13. CASE Confirmed(e)
  BY <1>13, <1>1, <1>11, <1>5, <1>6 DEF Confirmed, JobAt, Job, RemovalOK
<1>14. QED
  BY <1>7, <1>8, <1>9, <1>10, <1>12, <1>13

\* Who is at work on a removal still finds it as it looked: nothing here took an admin, a
\* user or the board key.
LEMMA RemovalsKept ==
    ASSUME AccountsInv, Admins' = Admins, Here \subseteq Here', boardKey' = boardKey,
           memo'.half \subseteq memo.half, memo'.keyLost = memo.keyLost, memo.raced => memo'.raced,
           \A e \in Operators : Late(job'[e]) => job'[e] = job[e]
    PROVE  ~memo'.raced => UnracedOK'
<1>1. SUFFICES ASSUME ~memo'.raced
               PROVE  UnracedOK'
  OBVIOUS
<1>2. UnracedOK
  BY <1>1 DEF AccountsInv
<1>3. ASSUME NEW e \in Operators, Late(job'[e])
      PROVE  RemovalOK(job[e])'
  BY <1>2, <1>3 DEF UnracedOK, RemovalOK, KeyOwner
<1>4. \A e, d \in Operators : Late(job'[e]) /\ Late(job'[d]) => e = d
  BY <1>2 DEF UnracedOK
<1>5. QED
  BY <1>2, <1>3, <1>4 DEF UnracedOK, EnvKeyAdmin, KeyOwner

\* Sign-ups.
LEMMA SignUpBegins ==
    ASSUME AccountsInv, NEW p \in Persons, SignsUp(p)
    PROVE  AccountsInv'
<1>1. /\ AccountsTypes /\ PeopleOK /\ SeatsOK /\ LimitsOK /\ KeysOK /\ JobsOK
      /\ boardKey.recorded \in {boardKey.owner, Unknown}
  BY DEF AccountsInv
<1>2. /\ signup \in [Persons -> Signup] /\ memo \in Memo /\ licence.key \in Key /\ licence.id \in Nat
      /\ UNCHANGED <<account, licence, boardKey, job>>
      /\ ~account[p].here /\ signup[p].at = "idle"
  BY <1>1, KeysAreKeys DEF AccountsTypes, SignsUp
<1>3. PICK s \in Signup : s = [at |-> "counting", key |-> licence.key, id |-> licence.id]
  BY <1>2 DEF Signup
<1>4. s.at = "counting" /\ s.key = licence.key /\ s.id = licence.id
  BY <1>3
<1>5. signup' = [signup EXCEPT ![p] = s]
  BY <1>3 DEF SignsUp
<1>6. /\ signup' \in [Persons -> Signup] /\ signup'[p] = s
      /\ \A q \in Persons \ {p} : signup'[q] = signup[q]
  BY <1>2, <1>5
<1>7. SigningUp' = SigningUp \cup {p} /\ Creating' = Creating
  BY <1>2, <1>4, <1>6 DEF SigningUp, Creating
<1> DEFINE count == Cardinality(SigningUp')
<1>8. count \in Nat
  BY PeopleAreFinite DEF SigningUp
<1>9. memo' = [memo EXCEPT !.overlap = Max({memo.overlap, count})]
  BY <1>2 DEF SignsUp, SigningUp
<1> HIDE DEF count
<1> DEFINE m == Max({memo.overlap, count})
<1>10. m \in Nat /\ m >= memo.overlap /\ m >= count
  <2>1. memo.overlap \in Nat /\ memo.overlap \in Int /\ count \in Int
    BY <1>2, <1>8 DEF Memo
  <2>2. /\ Max({memo.overlap, count}) \in {memo.overlap, count}
        /\ Max({memo.overlap, count}) >= memo.overlap /\ Max({memo.overlap, count}) >= count
    BY <2>1, MaxOfTwo
  <2>3. QED
    BY <1>8, <2>1, <2>2
<1> HIDE DEF m
<1>11. /\ memo' \in Memo /\ memo'.overlap = m /\ memo'.limit = memo.limit /\ memo'.ids = memo.ids
       /\ memo'.half = memo.half /\ memo'.keyLost = memo.keyLost /\ memo'.raced = memo.raced
  BY <1>2, <1>9, <1>10 DEF Memo, m
<1>12. AccountsTypes'
  BY <1>1, <1>2, <1>6, <1>11 DEF AccountsTypes
<1>13. PeopleOK' /\ KeysOK' /\ JobsOK' /\ Here' = Here /\ Admins' = Admins
  BY <1>1, <1>2, <1>7, <1>11 DEF PeopleOK, KeysOK, JobsOK, Here, Admins
<1>14. SeatsOK'
  <2>1. /\ Max({memo.overlap - 1, 0}) \in Int /\ Max({m - 1, 0}) \in Int
        /\ Max({memo.overlap - 1, 0}) <= Max({m - 1, 0})
    <3>1. memo.overlap \in Nat /\ memo.overlap - 1 \in Int /\ m - 1 \in Int /\ 0 \in Int
      BY <1>2, <1>10 DEF Memo
    <3>2. /\ Max({memo.overlap - 1, 0}) \in {memo.overlap - 1, 0} /\ Max({m - 1, 0}) \in {m - 1, 0}
          /\ Max({m - 1, 0}) >= m - 1 /\ Max({m - 1, 0}) >= 0
      BY <3>1, MaxOfTwo
    <3>3. QED
      BY <1>10, <3>1, <3>2
  <2>2. Here \in SUBSET Persons /\ Creating \in SUBSET Persons
    BY DEF Here, Creating
  <2>3. Cardinality(Here) \in Nat /\ Cardinality(Creating) \in Nat /\ memo.limit \in Nat
    BY <1>2, <2>2, PeopleAreFinite DEF Memo
  <2>4. count <= m
    BY <1>8, <1>10
  <2>5. QED
    BY <1>1, <1>7, <1>11, <1>13, <2>1, <2>3, <2>4 DEF SeatsOK, count
<1>15. LimitsOK'
  BY <1>6, <1>7, <1>1, <1>4, <1>2, <1>11 DEF SigningUp, LimitsOK
<1>16. ~memo'.raced => UnracedOK'
  BY <1>2, <1>11, <1>13, RemovalsKept
<1>17. QED
  BY <1>1, <1>2, <1>12, <1>13, <1>14, <1>15, <1>16 DEF AccountsInv

\* A step of a sign-up under way: it lets go of nothing but its own place.
LEMMA SignUpStep ==
    ASSUME AccountsInv, NEW p \in Persons, NEW at \in {"idle", "creating"}, SignupTo(p, at),
           UNCHANGED <<licence, boardKey, job, memo>>,
           account' \in [Persons -> Account], Admins' = Admins, PeopleOK',
           \A q \in Here : q \in Here',
           at = "creating" => signup[p].at # "idle",
           Cardinality(Here') + Cardinality(Creating') <= memo.limit + Max({memo.overlap - 1, 0})
    PROVE  AccountsInv'
<1>1. /\ AccountsTypes /\ PeopleOK /\ SeatsOK /\ LimitsOK /\ KeysOK /\ JobsOK
      /\ boardKey.recorded \in {boardKey.owner, Unknown}
  BY DEF AccountsInv
<1>2. /\ signup \in [Persons -> Signup] /\ memo \in Memo /\ licence.id \in Nat /\ licence.day \in Nat
  BY <1>1, AccountsAssumption DEF AccountsTypes
<1>3. PICK s \in Signup : s = [at |-> at, key |-> NoLicence, id |-> 0]
  BY KeysAreKeys DEF Signup
<1>4. s.at = at /\ s.key = NoLicence /\ s.id = 0
  BY <1>3
<1>5. signup' = [signup EXCEPT ![p] = s]
  BY <1>3 DEF SignupTo
<1>6. /\ signup' \in [Persons -> Signup] /\ signup'[p] = s
      /\ \A q \in Persons \ {p} : signup'[q] = signup[q]
  BY <1>2, <1>5
<1>7. SigningUp' \subseteq SigningUp /\ SigningUp \in SUBSET Persons
  BY <1>4, <1>6 DEF SigningUp
<1>8. AccountsTypes'
  BY <1>1, <1>6 DEF AccountsTypes
<1>9. KeysOK' /\ JobsOK'
  BY <1>1 DEF KeysOK, JobsOK
<1>10. SeatsOK'
  BY <1>2, <1>7, PeopleAreFinite, FS_Subset, <1>1 DEF Memo, SeatsOK
<1>11. LimitsOK'
  BY <1>1, <1>4, <1>6, <1>7 DEF LimitOf, LimitsOK, SigningUp
<1>12. ~memo'.raced => UnracedOK'
  BY RemovalsKept
<1>13. QED
  BY <1>1, <1>8, <1>9, <1>10, <1>11, <1>12 DEF AccountsInv

LEMMA SeatIsChecked ==
    ASSUME AccountsInv, NEW p \in Persons, ChecksSeat(p)
    PROVE  AccountsInv'
<1>1. /\ signup \in [Persons -> Signup] /\ memo \in Memo /\ signup[p].at = "counting"
      /\ UNCHANGED <<account, licence, boardKey, job, memo>>
      /\ account' \in [Persons -> Account] /\ PeopleOK /\ SeatsOK /\ LimitsOK
  BY DEF AccountsInv, AccountsTypes, ChecksSeat
<1>2. Here' = Here /\ Admins' = Admins
  BY <1>1 DEF Here, Admins
<1>3. /\ Here \in SUBSET Persons /\ Creating \in SUBSET Persons /\ SigningUp \in SUBSET Persons
      /\ p \in SigningUp
  BY <1>1 DEF Here, Creating, SigningUp
<1>4. /\ Cardinality(Here) \in Nat /\ Cardinality(Creating) \in Nat /\ Cardinality(SigningUp) \in Nat
      /\ memo.limit \in Nat /\ memo.overlap \in Nat
  BY <1>1, <1>3, PeopleAreFinite DEF Memo
<1>5. CASE Fits(signup[p]) /\ SignupTo(p, "creating")
  <2>1. \A q \in Persons : signup'[q].at = IF q = p THEN "creating" ELSE signup[q].at
    BY <1>1, <1>5 DEF SignupTo
  <2>2. SigningUp' = SigningUp /\ Creating' = Creating \cup {p} /\ Creating' \subseteq SigningUp
    BY <1>1, <2>1 DEF SigningUp, Creating
  <2>3. PeopleOK'
    BY <1>1, <2>2 DEF PeopleOK
  <2>4. Cardinality(Here) < memo.limit
    <3>1. signup[p].key \in Key /\ signup[p].id \in Nat /\ licence.day \in Nat /\ FreeSeats \in Nat
      BY <1>1, AccountsAssumption DEF Signup, AccountsInv, AccountsTypes
    <3>2. Seats(signup[p]) \in Nat
      BY <3>1, LimitType DEF Seats
    <3>3. Seats(signup[p]) <= memo.limit
      BY <1>1, <1>3 DEF LimitsOK, Seats
    <3>4. QED
      BY <1>4, <1>5, <3>2, <3>3 DEF Fits
  <2>5. Cardinality(Creating') \in Nat /\ Cardinality(Creating') <= memo.overlap
    BY <1>3, <2>2, PeopleAreFinite, FS_Subset, <1>1, <1>4 DEF SeatsOK
  <2>6. memo.overlap - 1 <= Max({memo.overlap - 1, 0}) /\ Max({memo.overlap - 1, 0}) \in Int
    <3>1. memo.overlap - 1 \in Int /\ 0 \in Int
      BY <1>4
    <3>2. QED
      BY <3>1, MaxOfTwo
  <2>7. Cardinality(Here') + Cardinality(Creating') <= memo.limit + Max({memo.overlap - 1, 0})
    BY <1>2, <1>4, <2>4, <2>5, <2>6
  <2>8. QED
    BY <1>1, <1>2, <1>5, <2>3, <2>7, SignUpStep
<1>6. CASE SignupTo(p, "idle")
  BY <1>1, <1>6, <1>2, SignUpStep DEF SignupTo, SigningUp, Creating, PeopleOK, SeatsOK
<1>7. QED
  BY <1>5, <1>6 DEF ChecksSeat

LEMMA AccountIsCreated ==
    ASSUME AccountsInv, NEW p \in Persons, IsCreated(p)
    PROVE  AccountsInv'
<1>1. /\ signup \in [Persons -> Signup] /\ account \in [Persons -> Account] /\ signup[p].at = "creating"
      /\ UNCHANGED <<licence, boardKey, job, memo>> /\ SignupTo(p, "idle")
      /\ PeopleOK /\ SeatsOK
  BY DEF AccountsInv, AccountsTypes, IsCreated
<1>2. PICK a \in Account : a = [here |-> TRUE, admin |-> FALSE, member |-> TRUE]
  BY DEF Account
<1>3. a.here /\ ~a.admin
  BY <1>2
<1>4. account' = [account EXCEPT ![p] = a]
  BY <1>2 DEF IsCreated
<1>5. /\ account' \in [Persons -> Account] /\ account'[p] = a
      /\ \A q \in Persons \ {p} : account'[q] = account[q]
  BY <1>1, <1>4
<1>6. ~account[p].here /\ ~account[p].admin
  BY <1>1 DEF PeopleOK, SigningUp
<1>7. Here' = Here \cup {p} /\ p \notin Here
  BY <1>3, <1>5, <1>6 DEF Here
<1>8. Admins' = Admins
  BY <1>3, <1>5, <1>6, <1>7 DEF Admins, Here
<1>9. \A q \in Persons : signup'[q].at = IF q = p THEN "idle" ELSE signup[q].at
  BY <1>1 DEF SignupTo
<1>10. SigningUp' = SigningUp \ {p} /\ Creating' = Creating \ {p} /\ p \in Creating
  BY <1>1, <1>9 DEF SigningUp, Creating
<1>11. PeopleOK'
  BY <1>1, <1>3, <1>5, <1>10 DEF PeopleOK, SigningUp
<1>12. Cardinality(Here') + Cardinality(Creating') <= memo.limit + Max({memo.overlap - 1, 0})
  <2>1. Here \in SUBSET Persons /\ Creating \in SUBSET Persons
    BY DEF Here, Creating
  <2>2. IsFiniteSet(Here) /\ IsFiniteSet(Creating)
    BY <2>1, PeopleAreFinite
  <2>3. Cardinality(Here) \in Nat /\ Cardinality(Creating) \in Nat
    BY <2>2, FS_CardinalityType
  <2>4. Cardinality(Here') = Cardinality(Here) + 1
    BY <1>7, <2>2, FS_AddElement
  <2>5. Cardinality(Creating') = Cardinality(Creating) - 1
    BY <1>10, <2>2, FS_RemoveElement
  <2>6. Cardinality(Here') + Cardinality(Creating') = Cardinality(Here) + Cardinality(Creating)
    BY <2>3, <2>4, <2>5
  <2>7. QED
    BY <1>1, <2>6 DEF SeatsOK
<1>13. QED
  BY <1>1, <1>5, <1>7, <1>8, <1>11, <1>12, SignUpStep

\* A step of the licence that leaves people, sign-ups and removals alone, and opens no
\* more seats than were.
LEMMA LicenceStep ==
    ASSUME AccountsInv, UNCHANGED <<account, boardKey, signup>>,
           licence' \in [key : Licences \cup {NoLicence}, id : Nat, day : 0..MaxDay],
           job' \in [Operators -> Job], memo' \in Memo, KeysOK', JobsOK',
           \A e \in Operators : Late(job'[e]) => job'[e] = job[e],
           memo'.overlap = memo.overlap, memo'.limit >= memo.limit,
           memo'.half = memo.half, memo'.keyLost = memo.keyLost, memo'.raced = memo.raced,
           licence'.id = memo'.ids,
           LimitOf(licence'.key, licence'.id, licence'.day) <= memo'.limit,
           \A p \in SigningUp : LimitOf(signup[p].key, signup[p].id, licence'.day)
                                  <= LimitOf(signup[p].key, signup[p].id, licence.day)
    PROVE  AccountsInv'
<1>1. /\ AccountsTypes /\ PeopleOK /\ SeatsOK /\ LimitsOK
      /\ boardKey.recorded \in {boardKey.owner, Unknown}
  BY DEF AccountsInv
<1>2. /\ memo \in Memo /\ signup \in [Persons -> Signup] /\ licence.day \in Nat /\ licence'.day \in Nat
      /\ memo.limit \in Nat /\ memo'.limit \in Nat /\ memo.overlap \in Nat
  BY <1>1, AccountsAssumption DEF AccountsTypes, Memo
<1>3. Here' = Here /\ Admins' = Admins /\ SigningUp' = SigningUp /\ Creating' = Creating
  BY DEF Here, Admins, SigningUp, Creating
<1>4. AccountsTypes'
  BY <1>1 DEF AccountsTypes
<1>5. PeopleOK'
  BY <1>1, <1>3 DEF PeopleOK
<1>6. SeatsOK'
  <2>1. Here \in SUBSET Persons /\ Creating \in SUBSET Persons
    BY DEF Here, Creating
  <2>2. Cardinality(Here) \in Nat /\ Cardinality(Creating) \in Nat
    BY <2>1, PeopleAreFinite
  <2>3. Max({memo.overlap - 1, 0}) \in Int
    <3>1. memo.overlap - 1 \in Int /\ 0 \in Int
      BY <1>2
    <3>2. QED
      BY <3>1, MaxOfTwo
  <2>4. QED
    BY <1>1, <1>2, <1>3, <2>2, <2>3 DEF SeatsOK
<1>7. LimitsOK'
  <2>1. FreeSeats \in Nat
    BY AccountsAssumption
  <2>2. ASSUME NEW p \in SigningUp'
        PROVE  LimitOf(signup'[p].key, signup'[p].id, licence'.day) <= memo'.limit
    <3>1. p \in SigningUp /\ signup' = signup /\ signup[p].key \in Key /\ signup[p].id \in Nat
      BY <1>2, <1>3, <2>2 DEF SigningUp, Signup
    <3>2. /\ LimitOf(signup[p].key, signup[p].id, licence'.day) \in Nat
          /\ LimitOf(signup[p].key, signup[p].id, licence.day) \in Nat
      BY <1>2, <3>1, LimitType
    <3>3. LimitOf(signup[p].key, signup[p].id, licence.day) <= memo.limit
      BY <1>1, <3>1 DEF LimitsOK
    <3>4. QED
      BY <1>2, <3>1, <3>2, <3>3
  <2>3. QED
    BY <1>1, <1>2, <2>1, <2>2 DEF LimitsOK
<1>8. ~memo'.raced => UnracedOK'
  BY <1>3, RemovalsKept
<1>9. QED
  BY <1>1, <1>4, <1>5, <1>6, <1>7, <1>8 DEF AccountsInv

\* ensureInstanceId: a new identity.
LEMMA IdentityIsWritten ==
    ASSUME AccountsInv, NEW e \in Operators, WritesIdentity(e)
    PROVE  AccountsInv'
<1> DEFINE j == job[e]
           i == memo.ids + 1
<1>1. /\ job \in [Operators -> Job] /\ j \in Job /\ memo \in Memo /\ j.at = "identifying"
      /\ licence \in [key : Licences \cup {NoLicence}, id : Nat, day : 0..MaxDay]
      /\ licence.key \in Key /\ licence.day \in Nat
      /\ LimitsOK /\ KeysOK /\ JobsOK /\ UNCHANGED <<account, boardKey, signup>>
  BY KeysAreKeys, AccountsAssumption DEF AccountsInv, AccountsTypes, WritesIdentity
<1>2. i \in Nat /\ memo.ids \in Nat /\ memo.limit \in Nat /\ i > memo.ids
  BY <1>1 DEF Memo
<1> HIDE DEF i
<1>3. /\ licence' = [licence EXCEPT !.id = i] /\ memo' = [memo EXCEPT !.ids = i]
      /\ job' = [job EXCEPT ![e].id = i, ![e].at = "verifying"]
  BY DEF WritesIdentity, i
<1>4. PICK s \in Job : s = [j EXCEPT !.id = i, !.at = "verifying"]
  BY <1>1, <1>2 DEF Job, JobSteps
<1>5. s.id = i /\ s.at = "verifying" /\ s.kind = j.kind /\ j.kind # "remove"
  BY <1>1, <1>4 DEF Job, JobsOK
<1>6. job' = [job EXCEPT ![e] = s]
  BY <1>1, <1>3, <1>4
<1>7. job' \in [Operators -> Job] /\ job'[e] = s /\ \A d \in Operators \ {e} : job'[d] = job[d]
  BY <1>1, <1>6
<1>8. /\ licence' \in [key : Licences \cup {NoLicence}, id : Nat, day : 0..MaxDay]
      /\ licence'.key = licence.key /\ licence'.id = i /\ licence'.day = licence.day
  BY <1>1, <1>2, <1>3
<1>9. /\ memo' \in Memo /\ memo'.overlap = memo.overlap /\ memo'.limit = memo.limit /\ memo'.ids = i
      /\ memo'.half = memo.half /\ memo'.keyLost = memo.keyLost /\ memo'.raced = memo.raced
  BY <1>1, <1>2, <1>3 DEF Memo
<1>10. licence.key.instance \in Nat /\ licence.key.instance <= memo.ids
  BY <1>1 DEF KeysOK, Key
<1>11. KeysOK'
  BY <1>2, <1>10, <1>5, <1>7, <1>1, <1>8, <1>9 DEF i, Job, KeysOK
<1>12. JobsOK'
  BY <1>1, <1>5, <1>7 DEF JobsOK
<1>13. \A d \in Operators : Late(job'[d]) => job'[d] = job[d]
  BY <1>5, <1>7 DEF Late
<1>14. LimitOf(licence'.key, licence'.id, licence'.day) <= memo'.limit
  <2>1. LimitOf(licence.key, memo.ids + 1, licence.day) <= LimitOf(licence.key, memo.ids, licence.day)
    BY <1>1, <1>2, <1>10, LimitOfLaterInstance
  <2>2. LimitOf(licence.key, memo.ids, licence.day) <= memo.limit
    BY <1>1 DEF LimitsOK
  <2>3. LimitOf(licence.key, i, licence.day) \in Nat /\ LimitOf(licence.key, memo.ids, licence.day) \in Nat
    BY <1>1, <1>2, LimitType
  <2>4. QED
    BY <1>2, <1>8, <1>9, <2>1, <2>2, <2>3 DEF i
<1>15. ASSUME NEW p \in SigningUp
       PROVE  LimitOf(signup[p].key, signup[p].id, licence'.day)
                 <= LimitOf(signup[p].key, signup[p].id, licence.day)
  BY <1>15, <1>1, LimitType, <1>8 DEF AccountsInv, AccountsTypes, Signup, SigningUp
<1>16. QED
  BY <1>1, <1>2, <1>7, <1>8, <1>9, <1>11, <1>12, <1>13, <1>14, <1>15, LicenceStep

\* A key that was good is stored, good now or not.
LEMMA KeyIsStored ==
    ASSUME AccountsInv, NEW e \in Operators, StoresKey(e)
    PROVE  AccountsInv'
<1> DEFINE j == job[e]
<1>1. /\ job \in [Operators -> Job] /\ j \in Job /\ memo \in Memo /\ j.at = "storing"
      /\ licence \in [key : Licences \cup {NoLicence}, id : Nat, day : 0..MaxDay]
      /\ j.key \in Licences \cup {NoLicence} /\ j.key \in Key /\ licence.day \in Nat /\ licence.id \in Nat
      /\ LimitsOK /\ KeysOK /\ JobsOK /\ UNCHANGED <<account, boardKey, signup>>
  BY KeysAreKeys, AccountsAssumption DEF AccountsInv, AccountsTypes, StoresKey, Job
<1> DEFINE l == LimitOf(j.key, licence.id, licence.day)
           m == Max({memo.limit, l})
<1>2. memo' = [memo EXCEPT !.limit = m]
  BY DEF StoresKey
<1>3. l \in Nat /\ memo.limit \in Nat /\ l \in Int /\ memo.limit \in Int
  <2>1. LimitOf(j.key, licence.id, licence.day) \in Nat
    BY <1>1, LimitType
  <2>2. memo.limit \in Nat
    BY <1>1 DEF Memo
  <2>3. QED
    BY <2>1, <2>2
<1> HIDE DEF l
<1>4. m \in Nat /\ m >= memo.limit /\ m >= l
  BY <1>3, MaxOfTwo
<1> HIDE DEF m
<1>5. /\ memo' \in Memo /\ memo'.overlap = memo.overlap /\ memo'.limit = m /\ memo'.ids = memo.ids
      /\ memo'.half = memo.half /\ memo'.keyLost = memo.keyLost /\ memo'.raced = memo.raced
  BY <1>1, <1>2, <1>4 DEF Memo
<1>6. /\ licence' \in [key : Licences \cup {NoLicence}, id : Nat, day : 0..MaxDay]
      /\ licence'.key = j.key /\ licence'.id = licence.id /\ licence'.day = licence.day
  BY <1>1 DEF StoresKey
<1>7. PICK s \in Job : s = NoJob
  BY DEF NoJob, Job, JobSteps
<1>8. s.at = "idle" /\ s.kind = "none" /\ s.id = 0
  BY <1>7 DEF NoJob
<1>9. job' \in [Operators -> Job] /\ job'[e] = s /\ \A d \in Operators \ {e} : job'[d] = job[d]
  BY <1>1, <1>7 DEF StoresKey, JobEnds
<1>10. j.key.good /\ j.key.instance \in {0, j.id} /\ j.id <= memo.ids /\ j.id \in Nat /\ memo.ids \in Nat
  BY <1>1 DEF KeysOK, Job, Memo
<1>11. KeysOK'
  BY <1>10, <1>1, <1>8, <1>9, <1>5, <1>6 DEF KeysOK
<1>12. JobsOK'
  BY <1>1, <1>8, <1>9 DEF JobsOK
<1>13. \A d \in Operators : Late(job'[d]) => job'[d] = job[d]
  BY <1>8, <1>9 DEF Late
<1>14. LimitOf(licence'.key, licence'.id, licence'.day) <= memo'.limit
  BY <1>3, <1>4, <1>5, <1>6 DEF l
<1>15. licence'.id = memo'.ids
  BY <1>1, <1>5, <1>6 DEF LimitsOK
<1>16. ASSUME NEW p \in SigningUp
       PROVE  LimitOf(signup[p].key, signup[p].id, licence'.day)
                 <= LimitOf(signup[p].key, signup[p].id, licence.day)
  BY <1>16, <1>1, LimitType, <1>6 DEF AccountsInv, AccountsTypes, Signup, SigningUp
<1>17. QED
  BY <1>1, <1>4, <1>5, <1>6, <1>9, <1>11, <1>12, <1>13, <1>14, <1>15, <1>16, LicenceStep

\* The key is cleared, or a day passes: a key opens no more for either.
LEMMA LicenceRunsOut ==
    ASSUME AccountsInv, ClearsLicence \/ DayPasses
    PROVE  AccountsInv'
<1>1. /\ job \in [Operators -> Job] /\ memo \in Memo
      /\ licence \in [key : Licences \cup {NoLicence}, id : Nat, day : 0..MaxDay]
      /\ licence.key \in Key /\ licence.day \in Nat /\ licence.id \in Nat /\ memo.ids \in Nat
      /\ LimitsOK /\ KeysOK /\ JobsOK /\ UNCHANGED <<account, boardKey, signup, job>>
      /\ MaxDay \in Nat /\ memo.limit \in Nat /\ FreeSeats \in Nat
  BY KeysAreKeys, AccountsAssumption DEF AccountsInv, AccountsTypes, ClearsLicence, DayPasses, Memo
<1>2. /\ memo' \in Memo /\ memo'.overlap = memo.overlap /\ memo'.limit = memo.limit
      /\ memo'.ids = memo.ids
      /\ memo'.half = memo.half /\ memo'.keyLost = memo.keyLost /\ memo'.raced = memo.raced
  BY <1>1 DEF ClearsLicence, DayPasses, Memo
<1>3. /\ licence' \in [key : Licences \cup {NoLicence}, id : Nat, day : 0..MaxDay]
      /\ licence'.key \in {licence.key, NoLicence} /\ licence'.id = licence.id
      /\ licence'.day \in {licence.day, licence.day + 1}
  BY <1>1 DEF ClearsLicence, DayPasses
<1>4. KeysOK'
  BY <1>1, KeysAreKeys, <1>2, <1>3 DEF KeysOK
<1>5. JobsOK'
  BY <1>1 DEF JobsOK
<1>6. ASSUME NEW k \in Key, NEW id \in Nat
      PROVE  LimitOf(k, id, licence'.day) <= LimitOf(k, id, licence.day)
  <2>1. LimitOf(k, id, licence.day) \in Nat
    BY <1>1, LimitType
  <2>2. LimitOf(k, id, licence.day + 1) <= LimitOf(k, id, licence.day)
    BY <1>1, LimitFalls
  <2>3. QED
    BY <1>3, <2>1, <2>2
<1>7. LimitOf(licence'.key, licence'.id, licence'.day) <= memo'.limit
  BY <1>1, <1>6, <1>3, LimitType, <1>2 DEF LimitsOK, LimitOf
<1>8. ASSUME NEW p \in SigningUp
      PROVE  LimitOf(signup[p].key, signup[p].id, licence'.day)
                 <= LimitOf(signup[p].key, signup[p].id, licence.day)
  BY <1>8, <1>6 DEF AccountsInv, AccountsTypes, Signup, SigningUp
<1>9. licence'.id = memo'.ids
  BY <1>1, <1>2, <1>3 DEF LimitsOK
<1>10. memo'.limit >= memo.limit /\ \A e \in Operators : Late(job'[e]) => job'[e] = job[e]
  BY <1>1, <1>2
<1>11. QED
  BY <1>1, <1>2, <1>3, <1>4, <1>5, <1>7, <1>8, <1>9, <1>10, LicenceStep

\* A step of the core's users that counts nobody anew and leaves the licence alone.
LEMMA PeopleStep ==
    ASSUME AccountsInv, UNCHANGED <<licence, signup>>,
           account' \in [Persons -> Account], job' \in [Operators -> Job], memo' \in Memo,
           boardKey' \in [owner : Persons, recorded : Persons \cup {Unknown}, fromEnv : BOOLEAN],
           boardKey'.recorded \in {boardKey'.owner, Unknown},
           \A q \in Persons : account'[q].admin \/ account'[q].member => account'[q].here,
           Here' \subseteq Here,
           memo'.overlap = memo.overlap, memo'.limit = memo.limit, memo'.ids = memo.ids,
           \A d \in Operators : job'[d].id <= memo.ids /\ (job'[d].at = "storing" => job'[d] = job[d]),
           JobsOK', ~memo'.raced => UnracedOK'
    PROVE  AccountsInv'
<1>1. /\ AccountsTypes /\ PeopleOK /\ SeatsOK /\ LimitsOK /\ KeysOK /\ memo \in Memo
  BY DEF AccountsInv, AccountsTypes
<1>2. SigningUp' = SigningUp /\ Creating' = Creating
  BY DEF SigningUp, Creating
<1>3. AccountsTypes' /\ LimitsOK' /\ KeysOK'
  BY <1>1, <1>2 DEF AccountsTypes, LimitsOK, KeysOK
<1>4. PeopleOK'
  BY <1>1, <1>2 DEF PeopleOK, SigningUp, Here
<1>5. SeatsOK'
  <2>1. Here \in SUBSET Persons /\ Creating \in SUBSET Persons /\ Here' \in SUBSET Persons
    BY DEF Here, Creating
  <2>2. /\ Cardinality(Here) \in Nat /\ Cardinality(Creating) \in Nat /\ Cardinality(Here') \in Nat
        /\ Cardinality(Here') <= Cardinality(Here)
    BY <2>1, PeopleAreFinite, FS_Subset
  <2>3. Max({memo.overlap - 1, 0}) \in Int /\ memo.limit \in Nat
    <3>1. memo.overlap - 1 \in Int /\ 0 \in Int /\ memo.limit \in Nat
      BY <1>1 DEF Memo
    <3>2. QED
      BY <3>1, MaxOfTwo
  <2>4. QED
    BY <1>1, <1>2, <2>2, <2>3 DEF SeatsOK
<1>6. QED
  BY <1>1, <1>3, <1>4, <1>5 DEF AccountsInv

\* The locals of a removal one step on, and those of one that has ended.
LEMMA RemovalGoesOn ==
    ASSUME AccountsInv, NEW e \in Operators, NEW at \in {"demoting", "deleting"},
           job[e].kind = "remove", JobTo(e, at)
    PROVE  \E s \in Job :
             /\ s.at = at /\ s.kind = "remove" /\ s.who = job[e].who /\ s.admin = job[e].admin
             /\ job' \in [Operators -> Job] /\ job'[e] = s /\ \A d \in Operators \ {e} : job'[d] = job[d]
             /\ JobsOK'
             /\ \A d \in Operators : job'[d].id <= memo.ids /\ (job'[d].at = "storing" => job'[d] = job[d])
BY DEF AccountsInv, AccountsTypes, Job, JobSteps, JobTo, JobsOK, KeysOK

LEMMA RemovalEnds ==
    ASSUME AccountsInv, NEW e \in Operators, JobEnds(e)
    PROVE  /\ job' \in [Operators -> Job] /\ ~Late(job'[e])
           /\ \A d \in Operators \ {e} : job'[d] = job[d]
           /\ JobsOK'
           /\ \A d \in Operators : job'[d].id <= memo.ids /\ (job'[d].at = "storing" => job'[d] = job[d])
<1>1. job \in [Operators -> Job] /\ JobsOK /\ KeysOK /\ memo \in Memo
  BY DEF AccountsInv, AccountsTypes
<1>2. PICK s \in Job : s = NoJob
  BY DEF NoJob, Job, JobSteps
<1>3. s.at = "idle" /\ s.kind = "none" /\ s.id = 0
  BY <1>2 DEF NoJob
<1>4. job' = [job EXCEPT ![e] = s]
  BY <1>2 DEF JobEnds
<1>5. job' \in [Operators -> Job] /\ job'[e] = s /\ \A d \in Operators \ {e} : job'[d] = job[d]
  BY <1>1, <1>4
<1>6. JobsOK'
  BY <1>1, <1>3, <1>5 DEF JobsOK
<1>7. \A d \in Operators : job'[d].id <= memo.ids /\ (job'[d].at = "storing" => job'[d] = job[d])
  BY <1>1, <1>3, <1>5 DEF KeysOK, Memo
<1>8. QED
  BY <1>3, <1>5, <1>6, <1>7 DEF Late

\* A removal that a failed call ends, with all it has done.
LEMMA RemovalFails ==
    ASSUME AccountsInv, NEW e \in Operators, JobEnds(e),
           UNCHANGED <<account, licence, boardKey, signup, memo>>
    PROVE  AccountsInv'
BY RemovalEnds, RemovalsKept, PeopleStep DEF Here, Admins, AccountsInv, AccountsTypes,
   PeopleOK

LEMMA MemberIsArchived ==
    ASSUME AccountsInv, NEW e \in Operators, Archives(e)
    PROVE  AccountsInv'
<1> DEFINE j == job[e]
           p == job[e].who
<1>1. /\ account \in [Persons -> Account] /\ memo \in Memo /\ PeopleOK /\ AccountsTypes
      /\ boardKey.recorded \in {boardKey.owner, Unknown}
      /\ j.kind = "remove" /\ j.at = "archiving" /\ p \in Persons
      /\ UNCHANGED <<licence, boardKey, signup>>
  BY DEF AccountsInv, AccountsTypes, JobsOK, Archives, JobAt
<1>2. CASE JobEnds(e) /\ UNCHANGED <<account, memo>>
  BY <1>1, <1>2, RemovalFails
<1>3. CASE /\ boardKey.owner \in Admins
           /\ account' = [account EXCEPT ![p].member = FALSE]
           /\ JobTo(e, IF j.admin THEN "demoting" ELSE "deleting")
           /\ memo' = [memo EXCEPT !.half = @ \cup {p}]
  <2> DEFINE at == IF j.admin THEN "demoting" ELSE "deleting"
  <2>1. at \in {"demoting", "deleting"} /\ JobTo(e, at)
    BY <1>3
  <2>2. PICK s \in Job :
             /\ s.at = at /\ s.kind = "remove" /\ s.who = p /\ s.admin = j.admin
             /\ job' \in [Operators -> Job] /\ job'[e] = s /\ \A d \in Operators \ {e} : job'[d] = job[d]
             /\ JobsOK'
             /\ \A d \in Operators : job'[d].id <= memo.ids /\ (job'[d].at = "storing" => job'[d] = job[d])
    BY <1>1, <2>1, RemovalGoesOn
  <2>3. /\ memo' \in Memo /\ memo'.overlap = memo.overlap /\ memo'.limit = memo.limit
        /\ memo'.ids = memo.ids /\ memo'.raced = memo.raced /\ memo'.half = memo.half \cup {p}
        /\ memo'.keyLost = memo.keyLost
    BY <1>1, <1>3 DEF Memo
  <2>4. PICK a \in Account : a = [account[p] EXCEPT !.member = FALSE]
    BY <1>1 DEF Account
  <2>5. a.here = account[p].here /\ a.admin = account[p].admin /\ ~a.member
    BY <1>1, <2>4 DEF Account
  <2>6. account' = [account EXCEPT ![p] = a]
    BY <1>3, <2>4
  <2>7. /\ account' \in [Persons -> Account] /\ account'[p] = a
        /\ \A q \in Persons \ {p} : account'[q] = account[q]
    BY <1>1, <2>6
  <2>8. \A q \in Persons : account'[q].here = account[q].here /\ account'[q].admin = account[q].admin
    BY <2>5, <2>7
  <2>9. Here' = Here /\ Admins' = Admins
    BY <2>8 DEF Here, Admins
  <2>10. \A q \in Persons : account'[q].admin \/ account'[q].member => account'[q].here
    BY <1>1, <2>5, <2>7 DEF PeopleOK
  <2>11. ASSUME ~memo'.raced
         PROVE  UnracedOK'
    <3>1. UnracedOK /\ Late(j) /\ RemovalOK(j)
      BY <1>1, <2>3, <2>11 DEF AccountsInv, UnracedOK, Late
    <3>2. ~EnvKeyAdmin(p) /\ ~KeyOwner(p)
      BY <1>1, <3>1 DEF RemovalOK, EnvKeyAdmin
    <3>3. RemovalOK(s)
      BY <1>1, <1>3, <2>2, <3>1, <3>2 DEF RemovalOK, EnvKeyAdmin
    <3>4. RemovalOK(s)'
      BY <1>1, <2>9, <3>3 DEF RemovalOK, KeyOwner
    <3>5. \A d \in Operators \ {e} : ~Late(job'[d])
      BY <2>2, <3>1 DEF UnracedOK
    <3>6. ASSUME NEW d \in Operators, Late(job'[d])
          PROVE  RemovalOK(job[d])'
      BY <2>2, <3>4, <3>5, <3>6 DEF RemovalOK, KeyOwner
    <3>7. \A d, f \in Operators : Late(job'[d]) /\ Late(job'[f]) => d = f
      BY <3>5
    <3>8. \A q \in memo'.half : ~EnvKeyAdmin(q)' /\ ~KeyOwner(q)'
      BY <1>1, <2>3, <2>9, <3>1, <3>2 DEF UnracedOK, EnvKeyAdmin, KeyOwner
    <3>9. Admins' # {} /\ (memo'.keyLost => ~boardKey'.fromEnv /\ boardKey'.recorded = Unknown)
      BY <1>1, <2>3, <2>9, <3>1 DEF UnracedOK
    <3>10. QED
      BY <3>6, <3>7, <3>8, <3>9 DEF UnracedOK
  <2>12. boardKey' \in [owner : Persons, recorded : Persons \cup {Unknown}, fromEnv : BOOLEAN]
         /\ boardKey'.recorded \in {boardKey'.owner, Unknown}
    BY <1>1 DEF AccountsTypes
  <2>13. QED
    BY <1>1, <2>2, <2>3, <2>7, <2>9, <2>10, <2>11, <2>12, PeopleStep
<1>4. QED
  BY <1>2, <1>3 DEF Archives

LEMMA AdminIsDemoted ==
    ASSUME AccountsInv, NEW e \in Operators, Demotes(e)
    PROVE  AccountsInv'
<1> DEFINE j == job[e]
           p == job[e].who
<1>1. /\ account \in [Persons -> Account] /\ memo \in Memo /\ PeopleOK /\ AccountsTypes
      /\ boardKey.recorded \in {boardKey.owner, Unknown}
      /\ j.kind = "remove" /\ j.at = "demoting" /\ p \in Persons
      /\ UNCHANGED <<licence, boardKey, signup, memo>>
  BY DEF AccountsInv, AccountsTypes, JobsOK, Demotes, JobAt
<1>2. CASE JobEnds(e) /\ UNCHANGED account
  BY <1>1, <1>2, RemovalFails
<1>3. CASE account' = [account EXCEPT ![p].admin = FALSE] /\ JobTo(e, "deleting")
  <2>1. PICK s \in Job :
             /\ s.at = "deleting" /\ s.kind = "remove" /\ s.who = p /\ s.admin = j.admin
             /\ job' \in [Operators -> Job] /\ job'[e] = s /\ \A d \in Operators \ {e} : job'[d] = job[d]
             /\ JobsOK'
             /\ \A d \in Operators : job'[d].id <= memo.ids /\ (job'[d].at = "storing" => job'[d] = job[d])
    BY <1>1, <1>3, RemovalGoesOn
  <2>2. PICK a \in Account : a = [account[p] EXCEPT !.admin = FALSE]
    BY <1>1 DEF Account
  <2>3. a.here = account[p].here /\ a.member = account[p].member /\ ~a.admin
    BY <1>1, <2>2 DEF Account
  <2>4. account' = [account EXCEPT ![p] = a]
    BY <1>3, <2>2
  <2>5. /\ account' \in [Persons -> Account] /\ account'[p] = a
        /\ \A q \in Persons \ {p} : account'[q] = account[q]
    BY <1>1, <2>4
  <2>6. Here' = Here
    BY <2>3, <2>5 DEF Here
  <2>7. Admins' = Admins \ {p}
    BY <2>3, <2>5, <2>6 DEF Admins, Here
  <2>8. \A q \in Persons : account'[q].admin \/ account'[q].member => account'[q].here
    BY <1>1, <2>3, <2>5 DEF PeopleOK
  <2>9. ASSUME ~memo'.raced
        PROVE  UnracedOK'
    BY <1>1, <2>9, <2>1, <2>6, <2>7 DEF AccountsInv, UnracedOK, Late, RemovalOK, KeyOwner,
       EnvKeyAdmin
  <2>10. /\ boardKey' \in [owner : Persons, recorded : Persons \cup {Unknown}, fromEnv : BOOLEAN]
         /\ boardKey'.recorded \in {boardKey'.owner, Unknown}
         /\ memo'.overlap = memo.overlap /\ memo'.limit = memo.limit /\ memo'.ids = memo.ids
         /\ memo' \in Memo
    BY <1>1 DEF AccountsTypes
  <2>11. QED
    BY <1>1, <2>1, <2>5, <2>6, <2>8, <2>9, <2>10, PeopleStep
<1>4. QED
  BY <1>2, <1>3 DEF Demotes

LEMMA UserIsDeleted ==
    ASSUME AccountsInv, NEW e \in Operators, DeletesUser(e)
    PROVE  AccountsInv'
<1> DEFINE j == job[e]
           p == job[e].who
<1>1. /\ account \in [Persons -> Account] /\ memo \in Memo /\ PeopleOK /\ AccountsTypes
      /\ boardKey.recorded \in {boardKey.owner, Unknown}
      /\ j.kind = "remove" /\ j.at = "deleting" /\ p \in Persons
      /\ UNCHANGED <<licence, boardKey, signup>> /\ JobEnds(e)
  BY DEF AccountsInv, AccountsTypes, JobsOK, DeletesUser, JobAt
<1>2. CASE UNCHANGED <<account, memo>>
  BY <1>1, <1>2, RemovalFails
<1>3. CASE /\ account' = [account EXCEPT ![p] = [here |-> FALSE, admin |-> FALSE, member |-> FALSE]]
           /\ memo' = [memo EXCEPT !.half = @ \ {p}, !.keyLost = @ \/ boardKey.owner = p]
  <2>1. /\ job' \in [Operators -> Job] /\ ~Late(job'[e]) /\ \A d \in Operators \ {e} : job'[d] = job[d]
        /\ JobsOK'
        /\ \A d \in Operators : job'[d].id <= memo.ids /\ (job'[d].at = "storing" => job'[d] = job[d])
    BY <1>1, RemovalEnds
  <2>2. (memo.keyLost \/ boardKey.owner = p) \in BOOLEAN
    OBVIOUS
  <2>3. /\ memo' \in Memo /\ memo'.overlap = memo.overlap /\ memo'.limit = memo.limit
        /\ memo'.ids = memo.ids /\ memo'.raced = memo.raced /\ memo'.half = memo.half \ {p}
        /\ memo'.keyLost <=> memo.keyLost \/ boardKey.owner = p
    BY <1>1, <1>3, <2>2 DEF Memo
  <2>4. PICK a \in Account : a = [here |-> FALSE, admin |-> FALSE, member |-> FALSE]
    BY DEF Account
  <2>5. ~a.here /\ ~a.admin /\ ~a.member
    BY <2>4
  <2>6. account' = [account EXCEPT ![p] = a]
    BY <1>3, <2>4
  <2>7. /\ account' \in [Persons -> Account] /\ account'[p] = a
        /\ \A q \in Persons \ {p} : account'[q] = account[q]
    BY <1>1, <2>6
  <2>8. Here' = Here \ {p}
    BY <2>5, <2>7 DEF Here
  <2>9. Admins' = Admins \ {p}
    BY <2>8, <2>7 DEF Admins, Here
  <2>10. \A q \in Persons : account'[q].admin \/ account'[q].member => account'[q].here
    BY <1>1, <2>5, <2>7 DEF PeopleOK
  <2>11. ASSUME ~memo'.raced
         PROVE  UnracedOK'
    BY <1>1, <2>3, <2>11, <2>1, <2>9 DEF AccountsInv, UnracedOK, Late, EnvKeyAdmin,
       KeyOwner, RemovalOK
  <2>12. /\ boardKey' \in [owner : Persons, recorded : Persons \cup {Unknown}, fromEnv : BOOLEAN]
         /\ boardKey'.recorded \in {boardKey'.owner, Unknown}
         /\ Here' \subseteq Here
    BY <1>1, <2>8 DEF AccountsTypes
  <2>13. QED
    BY <1>1, <2>1, <2>3, <2>7, <2>10, <2>11, <2>12, PeopleStep
<1>4. QED
  BY <1>2, <1>3 DEF DeletesUser

\* What an unraced change elsewhere finds: no removal past its look.
LEMMA NobodyRemoves ==
    ASSUME AccountsInv, ~Removing, job' = job
    PROVE  \A e \in Operators : ~Late(job'[e])
BY DEF AccountsInv, JobsOK, Removing, Late

LEMMA AdminChanges ==
    ASSUME AccountsInv, NEW p \in Persons, PromotesOrDemotes(p)
    PROVE  AccountsInv'
<1>1. /\ account \in [Persons -> Account] /\ memo \in Memo /\ PeopleOK /\ AccountsTypes /\ JobsOK /\ KeysOK
      /\ boardKey.recorded \in {boardKey.owner, Unknown}
      /\ UNCHANGED <<licence, boardKey, signup, job>> /\ account[p].here
      /\ account[p].admin => Cardinality(Admins) > 1
  BY DEF AccountsInv, AccountsTypes, PromotesOrDemotes
<1>2. (memo.raced \/ Removing) \in BOOLEAN
  OBVIOUS
<1>3. memo' = [memo EXCEPT !.commands = @ + 1, !.raced = @ \/ Removing, !.half = @ \ {p}]
  BY DEF PromotesOrDemotes
<1>4. /\ memo' \in Memo /\ memo'.overlap = memo.overlap /\ memo'.limit = memo.limit
      /\ memo'.ids = memo.ids /\ memo'.half = memo.half \ {p} /\ memo'.keyLost = memo.keyLost
      /\ memo'.raced <=> memo.raced \/ Removing
  <2> DEFINE c == memo.commands + 1
             b == memo.raced \/ Removing
             h == memo.half \ {p}
  <2>1. c \in Nat /\ b \in BOOLEAN /\ h \in SUBSET Persons /\ (b <=> memo.raced \/ Removing)
    BY <1>1, <1>2 DEF Memo
  <2>2. memo' = [memo EXCEPT !.commands = c, !.raced = b, !.half = h]
    BY <1>3
  <2>3. h = memo.half \ {p}
    OBVIOUS
  <2> HIDE DEF c, b, h
  <2>4. QED
    BY <1>1, <2>1, <2>2, <2>3 DEF Memo
<1>5. PICK a \in Account : a = [account[p] EXCEPT !.admin = ~@]
  BY <1>1 DEF Account
<1>6. a.here /\ (a.admin <=> ~account[p].admin)
  BY <1>1, <1>5 DEF Account
<1>7. account' = [account EXCEPT ![p] = a]
  BY <1>5 DEF PromotesOrDemotes
<1>8. /\ account' \in [Persons -> Account] /\ account'[p] = a
      /\ \A q \in Persons \ {p} : account'[q] = account[q]
  BY <1>1, <1>7
<1>9. Here' = Here
  BY <1>1, <1>6, <1>8 DEF Here
<1>10. \A q \in Persons \ {p} : q \in Admins' <=> q \in Admins
  BY <1>8, <1>9 DEF Admins
<1>11. p \in Admins' <=> p \notin Admins
  BY <1>1, <1>6, <1>8, <1>9 DEF Admins, Here
<1>12. Admins' # {}
  <2>1. CASE p \notin Admins
    BY <1>11, <2>1
  <2>2. CASE p \in Admins
    <3>1. Cardinality(Admins) > 1
      BY <1>1, <2>2 DEF Admins
    <3>2. Admins # {p}
      BY <3>1, FS_Singleton
    <3>3. PICK q \in Admins : q # p
      BY <2>2, <3>2
    <3>4. q \in Persons
      BY <3>3 DEF Admins, Here
    <3>5. QED
      BY <1>10, <3>3, <3>4
  <2>3. QED
    BY <2>1, <2>2
<1>13. \A q \in Persons : account'[q].admin \/ account'[q].member => account'[q].here
  BY <1>1, <1>6, <1>8 DEF PeopleOK
<1>14. ASSUME ~memo'.raced
       PROVE  UnracedOK'
  BY <1>4, <1>14, <1>1, NobodyRemoves, <1>10, <1>12 DEF AccountsInv, Memo, UnracedOK,
     EnvKeyAdmin, KeyOwner
<1>15. /\ boardKey' \in [owner : Persons, recorded : Persons \cup {Unknown}, fromEnv : BOOLEAN]
       /\ boardKey'.recorded \in {boardKey'.owner, Unknown}
       /\ job' \in [Operators -> Job]
       /\ \A d \in Operators : job'[d].id <= memo.ids /\ (job'[d].at = "storing" => job'[d] = job[d])
       /\ JobsOK' /\ UNCHANGED <<licence, signup>> /\ Here' \subseteq Here
  BY <1>1, <1>9 DEF AccountsTypes, KeysOK, JobsOK
<1>16. QED
  BY <1>4, <1>8, <1>13, <1>14, <1>15, PeopleStep

LEMMA BoardKeyIsStored ==
    ASSUME AccountsInv, NEW p \in Persons, SetupStores(p)
    PROVE  AccountsInv'
<1>1. /\ account \in [Persons -> Account] /\ memo \in Memo /\ PeopleOK /\ AccountsTypes /\ JobsOK /\ KeysOK
      /\ boardKey \in [owner : Persons, recorded : Persons \cup {Unknown}, fromEnv : BOOLEAN]
      /\ UNCHANGED <<licence, account, signup, job>> /\ p \in Admins
  BY DEF AccountsInv, AccountsTypes, SetupStores
<1>2. PICK recorded \in {p, Unknown} : boardKey' = [boardKey EXCEPT !.owner = p, !.recorded = recorded]
  BY DEF SetupStores
<1>3. /\ boardKey' \in [owner : Persons, recorded : Persons \cup {Unknown}, fromEnv : BOOLEAN]
      /\ boardKey'.owner = p /\ boardKey'.recorded = recorded /\ boardKey'.fromEnv = boardKey.fromEnv
  BY <1>1, <1>2
<1>4. (memo.raced \/ Removing) \in BOOLEAN
  OBVIOUS
<1>5. memo' = [memo EXCEPT !.commands = @ + 1, !.raced = @ \/ Removing, !.half = @ \ {p}, !.keyLost = FALSE]
  BY DEF SetupStores
<1>6. /\ memo' \in Memo /\ memo'.overlap = memo.overlap /\ memo'.limit = memo.limit
      /\ memo'.ids = memo.ids /\ memo'.half = memo.half \ {p} /\ ~memo'.keyLost
      /\ memo'.raced <=> memo.raced \/ Removing
  <2> DEFINE c == memo.commands + 1
             b == memo.raced \/ Removing
             h == memo.half \ {p}
  <2>1. c \in Nat /\ b \in BOOLEAN /\ h \in SUBSET Persons /\ (b <=> memo.raced \/ Removing)
    BY <1>1, <1>4 DEF Memo
  <2>2. memo' = [memo EXCEPT !.commands = c, !.raced = b, !.half = h, !.keyLost = FALSE]
    BY <1>5
  <2>3. h = memo.half \ {p}
    OBVIOUS
  <2> HIDE DEF c, b, h
  <2>4. QED
    BY <1>1, <2>1, <2>2, <2>3 DEF Memo
<1>7. Here' = Here /\ Admins' = Admins
  BY <1>1 DEF Here, Admins
<1>8. ASSUME ~memo'.raced
      PROVE  UnracedOK'
  BY <1>6, <1>8, <1>1, NobodyRemoves, AccountsAssumption, <1>2, <1>3, <1>7 DEF AccountsInv,
     Memo, Unknown, UnracedOK, EnvKeyAdmin, KeyOwner
<1>9. /\ \A q \in Persons : account'[q].admin \/ account'[q].member => account'[q].here
      /\ job' \in [Operators -> Job] /\ account' \in [Persons -> Account]
      /\ \A d \in Operators : job'[d].id <= memo.ids /\ (job'[d].at = "storing" => job'[d] = job[d])
      /\ JobsOK' /\ Here' \subseteq Here /\ UNCHANGED <<licence, signup>>
  BY <1>1, <1>7 DEF AccountsTypes, KeysOK, JobsOK, PeopleOK
<1>10. boardKey'.recorded \in {boardKey'.owner, Unknown}
  BY <1>2, <1>3
<1>11. QED
  BY <1>3, <1>6, <1>8, <1>9, <1>10, PeopleStep

LEMMA AccountsInductive == AccountsInv /\ [AccountsNext]_accountVars => AccountsInv'
<1>1. SUFFICES ASSUME AccountsInv, [AccountsNext]_accountVars
               PROVE  AccountsInv'
  OBVIOUS
<1>2. ASSUME NEW p \in Persons,
             SignsUp(p) \/ ChecksSeat(p) \/ IsCreated(p) \/ PromotesOrDemotes(p) \/ SetupStores(p)
      PROVE  AccountsInv'
  BY <1>1, <1>2, SignUpBegins, SeatIsChecked, AccountIsCreated, AdminChanges, BoardKeyIsStored
<1>3. ASSUME NEW e \in Operators,
             \/ \E key \in Licences : SetsLicence(e, key) \/ AppliesLicence(e, key)
             \/ \E p \in Persons : RemovalStarts(e, p)
      PROVE  AccountsInv'
  BY <1>1, <1>3, CommandsBegin
<1>4. ASSUME NEW e \in Operators,
             ReadsIdentity(e) \/ VerifiesKey(e) \/ ListsUsers(e) \/ ReadsKeyOwner(e) \/ Confirmed(e)
      PROVE  AccountsInv'
  BY <1>1, <1>4, CommandsRead
<1>5. ASSUME NEW e \in Operators, WritesIdentity(e) \/ StoresKey(e) \/ Archives(e) \/ Demotes(e) \/ DeletesUser(e)
      PROVE  AccountsInv'
  BY <1>1, <1>5, IdentityIsWritten, KeyIsStored, MemberIsArchived, AdminIsDemoted, UserIsDeleted
<1>6. CASE ClearsLicence \/ DayPasses
  BY <1>1, <1>6, LicenceRunsOut
<1>7. CASE UNCHANGED accountVars
  BY <1>1, <1>7 DEF accountVars, AccountsInv, AccountsTypes, PeopleOK, SeatsOK, LimitsOK, KeysOK, JobsOK, UnracedOK,
     SigningUp, Creating, Here, Admins, RemovalOK, EnvKeyAdmin, KeyOwner
<1>8. QED
  BY <1>1, <1>2, <1>3, <1>4, <1>5, <1>6, <1>7 DEF AccountsNext

\* What the accounts promise follows.
LEMMA AccountsPromises ==
    ASSUME AccountsInv
    PROVE  AccountsTypeOK /\ SeatsAreKept /\ StoredKeyIsGood /\ KeysAndAdminsStay /\ HalfRemovedCanFinish
<1>1. AccountsTypeOK
  BY DEF AccountsInv, AccountsTypes, PeopleOK, AccountsTypeOK
<1>2. SeatsAreKept
  <2>1. Here \in SUBSET Persons /\ Creating \in SUBSET Persons /\ memo \in Memo
    BY DEF Here, Creating, AccountsInv, AccountsTypes
  <2>2. Cardinality(Here) \in Nat /\ Cardinality(Creating) \in Nat
    BY <2>1, PeopleAreFinite
  <2>3. Max({memo.overlap - 1, 0}) \in Int /\ memo.limit \in Nat
    <3>1. memo.overlap - 1 \in Int /\ 0 \in Int /\ memo.limit \in Nat
      BY <2>1 DEF Memo
    <3>2. QED
      BY <3>1, MaxOfTwo
  <2>4. QED
    BY <2>2, <2>3 DEF AccountsInv, SeatsOK, SeatsAreKept
<1>3. StoredKeyIsGood
  BY DEF AccountsInv, KeysOK, LimitsOK, StoredKeyIsGood
<1>4. KeysAndAdminsStay
  BY DEF AccountsInv, UnracedOK, KeysAndAdminsStay
<1>5. HalfRemovedCanFinish
  BY DEF AccountsInv, UnracedOK, HalfRemovedCanFinish, RefusesUser
<1>6. QED
  BY <1>1, <1>2, <1>3, <1>4, <1>5

-----------------------------------------------------------------------------
(* CompanyRows                                                             *)

RowsSteps == {"idle", "provision", "connect"} \cup Provisioning \cup InTransaction
RowCall == [at : RowsSteps, number : 0 .. MaxCalls, company : Companies \cup {NoCompany}, op : Ops,
            wants : SUBSET RowIds, conn : Nat, changes : SUBSET Change, noted : BOOLEAN, failed : BOOLEAN]
Connection == [user : Callers \cup {Nobody}, open : BOOLEAN, session : Companies \cup {Login},
               local : Companies \cup {NoCompany}, path : Companies \cup {NoCompany},
               lock : Companies \cup {NoCompany}, alive : BOOLEAN]

RowsTypes ==
    /\ DOMAIN connection \in {1 .. size : size \in PoolSizes}
    /\ connection \in [DOMAIN connection -> Connection]
    /\ known \subseteq Companies /\ made \in [Companies -> SUBSET Parts]
    /\ stored \in [Companies -> [RowIds -> -1 .. MaxCalls]]
    /\ call \in [Callers -> RowCall]
    /\ begun \in 0 .. MaxCalls /\ faults \in 0 .. MaxFaults
    /\ changed \in [1 .. MaxCalls -> SUBSET Change]
    /\ audited \subseteq 1 .. MaxCalls
    /\ answer \in [1 .. MaxCalls -> {"none", "ok", "failed", "lost"}]

\* What a call has on its connection at each of its steps.
Carries(k, s) ==
    /\ k.session # Login => s.at = "grants"
    /\ k.lock # NoCompany => s.at \in Parts \cup {"assume", "unlocking"}
    /\ k.open \/ k.local # NoCompany \/ k.path # NoCompany
         => s.at \in {"statement", "record", "commit", "rollback"}
    /\ s.changes # {} => k.path = s.company
    /\ k.alive /\ s.at = "statement" /\ s.op # "grant" => k.path = s.company
    /\ ~k.alive => s.changes = {} /\ ~s.noted

\* A call from its first step on a connection to its last has one, which is nobody else's; a
\* connection without a call is fresh.
HeldOK ==
    /\ \A c \in Callers :
          /\ call[c].conn = 0 <=> call[c].at \in {"idle", "provision", "connect"}
          /\ call[c].conn # 0 =>
                /\ call[c].conn \in DOMAIN connection /\ Mine(c).user = c
                /\ Carries(Mine(c), call[c])
    /\ \A k \in DOMAIN connection :
          IF connection[k].user = Nobody THEN connection[k] = Fresh
                                         ELSE call[connection[k].user].conn = k

\* What of its company is made when a provisioning call comes to a step.
MadeBefore(step) ==
    CASE step = "schema" -> {"role"}
      [] step \in {"assume", "grants"} -> {"role", "schema"}
      [] step = "entry" -> {"role", "schema", "grants"}
      [] step = "unlocking" -> Parts
      [] OTHER -> {}

\* What a call is about, and what it has done.
DoneOK(s) ==
    /\ s.at # "idle" => s.company \in Companies
    /\ s.at # "idle" /\ ~s.failed => MadeBefore(s.at) \subseteq made[s.company]
    /\ s.changes # {} => s.at \in {"record", "commit", "rollback"}
    /\ s.at = "commit" /\ s.changes # {} => s.noted
    /\ s.at \in {"record", "commit"} => Cardinality(s.changes) <= MaxAffected

\* Nothing is on record of a call under way, but of one that lost the answer to its COMMIT.
Unrecorded(n) == answer[n] = "none" /\ changed[n] = {} /\ n \notin audited
NumbersOK ==
    /\ \A c \in Callers : call[c].at # "idle" =>
          /\ call[c].number \in 1 .. begun
          /\ Unrecorded(call[c].number) \/ (call[c].at = "rollback" /\ answer[call[c].number] = "lost")
    /\ \A c, d \in Callers : call[c].at # "idle" /\ call[d].at # "idle" /\ call[c].number = call[d].number => c = d
    /\ \A n \in begun + 1 .. MaxCalls : Unrecorded(n)

\* No two calls change a row of one company, and each has seen what it changes.
RowsOK ==
    /\ HandedBackIsReplaced
    /\ \A c, d \in Callers : \A x \in call[c].changes, y \in call[d].changes :
          c # d /\ Mine(c).path = Mine(d).path => x.row # y.row

RowsInv ==
    /\ RowsTypes /\ HeldOK /\ NumbersOK /\ RowsOK
    /\ \A c \in Callers : DoneOK(call[c])
    /\ KnownIsProvisioned /\ ChangesAreAudited /\ ChangesAreBounded

-----------------------------------------------------------------------------
LEMMA RowConstants ==
    /\ NoCompany \notin Companies /\ Nobody \notin Callers /\ IsFiniteSet(RowIds)
    /\ MaxAffected \in Nat /\ MaxCalls \in Nat /\ MaxFaults \in Nat /\ PoolSizes \subseteq Nat \ {0}
BY CompanyRowsAssumption DEF NoCompany, Nobody

LEMMA FreshIsAConnection ==
    /\ Fresh \in Connection /\ Fresh.user = Nobody /\ ~Fresh.open /\ Fresh.session = Login
    /\ Fresh.local = NoCompany /\ Fresh.path = NoCompany /\ Fresh.lock = NoCompany /\ Fresh.alive
BY DEF Fresh, Connection

LEMMA BrokenIsAConnection ==
    ASSUME NEW c \in Callers
    PROVE  /\ Broken(c) \in Connection /\ Broken(c).user = c /\ ~Broken(c).open
           /\ Broken(c).session = Login /\ Broken(c).local = NoCompany /\ Broken(c).path = NoCompany
           /\ Broken(c).lock = NoCompany /\ ~Broken(c).alive
BY DEF Broken, Fresh, Connection

LEMMA NoCallIsACall ==
    /\ NoCall \in RowCall /\ NoCall.at = "idle" /\ NoCall.conn = 0 /\ NoCall.changes = {}
    /\ NoCall.company = NoCompany /\ NoCall.number = 0 /\ ~NoCall.noted /\ ~NoCall.failed
BY RowConstants DEF NoCall, RowCall, RowsSteps, Ops

LEMMA ConnectionSet ==
    ASSUME RowsTypes, NEW k \in DOMAIN connection, NEW v \in Connection,
           connection' = [connection EXCEPT ![k] = v]
    PROVE  /\ DOMAIN connection' = DOMAIN connection
           /\ connection' \in [DOMAIN connection' -> Connection] /\ connection'[k] = v
           /\ \A j \in DOMAIN connection \ {k} : connection'[j] = connection[j]
BY DEF RowsTypes

LEMMA CallSet ==
    ASSUME RowsTypes, NEW c \in Callers, NEW s \in RowCall, call' = [call EXCEPT ![c] = s]
    PROVE  /\ call' \in [Callers -> RowCall] /\ call'[c] = s
           /\ \A d \in Callers \ {c} : call'[d] = call[d]
BY DEF RowsTypes

\* A connection that a step leaves as it is.
LEMMA SameConnection ==
    ASSUME RowsTypes, NEW k \in DOMAIN connection, connection' = connection
    PROVE  connection' = [connection EXCEPT ![k] = connection[k]]
BY DEF RowsTypes

\* What holds of a call that is at work on a connection.
LEMMA AtWork ==
    ASSUME RowsInv, NEW c \in Callers, call[c].at \notin {"idle", "provision", "connect"}
    PROVE  /\ call[c].conn # 0 /\ call[c].conn \in DOMAIN connection /\ Mine(c) \in Connection
           /\ Mine(c).user = c /\ Carries(Mine(c), call[c]) /\ call[c] \in RowCall
           /\ DoneOK(call[c]) /\ call[c].company \in Companies
BY DEF RowsInv, HeldOK, RowsTypes, Mine, DoneOK

\* A step of a call that keeps its connection.
LEMMA HeldByStep ==
    ASSUME RowsTypes, HeldOK, NEW c \in Callers, call[c].conn # 0, NEW v \in Connection, NEW s \in RowCall,
           connection' = [connection EXCEPT ![call[c].conn] = v], call' = [call EXCEPT ![c] = s],
           v.user = c, s.conn = call[c].conn, s.at \notin {"idle", "provision", "connect"}, Carries(v, s)
    PROVE  HeldOK'
<1> DEFINE k == call[c].conn
<1>1. k \in DOMAIN connection /\ connection[k].user = c
  BY DEF HeldOK, Mine
<1>2. /\ DOMAIN connection' = DOMAIN connection /\ connection'[k] = v
      /\ \A j \in DOMAIN connection \ {k} : connection'[j] = connection[j]
  BY <1>1, ConnectionSet
<1>3. call'[c] = s /\ \A d \in Callers \ {c} : call'[d] = call[d]
  BY CallSet
<1>4. ASSUME NEW d \in Callers
      PROVE  /\ call'[d].conn = 0 <=> call'[d].at \in {"idle", "provision", "connect"}
             /\ call'[d].conn # 0 =>
                   /\ call'[d].conn \in DOMAIN connection' /\ connection'[call'[d].conn].user = d
                   /\ Carries(connection'[call'[d].conn], call'[d])
  BY <1>1, <1>2, <1>3 DEF HeldOK, Mine
<1>5. ASSUME NEW j \in DOMAIN connection'
      PROVE  IF connection'[j].user = Nobody THEN connection'[j] = Fresh
                                             ELSE call'[connection'[j].user].conn = j
  BY <1>2, <1>3, RowConstants DEF HeldOK, RowsTypes, Connection
<1>6. QED
  BY <1>4, <1>5 DEF HeldOK, Mine

\* A step of a call that gives its connection back.
LEMMA HeldByGivingBack ==
    ASSUME RowsTypes, HeldOK, NEW c \in Callers, call[c].conn # 0, NEW s \in RowCall,
           connection' = [connection EXCEPT ![call[c].conn] = Fresh], call' = [call EXCEPT ![c] = s],
           s.conn = 0, s.at \in {"idle", "provision", "connect"}
    PROVE  HeldOK'
<1> DEFINE k == call[c].conn
<1>1. k \in DOMAIN connection /\ connection[k].user = c
  BY DEF HeldOK, Mine
<1>2. /\ DOMAIN connection' = DOMAIN connection /\ connection'[k] = Fresh
      /\ \A j \in DOMAIN connection \ {k} : connection'[j] = connection[j]
  BY <1>1, ConnectionSet, FreshIsAConnection
<1>3. call'[c] = s /\ \A d \in Callers \ {c} : call'[d] = call[d]
  BY CallSet
<1>4. ASSUME NEW d \in Callers
      PROVE  /\ call'[d].conn = 0 <=> call'[d].at \in {"idle", "provision", "connect"}
             /\ call'[d].conn # 0 =>
                   /\ call'[d].conn \in DOMAIN connection' /\ connection'[call'[d].conn].user = d
                   /\ Carries(connection'[call'[d].conn], call'[d])
  BY <1>3, <1>1, <1>2 DEF HeldOK, Mine
<1>5. ASSUME NEW j \in DOMAIN connection'
      PROVE  IF connection'[j].user = Nobody THEN connection'[j] = Fresh
                                             ELSE call'[connection'[j].user].conn = j
  BY <1>2, FreshIsAConnection, <1>3 DEF HeldOK, RowsTypes, Connection
<1>6. QED
  BY <1>4, <1>5 DEF HeldOK, Mine

\* Nobody's rows are touched by a step that writes none.
LEMMA RowsKept ==
    ASSUME RowsTypes, RowsOK, NEW c \in Callers, NEW s \in RowCall, call' = [call EXCEPT ![c] = s],
           \A d \in Callers \ {c} : call[d].changes # {} =>
              connection'[call[d].conn].path = connection[call[d].conn].path,
           stored' = stored,
           s.changes # {} => /\ s.changes = call[c].changes
                             /\ connection'[s.conn].path = connection[call[c].conn].path
    PROVE  RowsOK'
<1>1. call'[c] = s /\ \A d \in Callers \ {c} : call'[d] = call[d]
  BY CallSet
<1>2. ASSUME NEW d \in Callers, call'[d].changes # {}
      PROVE  /\ call'[d].changes = call[d].changes
             /\ connection'[call'[d].conn].path = connection[call[d].conn].path
  BY <1>1, <1>2
<1>3. \A d \in Callers : \A x \in call'[d].changes :
         stored'[connection'[call'[d].conn].path][x.row] = x.was
  BY <1>2 DEF RowsOK, HandedBackIsReplaced, Mine
<1>4. \A d, e \in Callers : \A x \in call'[d].changes, y \in call'[e].changes :
         d # e /\ connection'[call'[d].conn].path = connection'[call'[e].conn].path => x.row # y.row
  BY <1>2 DEF RowsOK, Mine
<1>5. QED
  BY <1>3, <1>4 DEF RowsOK, HandedBackIsReplaced, Mine

\* A step of a call that goes on, or whose call has had no effect.
LEMMA NumbersKept ==
    ASSUME RowsTypes, NumbersOK, NEW c \in Callers, NEW s \in RowCall, call' = [call EXCEPT ![c] = s],
           UNCHANGED <<begun, changed, audited, answer>>,
           s.at # "idle" => /\ call[c].at # "idle" /\ s.number = call[c].number
                            /\ call[c].at = "rollback" => s.at = "rollback"
    PROVE  NumbersOK'
BY CallSet DEF Unrecorded, NumbersOK

\* A call is answered: its number is its own.
LEMMA NumbersByAnswer ==
    ASSUME RowsTypes, NumbersOK, NEW c \in Callers, call[c].at # "idle", NEW s \in RowCall,
           call' = [call EXCEPT ![c] = s], begun' = begun,
           s.at = "idle" \/ (s.at = "rollback" /\ s.number = call[c].number /\ answer'[s.number] = "lost"),
           \A n \in 1 .. MaxCalls : n # call[c].number =>
              answer'[n] = answer[n] /\ changed'[n] = changed[n] /\ (n \in audited' <=> n \in audited)
    PROVE  NumbersOK'
BY CallSet, RowConstants DEF NumbersOK, RowsTypes, Unrecorded

\* A step of a call at work on its connection, with what it does to its rows left to show.
LEMMA CallStep ==
    ASSUME RowsInv, NEW c \in Callers, call[c].at \notin {"idle", "provision", "connect"},
           NEW v \in Connection, NEW s \in RowCall,
           connection' = [connection EXCEPT ![call[c].conn] = v], call' = [call EXCEPT ![c] = s],
           UNCHANGED <<known, stored, begun, changed, audited, answer>>,
           faults' \in 0 .. MaxFaults, made' \in [Companies -> SUBSET Parts],
           \A co \in Companies : made[co] \subseteq made'[co],
           v.user = c, s.conn = call[c].conn, s.number = call[c].number,
           s.at \notin {"idle", "provision", "connect"},
           call[c].at = "rollback" => s.at = "rollback",
           Carries(v, s), DoneOK(s)', RowsOK'
    PROVE  RowsInv'
<1>1. /\ RowsTypes /\ HeldOK /\ NumbersOK /\ RowsOK /\ \A d \in Callers : DoneOK(call[d])
      /\ KnownIsProvisioned /\ ChangesAreAudited /\ ChangesAreBounded
      /\ call[c].conn # 0 /\ call[c].conn \in DOMAIN connection
  BY AtWork DEF RowsInv
<1>2. /\ DOMAIN connection' = DOMAIN connection
      /\ connection' \in [DOMAIN connection' -> Connection]
  BY <1>1, ConnectionSet
<1>3. call' \in [Callers -> RowCall] /\ call'[c] = s /\ \A d \in Callers \ {c} : call'[d] = call[d]
  BY <1>1, CallSet
<1>4. RowsTypes'
  BY <1>1, <1>2, <1>3 DEF RowsTypes
<1>5. HeldOK'
  BY <1>1, HeldByStep
<1>6. NumbersOK'
  BY <1>1, NumbersKept
<1>7. ASSUME NEW d \in Callers
      PROVE  DoneOK(call[d])'
  BY <1>3, <1>1 DEF DoneOK
<1>8. KnownIsProvisioned'
  <2>1. ASSUME NEW co \in known
        PROVE  made'[co] = Parts
    BY <1>1 DEF RowsTypes, KnownIsProvisioned
  <2>2. QED
    BY <2>1 DEF KnownIsProvisioned
<1>9. ChangesAreAudited' /\ ChangesAreBounded'
  BY <1>1 DEF ChangesAreAudited, ChangesAreBounded
<1>10. QED
  BY <1>4, <1>5, <1>6, <1>7, <1>8, <1>9 DEF RowsInv

\* The same for a step that writes no row.
LEMMA CallGoesOn ==
    ASSUME RowsInv, NEW c \in Callers, call[c].at \notin {"idle", "provision", "connect"},
           NEW v \in Connection, NEW s \in RowCall,
           connection' = [connection EXCEPT ![call[c].conn] = v], call' = [call EXCEPT ![c] = s],
           UNCHANGED <<known, stored, begun, changed, audited, answer>>,
           faults' \in 0 .. MaxFaults, made' \in [Companies -> SUBSET Parts],
           \A co \in Companies : made[co] \subseteq made'[co],
           v.user = c, s.conn = call[c].conn, s.number = call[c].number,
           s.at \notin {"idle", "provision", "connect"},
           call[c].at = "rollback" => s.at = "rollback",
           Carries(v, s), DoneOK(s)',
           s.changes # {} => s.changes = call[c].changes /\ v.path = Mine(c).path
    PROVE  RowsInv'
<1>1. RowsTypes /\ HeldOK /\ RowsOK /\ call[c].conn # 0 /\ call[c].conn \in DOMAIN connection
  BY AtWork DEF RowsInv
<1>2. /\ connection'[call[c].conn] = v
      /\ \A j \in DOMAIN connection \ {call[c].conn} : connection'[j] = connection[j]
  BY <1>1, ConnectionSet
<1>3. ASSUME NEW d \in Callers \ {c}, call[d].changes # {}
      PROVE  connection'[call[d].conn].path = connection[call[d].conn].path
  BY <1>3, AtWork, <1>2 DEF RowsInv, DoneOK, Mine
<1>4. RowsOK'
  BY <1>1, <1>2, <1>3, RowsKept DEF Mine
<1>5. QED
  BY <1>4, CallStep

LEMMA RowsInitially ==
    ASSUME CompanyRowsInit
    PROVE  RowsInv
<1>1. PICK size \in PoolSizes : connection = [k \in 1 .. size |-> Fresh]
  BY DEF CompanyRowsInit
<1>2. /\ known = {} /\ made = [co \in Companies |-> {}]
      /\ stored = [co \in Companies |-> [r \in RowIds |-> 0]]
      /\ call = [c \in Callers |-> NoCall] /\ begun = 0
      /\ changed = [n \in 1 .. MaxCalls |-> {}] /\ audited = {}
      /\ answer = [n \in 1 .. MaxCalls |-> "none"] /\ faults = 0
  BY DEF CompanyRowsInit
<1>3. RowsTypes
  BY <1>1, <1>2, RowConstants, FreshIsAConnection, NoCallIsACall DEF RowsTypes
<1>4. HeldOK
  BY <1>1, <1>2, FreshIsAConnection, NoCallIsACall DEF HeldOK
<1>5. NumbersOK
  BY <1>2, NoCallIsACall DEF NumbersOK, Unrecorded
<1>6. RowsOK
  BY <1>2, NoCallIsACall DEF RowsOK, HandedBackIsReplaced
<1>7. DoneOK(NoCall)
  BY NoCallIsACall DEF DoneOK
<1>8. KnownIsProvisioned /\ ChangesAreAudited
  BY <1>2 DEF KnownIsProvisioned, ChangesAreAudited
<1>9. ChangesAreBounded
  BY <1>2, RowConstants, FS_EmptySet DEF ChangesAreBounded
<1>10. QED
  BY <1>2, <1>3, <1>4, <1>5, <1>6, <1>7, <1>8, <1>9 DEF RowsInv

LEMMA CallBegins ==
    ASSUME RowsInv, NEW c \in Callers, Begins(c)
    PROVE  RowsInv'
<1>1. /\ RowsTypes /\ HeldOK /\ NumbersOK /\ RowsOK /\ \A d \in Callers : DoneOK(call[d])
      /\ KnownIsProvisioned /\ ChangesAreAudited /\ ChangesAreBounded
      /\ call[c].at = "idle" /\ begun < MaxCalls /\ begun' = begun + 1
      /\ UNCHANGED <<connection, known, made, stored, changed, audited, answer, faults>>
  BY DEF RowsInv, Begins
<1>2. begun \in Nat /\ MaxCalls \in Nat /\ begun + 1 \in 1 .. MaxCalls
  BY <1>1, RowConstants DEF RowsTypes
<1>3. PICK co \in Companies, op \in Ops, wants \in SUBSET RowIds \ {{}} :
        call' = [call EXCEPT ![c] = [NoCall EXCEPT !.at = IF co \in known THEN "connect" ELSE "provision",
                                         !.number = begun + 1, !.company = co, !.op = op, !.wants = wants]]
  BY DEF Begins
<1> DEFINE at == IF co \in known THEN "connect" ELSE "provision"
<1>4. at \in {"connect", "provision"}
  OBVIOUS
<1>5. call' = [call EXCEPT ![c] = [NoCall EXCEPT !.at = at,
                                         !.number = begun + 1, !.company = co, !.op = op, !.wants = wants]]
  BY <1>3
<1> HIDE DEF at
<1>6. PICK s \in RowCall : s = [NoCall EXCEPT !.at = at,
                                         !.number = begun + 1, !.company = co, !.op = op, !.wants = wants]
  <2> DEFINE n == begun + 1
  <2>1. n \in 0 .. MaxCalls
    BY <1>2
  <2>2. at \in RowsSteps /\ wants \in SUBSET RowIds
    BY <1>4 DEF RowsSteps
  <2> HIDE DEF n
  <2>3. \E s \in RowCall : s = [NoCall EXCEPT !.at = at, !.number = n, !.company = co, !.op = op, !.wants = wants]
    BY <2>1, <2>2, NoCallIsACall DEF RowCall
  <2>4. QED
    BY <2>3 DEF n
<1>7. /\ s.at = at /\ s.number = begun + 1 /\ s.company = co /\ s.conn = 0 /\ s.changes = {}
      /\ ~s.noted /\ ~s.failed
  BY <1>6, NoCallIsACall DEF RowCall
<1>8. call' = [call EXCEPT ![c] = s]
  BY <1>5, <1>6
<1>9. call' \in [Callers -> RowCall] /\ call'[c] = s /\ \A d \in Callers \ {c} : call'[d] = call[d]
  BY <1>1, <1>8, CallSet
<1>10. RowsTypes'
  BY <1>1, <1>2, <1>9 DEF RowsTypes
<1>11. HeldOK'
  <2>1. ASSUME NEW d \in Callers
        PROVE  /\ call'[d].conn = 0 <=> call'[d].at \in {"idle", "provision", "connect"}
               /\ call'[d].conn # 0 =>
                   /\ call'[d].conn \in DOMAIN connection' /\ connection'[call'[d].conn].user = d
                   /\ Carries(connection'[call'[d].conn], call'[d])
    BY <1>1, <1>4, <1>7, <1>9 DEF HeldOK, Mine
  <2>2. ASSUME NEW j \in DOMAIN connection'
        PROVE  IF connection'[j].user = Nobody THEN connection'[j] = Fresh
                                             ELSE call'[connection'[j].user].conn = j
    <3>1. connection[j].user = Nobody => connection[j] = Fresh
      BY <1>1 DEF HeldOK
    <3>2. ASSUME connection[j].user # Nobody
          PROVE  call'[connection[j].user].conn = j
      BY <1>1, <3>2, RowConstants, <1>9 DEF HeldOK, RowsTypes, Connection
    <3>3. QED
      BY <1>1, <3>1, <3>2
  <2>3. QED
    BY <2>1, <2>2 DEF HeldOK, Mine
<1>12. NumbersOK'
  BY <1>1, <1>2, <1>7, <1>9 DEF Unrecorded, NumbersOK
<1>13. RowsOK'
  BY <1>1, <1>7, <1>8, RowsKept
<1>14. ASSUME NEW d \in Callers
       PROVE  DoneOK(call[d])'
  BY <1>4, <1>7, <1>9, <1>1 DEF MadeBefore, DoneOK
<1>15. KnownIsProvisioned' /\ ChangesAreAudited' /\ ChangesAreBounded'
  BY <1>1 DEF KnownIsProvisioned, ChangesAreAudited, ChangesAreBounded
<1>16. QED
  BY <1>10, <1>11, <1>12, <1>13, <1>14, <1>15 DEF RowsInv

LEMMA CallConnects ==
    ASSUME RowsInv, NEW c \in Callers, Connects(c)
    PROVE  RowsInv'
<1>1. /\ RowsTypes /\ HeldOK /\ NumbersOK /\ RowsOK /\ \A d \in Callers : DoneOK(call[d])
      /\ KnownIsProvisioned /\ ChangesAreAudited /\ ChangesAreBounded
      /\ call[c].at \in {"provision", "connect"} /\ call[c] \in RowCall
      /\ UNCHANGED <<known, made, stored, begun, changed, audited, answer, faults>>
  BY DEF RowsInv, RowsTypes, Connects
<1>2. PICK k \in Free :
         /\ connection' = [connection EXCEPT ![k].user = c]
         /\ call' = [call EXCEPT ![c].conn = k,
                                 ![c].at = IF @ = "provision" THEN "locking" ELSE "begin"]
  BY DEF Connects
<1>3. /\ k \in DOMAIN connection /\ connection[k].user = Nobody /\ connection[k] = Fresh
      /\ k \in Nat /\ k # 0
  BY <1>1, <1>2, RowConstants DEF Free, HeldOK, RowsTypes
<1>4. PICK v \in Connection : v = [Fresh EXCEPT !.user = c]
  BY FreshIsAConnection DEF Connection
<1>5. /\ v.user = c /\ ~v.open /\ v.session = Login
      /\ v.local = NoCompany /\ v.path = NoCompany /\ v.lock = NoCompany /\ v.alive
  BY <1>4, FreshIsAConnection DEF Connection
<1>6. connection' = [connection EXCEPT ![k] = v]
  BY <1>2, <1>3, <1>4
<1> DEFINE at == IF call[c].at = "provision" THEN "locking" ELSE "begin"
<1>7. at \in {"locking", "begin"}
  OBVIOUS
<1>8. call' = [call EXCEPT ![c] = [call[c] EXCEPT !.conn = k, !.at = at]]
  BY <1>1, <1>2 DEF RowsTypes
<1> HIDE DEF at
<1>9. PICK s \in RowCall : s = [call[c] EXCEPT !.conn = k, !.at = at]
  BY <1>1, <1>3, <1>7 DEF RowCall, RowsSteps, Provisioning, InTransaction
<1>10. /\ s.at = at /\ s.conn = k /\ s.company = call[c].company /\ s.number = call[c].number
       /\ s.changes = call[c].changes /\ s.noted = call[c].noted /\ s.failed = call[c].failed
  BY <1>1, <1>9 DEF RowCall
<1>11. call' = [call EXCEPT ![c] = s]
  BY <1>8, <1>9
<1>12. call' \in [Callers -> RowCall] /\ call'[c] = s /\ \A d \in Callers \ {c} : call'[d] = call[d]
  BY <1>1, <1>11, CallSet
<1>13. /\ DOMAIN connection' = DOMAIN connection
       /\ connection' \in [DOMAIN connection' -> Connection] /\ connection'[k] = v
       /\ \A j \in DOMAIN connection \ {k} : connection'[j] = connection[j]
  BY <1>1, <1>3, <1>6, ConnectionSet
<1>14. s.changes = {} /\ call[c].conn = 0
  BY <1>1, <1>10 DEF DoneOK, HeldOK
<1>15. Carries(v, s)
  BY <1>5, <1>7, <1>10, <1>14 DEF Carries
<1>16. ASSUME NEW d \in Callers \ {c}, call[d].conn # 0
       PROVE  call[d].conn \in DOMAIN connection \ {k}
  BY <1>1, <1>16, <1>3, RowConstants DEF HeldOK, Mine
<1>17. RowsTypes'
  BY <1>1, <1>12, <1>13 DEF RowsTypes
<1>18. HeldOK'
  <2>1. ASSUME NEW d \in Callers
        PROVE  /\ call'[d].conn = 0 <=> call'[d].at \in {"idle", "provision", "connect"}
               /\ call'[d].conn # 0 =>
                   /\ call'[d].conn \in DOMAIN connection' /\ connection'[call'[d].conn].user = d
                   /\ Carries(connection'[call'[d].conn], call'[d])
    BY <1>3, <1>5, <1>7, <1>10, <1>12, <1>13, <1>15, <1>1, <1>16 DEF HeldOK, Mine
  <2>2. ASSUME NEW j \in DOMAIN connection'
        PROVE  IF connection'[j].user = Nobody THEN connection'[j] = Fresh
                                             ELSE call'[connection'[j].user].conn = j
    <3>1. CASE j = k
      BY <1>5, <1>10, <1>12, <1>13, <3>1, RowConstants
    <3>2. CASE j # k
      <4>1. j \in DOMAIN connection /\ connection'[j] = connection[j] /\ j # 0
        BY <1>1, <1>13, <3>2, RowConstants DEF RowsTypes
      <4>2. connection[j].user # Nobody => connection[j].user \in Callers \ {c}
        BY <1>1, <1>14, <4>1 DEF HeldOK, RowsTypes, Connection
      <4>3. QED
        BY <1>1, <1>12, <4>1, <4>2 DEF HeldOK
    <3>3. QED
      BY <3>1, <3>2
  <2>3. QED
    BY <2>1, <2>2 DEF HeldOK, Mine
<1>19. NumbersOK'
  BY <1>1, <1>10, <1>11, NumbersKept
<1>20. RowsOK'
  <2>1. ASSUME NEW d \in Callers \ {c}, call[d].changes # {}
        PROVE  connection'[call[d].conn].path = connection[call[d].conn].path
    BY <1>1, <2>1, <1>13, <1>16 DEF DoneOK, HeldOK
  <2>2. QED
    BY <1>1, <1>11, <1>14, <2>1, RowsKept
<1>21. ASSUME NEW d \in Callers
       PROVE  DoneOK(call[d])'
  BY <1>7, <1>10, <1>1, <1>12, <1>14 DEF MadeBefore, DoneOK
<1>22. KnownIsProvisioned' /\ ChangesAreAudited' /\ ChangesAreBounded'
  BY <1>1 DEF KnownIsProvisioned, ChangesAreAudited, ChangesAreBounded
<1>23. QED
  BY <1>17, <1>18, <1>19, <1>20, <1>21, <1>22 DEF RowsInv

\* A call that has not written has changed nothing.
LEMMA NothingChanged ==
    ASSUME RowsInv, NEW c \in Callers, call[c].at \notin {"record", "commit", "rollback"}
    PROVE  call[c].changes = {}
BY DEF RowsInv, DoneOK

LEMMA LockIsTaken ==
    ASSUME RowsInv, NEW c \in Callers, TakesLock(c)
    PROVE  RowsInv'
<1>1. /\ call[c].at = "locking" /\ Mine(c).alive
      /\ UNCHANGED <<known, made, stored, begun, changed, audited, answer, faults>>
      /\ RowsTypes /\ call[c].changes = {} /\ faults \in 0 .. MaxFaults
  BY NothingChanged DEF TakesLock, RowsInv, RowsTypes
<1>2. /\ call[c].conn # 0 /\ call[c].conn \in DOMAIN connection /\ Mine(c) \in Connection
      /\ Mine(c).user = c /\ Carries(Mine(c), call[c]) /\ call[c] \in RowCall
      /\ call[c].company \in Companies
  BY <1>1, AtWork
<1>3. PICK v \in Connection : v = [Mine(c) EXCEPT !.lock = call[c].company]
  BY <1>2 DEF Connection
<1>4. /\ v.user = c /\ v.open = Mine(c).open /\ v.session = Mine(c).session /\ v.local = Mine(c).local
      /\ v.path = Mine(c).path /\ v.alive
  BY <1>1, <1>2, <1>3 DEF Connection
<1>5. connection' = [connection EXCEPT ![call[c].conn] = v]
  BY <1>3 DEF TakesLock, Mine
<1>6. PICK s \in RowCall : s = [call[c] EXCEPT !.at = "role"]
  BY <1>2 DEF RowCall, RowsSteps, Provisioning, Parts
<1>7. /\ s.at = "role" /\ s.conn = call[c].conn /\ s.number = call[c].number
      /\ s.company = call[c].company /\ s.changes = {} /\ s.failed = call[c].failed
  BY <1>1, <1>2, <1>6 DEF RowCall
<1>8. call' = [call EXCEPT ![c] = s]
  BY <1>6 DEF TakesLock, StepTo
<1>9. Carries(v, s)
  BY <1>1, <1>2, <1>4, <1>7 DEF Carries, Parts
<1>10. DoneOK(s)'
  BY <1>2, <1>7 DEF DoneOK, MadeBefore
<1>11. made' \in [Companies -> SUBSET Parts] /\ \A co \in Companies : made[co] \subseteq made'[co]
  BY <1>1 DEF RowsTypes
<1>12. QED
  BY <1>1, <1>4, <1>5, <1>7, <1>8, <1>9, <1>10, <1>11, CallGoesOn

LEMMA RoleIsAssumed ==
    ASSUME RowsInv, NEW c \in Callers, AssumesRole(c)
    PROVE  RowsInv'
<1>1. /\ call[c].at = "assume" /\ Mine(c).alive
      /\ UNCHANGED <<known, made, stored, begun, changed, audited, answer, faults>>
      /\ RowsTypes /\ call[c].changes = {} /\ faults \in 0 .. MaxFaults
  BY NothingChanged DEF AssumesRole, RowsInv, RowsTypes
<1>2. /\ call[c].conn # 0 /\ call[c].conn \in DOMAIN connection /\ Mine(c) \in Connection
      /\ Mine(c).user = c /\ Carries(Mine(c), call[c]) /\ call[c] \in RowCall
      /\ call[c].company \in Companies /\ DoneOK(call[c])
  BY <1>1, AtWork
<1>3. PICK v \in Connection : v = [Mine(c) EXCEPT !.session = call[c].company]
  BY <1>2 DEF Connection
<1>4. /\ v.user = c /\ v.open = Mine(c).open /\ v.lock = Mine(c).lock /\ v.local = Mine(c).local
      /\ v.path = Mine(c).path /\ v.alive
  BY <1>1, <1>2, <1>3 DEF Connection
<1>5. connection' = [connection EXCEPT ![call[c].conn] = v]
  BY <1>3 DEF AssumesRole, Mine
<1>6. PICK s \in RowCall : s = [call[c] EXCEPT !.at = "grants"]
  BY <1>2 DEF RowCall, RowsSteps, Provisioning, Parts
<1>7. /\ s.at = "grants" /\ s.conn = call[c].conn /\ s.number = call[c].number
      /\ s.company = call[c].company /\ s.changes = {} /\ s.failed = call[c].failed
  BY <1>1, <1>2, <1>6 DEF RowCall
<1>8. call' = [call EXCEPT ![c] = s]
  BY <1>6 DEF AssumesRole, StepTo
<1>9. Carries(v, s)
  BY <1>1, <1>2, <1>4, <1>7 DEF Carries, Parts
<1>10. DoneOK(s)'
  BY <1>1, <1>2, <1>7 DEF MadeBefore, DoneOK
<1>11. made' \in [Companies -> SUBSET Parts] /\ \A co \in Companies : made[co] \subseteq made'[co]
  BY <1>1 DEF RowsTypes
<1>12. QED
  BY <1>1, <1>4, <1>5, <1>7, <1>8, <1>9, <1>10, <1>11, CallGoesOn

\* What each part makes is what the next step counts on.
LEMMA NextPart ==
    ASSUME NEW part0 \in Parts
    PROVE  /\ After[part0] \in {"schema", "assume", "entry", "unlocking"}
           /\ MadeBefore(After[part0]) \subseteq MadeBefore(part0) \cup {part0}
BY DEF After, MadeBefore, Parts

LEMMA PartIsMade ==
    ASSUME RowsInv, NEW c \in Callers, Provisions(c)
    PROVE  RowsInv'
<1> DEFINE step == call[c].at
           co == call[c].company
<1>1. /\ step \in Parts /\ Mine(c).alive
      /\ UNCHANGED <<known, stored, begun, changed, audited, answer, faults>>
      /\ made' = [made EXCEPT ![co] = @ \cup {step}]
      /\ RowsTypes /\ faults \in 0 .. MaxFaults
  BY DEF Provisions, RowsInv, RowsTypes
<1>2. step \notin {"idle", "provision", "connect", "record", "commit", "rollback", "statement", "begin"}
  BY <1>1 DEF Parts
<1>3. /\ call[c].conn # 0 /\ call[c].conn \in DOMAIN connection /\ Mine(c) \in Connection
      /\ Mine(c).user = c /\ Carries(Mine(c), call[c]) /\ call[c] \in RowCall
      /\ co \in Companies /\ DoneOK(call[c]) /\ call[c].changes = {}
  BY <1>2, AtWork, NothingChanged
<1>4. PICK v \in Connection : v = [Mine(c) EXCEPT !.session = Login]
  BY <1>3 DEF Connection
<1>5. /\ v.user = c /\ v.open = Mine(c).open /\ v.lock = Mine(c).lock /\ v.local = Mine(c).local
      /\ v.path = Mine(c).path /\ v.alive /\ v.session = Login
  BY <1>1, <1>3, <1>4 DEF Connection
<1>6. connection' = [connection EXCEPT ![call[c].conn] = v]
  BY <1>4 DEF Provisions, Mine
<1>7. After[step] \in {"schema", "assume", "entry", "unlocking"} /\ MadeBefore(After[step]) \subseteq MadeBefore(step) \cup {step}
  BY <1>1, NextPart
<1>8. PICK next \in {"schema", "assume", "entry", "unlocking"} : next = After[step]
  BY <1>7
<1>9. PICK s \in RowCall : s = [call[c] EXCEPT !.at = next]
  BY <1>3 DEF RowCall, RowsSteps, Provisioning, Parts
<1>10. /\ s.at = next /\ s.conn = call[c].conn /\ s.number = call[c].number
       /\ s.company = co /\ s.changes = {} /\ s.failed = call[c].failed
  BY <1>3, <1>9 DEF RowCall
<1>11. call' = [call EXCEPT ![c] = s]
  BY <1>8, <1>9 DEF Provisions, StepTo
<1>12. Carries(v, s)
  BY <1>2, <1>3, <1>5, <1>10 DEF Carries, Parts
<1>13. /\ made' \in [Companies -> SUBSET Parts] /\ \A d \in Companies : made[d] \subseteq made'[d]
       /\ made'[co] = made[co] \cup {step}
  BY <1>1, <1>3 DEF RowsTypes
<1>14. DoneOK(s)'
  BY <1>2, <1>3, <1>10, <1>7, <1>8, <1>13 DEF DoneOK
<1>15. QED
  BY <1>1, <1>2, <1>5, <1>6, <1>10, <1>11, <1>12, <1>13, <1>14, CallGoesOn

LEMMA FaultIsCounted ==
    ASSUME RowsTypes, faults < MaxFaults /\ faults' = faults + 1
    PROVE  faults' \in 0 .. MaxFaults
BY RowConstants DEF RowsTypes

LEMMA ProvisioningHasFailed ==
    ASSUME RowsInv, NEW c \in Callers, ProvisioningFails(c)
    PROVE  RowsInv'
<1>1. /\ call[c].at \in Provisioning \ {"unlocking"}
      /\ UNCHANGED <<known, made, stored, begun, changed, audited, answer>>
      /\ RowsTypes
  BY DEF ProvisioningFails, RowsInv
<1>2. call[c].at \notin {"idle", "provision", "connect", "record", "commit", "rollback", "statement", "begin"}
  BY <1>1 DEF Provisioning, Parts
<1>3. /\ call[c].conn # 0 /\ call[c].conn \in DOMAIN connection /\ Mine(c) \in Connection
      /\ Mine(c).user = c /\ Carries(Mine(c), call[c]) /\ call[c] \in RowCall
      /\ call[c].company \in Companies /\ call[c].changes = {}
  BY <1>2, AtWork, NothingChanged
<1>4. faults' \in 0 .. MaxFaults
  BY <1>1, FaultIsCounted DEF ProvisioningFails, RowsTypes
<1>5. PICK v \in Connection : v = [Mine(c) EXCEPT !.session = Login]
  BY <1>3 DEF Connection
<1>6. /\ v.user = c /\ v.open = Mine(c).open /\ v.lock = Mine(c).lock /\ v.local = Mine(c).local
      /\ v.path = Mine(c).path /\ v.alive = Mine(c).alive /\ v.session = Login
  BY <1>3, <1>5 DEF Connection
<1>7. connection' = [connection EXCEPT ![call[c].conn] = v]
  BY <1>5 DEF ProvisioningFails, Mine
<1>8. PICK s \in RowCall : s = [call[c] EXCEPT !.at = "unlocking", !.failed = TRUE]
  BY <1>3 DEF RowCall, RowsSteps, Provisioning
<1>9. /\ s.at = "unlocking" /\ s.conn = call[c].conn /\ s.number = call[c].number
      /\ s.company = call[c].company /\ s.changes = {} /\ s.failed /\ s.noted = call[c].noted
  BY <1>3, <1>8 DEF RowCall
<1>10. call' = [call EXCEPT ![c] = s]
  BY <1>8 DEF ProvisioningFails
<1>11. Carries(v, s)
  BY <1>2, <1>3, <1>6, <1>9 DEF Carries
<1>12. DoneOK(s)'
  BY <1>3, <1>9 DEF DoneOK
<1>13. made' \in [Companies -> SUBSET Parts] /\ \A co \in Companies : made[co] \subseteq made'[co]
  BY <1>1 DEF RowsTypes
<1>14. QED
  BY <1>1, <1>2, <1>4, <1>6, <1>7, <1>9, <1>10, <1>11, <1>12, <1>13, CallGoesOn

LEMMA TransactionBegins ==
    ASSUME RowsInv, NEW c \in Callers, BeginsTransaction(c)
    PROVE  RowsInv'
<1>1. /\ call[c].at = "begin" /\ Mine(c).alive
      /\ UNCHANGED <<known, made, stored, begun, changed, audited, answer, faults>>
      /\ RowsTypes /\ call[c].changes = {} /\ faults \in 0 .. MaxFaults
  BY NothingChanged DEF BeginsTransaction, RowsInv, RowsTypes
<1>2. /\ call[c].conn # 0 /\ call[c].conn \in DOMAIN connection /\ Mine(c) \in Connection
      /\ Mine(c).user = c /\ Carries(Mine(c), call[c]) /\ call[c] \in RowCall
      /\ call[c].company \in Companies
  BY <1>1, AtWork
<1>3. PICK v \in Connection : v = Opens(Mine(c), c)
  BY <1>2 DEF Connection, Opens
<1>4. /\ v.user = c /\ v.session = Mine(c).session /\ v.lock = Mine(c).lock /\ v.alive
      /\ call[c].op # "grant" => v.path = call[c].company
  BY <1>1, <1>2, <1>3 DEF Connection, Opens
<1>5. connection' = [connection EXCEPT ![call[c].conn] = v]
  BY <1>3 DEF BeginsTransaction, Mine
<1>6. PICK s \in RowCall : s = [call[c] EXCEPT !.at = "statement"]
  BY <1>2 DEF RowCall, RowsSteps, InTransaction
<1>7. /\ s.at = "statement" /\ s.conn = call[c].conn /\ s.number = call[c].number
      /\ s.company = call[c].company /\ s.changes = {} /\ s.op = call[c].op
  BY <1>1, <1>2, <1>6 DEF RowCall
<1>8. call' = [call EXCEPT ![c] = s]
  BY <1>6 DEF BeginsTransaction, StepTo
<1>9. Carries(v, s)
  BY <1>1, <1>2, <1>4, <1>7 DEF Carries, Parts
<1>10. DoneOK(s)'
  BY <1>2, <1>7 DEF DoneOK, MadeBefore
<1>11. made' \in [Companies -> SUBSET Parts] /\ \A co \in Companies : made[co] \subseteq made'[co]
  BY <1>1 DEF RowsTypes
<1>12. QED
  BY <1>1, <1>4, <1>5, <1>7, <1>8, <1>9, <1>10, <1>11, CallGoesOn

LEMMA ReadOrGranted ==
    ASSUME RowsInv, NEW c \in Callers, ReadsOrGrants(c)
    PROVE  RowsInv'
<1>1. /\ call[c].at = "statement" /\ Mine(c).alive
      /\ UNCHANGED <<connection, known, made, stored, begun, changed, audited, answer, faults>>
      /\ RowsTypes /\ call[c].changes = {} /\ faults \in 0 .. MaxFaults
  BY NothingChanged DEF ReadsOrGrants, RowsInv, RowsTypes
<1>2. /\ call[c].conn # 0 /\ call[c].conn \in DOMAIN connection /\ Mine(c) \in Connection
      /\ Mine(c).user = c /\ Carries(Mine(c), call[c]) /\ call[c] \in RowCall
      /\ call[c].company \in Companies
  BY <1>1, AtWork
<1>3. PICK v \in Connection : v = Mine(c)
  BY <1>2
<1>4. connection' = [connection EXCEPT ![call[c].conn] = v]
  BY <1>1, <1>2, <1>3, SameConnection DEF Mine
<1> DEFINE step == IF call[c].op = "grant" THEN "record" ELSE "commit"
<1>5. step \in {"record", "commit"}
  OBVIOUS
<1>6. call' = [call EXCEPT ![c].at = step]
  BY DEF ReadsOrGrants, StepTo
<1> HIDE DEF step
<1>7. PICK s \in RowCall : s = [call[c] EXCEPT !.at = step]
  BY <1>2, <1>5 DEF RowCall, RowsSteps, InTransaction
<1>8. /\ s.at = step /\ s.conn = call[c].conn /\ s.number = call[c].number
      /\ s.company = call[c].company /\ s.changes = {} /\ s.noted = call[c].noted
  BY <1>1, <1>2, <1>7 DEF RowCall
<1>9. call' = [call EXCEPT ![c] = s]
  BY <1>6, <1>7
<1>10. Carries(v, s)
  BY <1>1, <1>2, <1>3, <1>5, <1>8 DEF Carries, Parts
<1>11. DoneOK(s)'
  BY <1>5, <1>8, RowConstants, FS_EmptySet, <1>2 DEF MadeBefore, DoneOK
<1>12. made' \in [Companies -> SUBSET Parts] /\ \A co \in Companies : made[co] \subseteq made'[co]
  BY <1>1 DEF RowsTypes
<1>13. s.at \notin {"idle", "provision", "connect"}
  BY <1>5, <1>8
<1>14. QED
  BY <1>1, <1>2, <1>3, <1>4, <1>8, <1>9, <1>10, <1>11, <1>12, <1>13, CallGoesOn

LEMMA AuditRowIsWritten ==
    ASSUME RowsInv, NEW c \in Callers, Records(c)
    PROVE  RowsInv'
<1>1. /\ call[c].at = "record" /\ Mine(c).alive
      /\ UNCHANGED <<known, made, stored, begun, changed, audited, answer, faults>>
      /\ RowsTypes /\ faults \in 0 .. MaxFaults
  BY DEF Records, RowsInv, RowsTypes
<1>2. /\ call[c].conn # 0 /\ call[c].conn \in DOMAIN connection /\ Mine(c) \in Connection
      /\ Mine(c).user = c /\ Carries(Mine(c), call[c]) /\ call[c] \in RowCall
      /\ call[c].company \in Companies /\ DoneOK(call[c])
  BY <1>1, AtWork
<1>3. PICK v \in Connection : v = [Mine(c) EXCEPT !.local = NoCompany, !.session = Login]
  BY <1>2 DEF Connection
<1>4. /\ v.user = c /\ v.open = Mine(c).open /\ v.session = Login /\ v.local = NoCompany
      /\ v.path = Mine(c).path /\ v.alive /\ v.lock = Mine(c).lock
  BY <1>1, <1>2, <1>3 DEF Connection
<1>5. connection' = [connection EXCEPT ![call[c].conn] = v]
  BY <1>2, <1>3 DEF Records, Mine
<1>6. PICK s \in RowCall : s = [call[c] EXCEPT !.noted = TRUE, !.at = "commit"]
  BY <1>2 DEF RowCall, RowsSteps, InTransaction
<1>7. /\ s.at = "commit" /\ s.conn = call[c].conn /\ s.number = call[c].number
      /\ s.company = call[c].company /\ s.changes = call[c].changes /\ s.noted
  BY <1>2, <1>6 DEF RowCall
<1>8. call' = [call EXCEPT ![c] = s]
  BY <1>6 DEF Records
<1>9. Carries(v, s)
  BY <1>1, <1>2, <1>4, <1>7 DEF Carries, Parts
<1>10. DoneOK(s)'
  BY <1>1, <1>2, <1>7 DEF DoneOK, MadeBefore
<1>11. made' \in [Companies -> SUBSET Parts] /\ \A co \in Companies : made[co] \subseteq made'[co]
  BY <1>1 DEF RowsTypes
<1>12. QED
  BY <1>1, <1>4, <1>5, <1>7, <1>8, <1>9, <1>10, <1>11, CallGoesOn

LEMMA TransactionHasFailed ==
    ASSUME RowsInv, NEW c \in Callers, TransactionFails(c)
    PROVE  RowsInv'
<1>1. /\ call[c].at \in InTransaction \ {"rollback"}
      /\ UNCHANGED <<connection, known, made, stored, begun, changed, audited, answer>>
      /\ RowsTypes
  BY DEF TransactionFails, RowsInv
<1>2. /\ call[c].at \in {"begin", "statement", "record", "commit"}
      /\ call[c].at \notin {"idle", "provision", "connect"}
  BY <1>1 DEF InTransaction
<1>3. /\ call[c].conn # 0 /\ call[c].conn \in DOMAIN connection /\ Mine(c) \in Connection
      /\ Mine(c).user = c /\ Carries(Mine(c), call[c]) /\ call[c] \in RowCall
      /\ call[c].company \in Companies
  BY <1>2, AtWork
<1>4. faults' \in 0 .. MaxFaults
  BY <1>1, FaultIsCounted DEF TransactionFails, RowsTypes
<1>5. PICK v \in Connection : v = Mine(c)
  BY <1>3
<1>6. connection' = [connection EXCEPT ![call[c].conn] = v]
  BY <1>1, <1>3, <1>5, SameConnection DEF Mine
<1>7. PICK s \in RowCall : s = [call[c] EXCEPT !.at = "rollback", !.failed = TRUE]
  BY <1>3 DEF RowCall, RowsSteps, InTransaction
<1>8. /\ s.at = "rollback" /\ s.conn = call[c].conn /\ s.number = call[c].number
      /\ s.company = call[c].company /\ s.changes = call[c].changes /\ s.failed /\ s.noted = call[c].noted
  BY <1>3, <1>7 DEF RowCall
<1>9. call' = [call EXCEPT ![c] = s]
  BY <1>7 DEF TransactionFails
<1>10. Carries(v, s)
  BY <1>2, <1>3, <1>5, <1>8 DEF Carries, Parts
<1>11. DoneOK(s)'
  BY <1>3, <1>8 DEF DoneOK
<1>12. made' \in [Companies -> SUBSET Parts] /\ \A co \in Companies : made[co] \subseteq made'[co]
  BY <1>1 DEF RowsTypes
<1>13. QED
  BY <1>1, <1>2, <1>3, <1>4, <1>5, <1>6, <1>8, <1>9, <1>10, <1>11, <1>12, CallGoesOn

LEMMA ConnectionBreaks ==
    ASSUME RowsInv, NEW k \in DOMAIN connection, Breaks(k)
    PROVE  RowsInv'
<1> DEFINE c == connection[k].user
<1>1. /\ connection[k].user # Nobody /\ RowsTypes /\ HeldOK
      /\ UNCHANGED <<known, made, stored, begun, changed, audited, answer>>
      /\ faults < MaxFaults /\ faults' = faults + 1
  BY DEF Breaks, RowsInv
<1>2. c \in Callers /\ call[c].conn = k /\ k # 0
  BY <1>1, RowConstants DEF HeldOK, RowsTypes, Connection
<1>3. call[c].at \notin {"idle", "provision", "connect"}
  BY <1>1, <1>2 DEF HeldOK
<1>4. call[c] \in RowCall /\ call[c].company \in Companies /\ DoneOK(call[c])
  BY <1>2, <1>3, AtWork
<1>5. faults' \in 0 .. MaxFaults
  BY <1>1, FaultIsCounted
<1>6. PICK v \in Connection : v = Broken(c)
  BY <1>2, BrokenIsAConnection
<1>7. /\ v.user = c /\ ~v.open /\ v.session = Login /\ v.local = NoCompany /\ v.path = NoCompany
      /\ v.lock = NoCompany /\ ~v.alive
  BY <1>2, <1>6, BrokenIsAConnection
<1>8. connection' = [connection EXCEPT ![call[c].conn] = v]
  BY <1>2, <1>6 DEF Breaks
<1>9. PICK s \in RowCall : s = [call[c] EXCEPT !.changes = {}, !.noted = FALSE]
  BY <1>4 DEF RowCall
<1>10. /\ s.at = call[c].at /\ s.conn = call[c].conn /\ s.number = call[c].number
       /\ s.company = call[c].company /\ s.changes = {} /\ s.failed = call[c].failed /\ ~s.noted
  BY <1>4, <1>9 DEF RowCall
<1>11. call' = [call EXCEPT ![c] = s]
  BY <1>9 DEF Breaks
<1>12. Carries(v, s)
  BY <1>7, <1>10 DEF Carries
<1>13. DoneOK(s)'
  BY <1>10, RowConstants, FS_EmptySet, <1>1, <1>4 DEF DoneOK
<1>14. made' \in [Companies -> SUBSET Parts] /\ \A co \in Companies : made[co] \subseteq made'[co]
  BY <1>1 DEF RowsTypes
<1> HIDE DEF c
<1>15. QED
  BY <1>1, <1>2, <1>3, <1>5, <1>7, <1>8, <1>10, <1>11, <1>12, <1>13, <1>14, CallGoesOn

\* What a statement changes: one change for each row it hits, each seen as it is.
LEMMA ChangesOfHits ==
    ASSUME RowsInv, NEW c \in Callers, call[c].at = "statement", Mine(c).path \in Companies,
           NEW hit \in SUBSET RowIds
    PROVE  /\ {ChangeOf(c, r) : r \in hit} \subseteq Change
           /\ Cardinality({ChangeOf(c, r) : r \in hit}) <= Cardinality(hit)
           /\ Cardinality({ChangeOf(c, r) : r \in hit}) \in Nat /\ Cardinality(hit) \in Nat
<1>1. call[c].number \in 1 .. begun /\ begun \in 0 .. MaxCalls /\ MaxCalls \in Nat
  BY RowConstants DEF RowsInv, RowsTypes, NumbersOK
<1>2. ASSUME NEW r \in hit
      PROVE  ChangeOf(c, r) \in Change
  <2>1. r \in RowIds /\ stored[Mine(c).path][r] \in -1 .. MaxCalls
    BY DEF RowsInv, RowsTypes
  <2> DEFINE is == IF call[c].op = "delete" THEN Absent ELSE call[c].number
  <2>2. is \in -1 .. MaxCalls
    BY <1>1 DEF Absent
  <2> HIDE DEF is
  <2>3. [row |-> r, was |-> stored[Mine(c).path][r], is |-> is] \in Change
    BY <2>1, <2>2 DEF Change
  <2>4. QED
    BY <2>3 DEF ChangeOf, is
<1> DEFINE changes == {ChangeOf(c, r) : r \in hit}
           f == [r \in hit |-> ChangeOf(c, r)]
<1>3. IsFiniteSet(hit)
  BY RowConstants, FS_Subset
<1>4. f \in Surjection(hit, changes)
  BY DEF Surjection
<1>5. IsFiniteSet(changes) /\ Cardinality(changes) <= Cardinality(hit)
  <2> HIDE DEF f, changes
  <2>1. QED
    BY <1>3, <1>4, FS_Surjection
<1>6. Cardinality(changes) \in Nat /\ Cardinality(hit) \in Nat
  BY <1>3, <1>5, FS_CardinalityType
<1>7. QED
  BY <1>2, <1>5, <1>6

\* The rows of a call that has written are locked for every other one in the schema.
LEMMA WrittenIsLocked ==
    ASSUME RowsInv, NEW c \in Callers, NEW d \in Callers, c # d, NEW y \in call[d].changes,
           Mine(d).path = Mine(c).path
    PROVE  y.row \in Locked(c)
BY AtWork DEF RowsInv, DoneOK, Locked

LEMMA RowsAreWritten ==
    ASSUME RowsInv, NEW c \in Callers, Writes(c)
    PROVE  RowsInv'
<1>1. /\ call[c].at = "statement" /\ call[c].op \in {"insert", "update", "delete"} /\ Mine(c).alive
      /\ Found(c) \cap Locked(c) = {}
      /\ UNCHANGED <<connection, known, made, stored, begun, changed, audited, answer, faults>>
      /\ RowsTypes /\ RowsOK /\ call[c].changes = {} /\ faults \in 0 .. MaxFaults
  BY NothingChanged DEF Writes, RowsInv, RowsTypes
<1>2. /\ call[c].conn # 0 /\ call[c].conn \in DOMAIN connection /\ Mine(c) \in Connection
      /\ Mine(c).user = c /\ Carries(Mine(c), call[c]) /\ call[c] \in RowCall
      /\ call[c].company \in Companies
  BY <1>1, AtWork
<1>3. PICK v \in Connection : v = Mine(c)
  BY <1>2
<1>4. connection' = [connection EXCEPT ![call[c].conn] = v]
  BY <1>1, <1>2, <1>3, SameConnection DEF Mine
<1>5. Mine(c).path = call[c].company
  BY <1>1, <1>2 DEF Carries
<1>6. PICK hit \in Taken(c) :
         call' = [call EXCEPT ![c].changes = {ChangeOf(c, r) : r \in hit},
                              ![c].at = IF Cardinality(hit) > MaxAffected THEN "rollback" ELSE "record",
                              ![c].failed = Cardinality(hit) > MaxAffected]
  BY DEF Writes
<1>7. hit \subseteq Found(c) /\ hit \in SUBSET RowIds
  BY <1>2 DEF Taken, Found, RowCall
<1> DEFINE changes == {ChangeOf(c, r) : r \in hit}
           step == IF Cardinality(hit) > MaxAffected THEN "rollback" ELSE "record"
<1>8. changes \subseteq Change /\ (step = "record" => Cardinality(changes) <= MaxAffected)
  <2>1. /\ changes \subseteq Change /\ Cardinality(changes) <= Cardinality(hit)
        /\ Cardinality(changes) \in Nat /\ Cardinality(hit) \in Nat /\ MaxAffected \in Nat
    BY <1>1, <1>2, <1>5, <1>7, ChangesOfHits, RowConstants
  <2> HIDE DEF changes
  <2>2. QED
    BY <2>1
<1>9. step \in {"rollback", "record"}
  OBVIOUS
<1>10. \A x \in changes : x.row \in hit /\ x.was = stored[Mine(c).path][x.row]
  BY DEF ChangeOf
<1>11. PICK b \in BOOLEAN : b = (Cardinality(hit) > MaxAffected)
  <2>1. Cardinality(hit) \in Nat /\ MaxAffected \in Nat
    BY <1>1, <1>2, <1>5, <1>7, ChangesOfHits, RowConstants
  <2>2. (Cardinality(hit) > MaxAffected) \in BOOLEAN
    BY <2>1
  <2>3. QED
    BY <2>2
<1>12. call' = [call EXCEPT ![c].changes = changes, ![c].at = step, ![c].failed = b]
  BY <1>6, <1>11
<1> HIDE DEF changes, step
<1>13. PICK s \in RowCall : s = [call[c] EXCEPT !.changes = changes, !.at = step, !.failed = b]
  BY <1>2, <1>8, <1>9 DEF RowCall, RowsSteps, InTransaction
<1>14. /\ s.at = step /\ s.conn = call[c].conn /\ s.number = call[c].number
       /\ s.company = call[c].company /\ s.changes = changes /\ s.noted = call[c].noted
  BY <1>2, <1>13 DEF RowCall
<1>15. call' = [call EXCEPT ![c] = s]
  BY <1>12, <1>13
<1>16. Carries(v, s)
  BY <1>1, <1>2, <1>3, <1>5, <1>9, <1>14 DEF Carries, Parts
<1>17. DoneOK(s)'
  BY <1>9, <1>2, <1>8, <1>14 DEF MadeBefore, DoneOK
<1>18. call'[c] = s /\ \A d \in Callers \ {c} : call'[d] = call[d]
  BY <1>1, <1>15, CallSet
<1>19. ASSUME NEW d \in Callers
       PROVE  /\ connection'[call'[d].conn] = Mine(d)
              /\ \A x \in call'[d].changes : stored'[connection'[call'[d].conn].path][x.row] = x.was
  BY <1>1, <1>14, <1>18, <1>10 DEF Mine, RowsOK, HandedBackIsReplaced
<1>20. ASSUME NEW d \in Callers \ {c}, NEW x \in changes, NEW y \in call[d].changes,
              Mine(d).path = Mine(c).path
       PROVE  x.row # y.row
  BY <1>7, <1>10, <1>20, WrittenIsLocked, <1>1
<1>21. ASSUME NEW d \in Callers, NEW e \in Callers, NEW x \in call'[d].changes, NEW y \in call'[e].changes,
              d # e, connection'[call'[d].conn].path = connection'[call'[e].conn].path
       PROVE  x.row # y.row
  BY <1>19, <1>21, <1>14, <1>18, <1>20, <1>1 DEF RowsOK
<1>22. RowsOK'
  BY <1>19, <1>21 DEF RowsOK, HandedBackIsReplaced, Mine
<1>23. made' \in [Companies -> SUBSET Parts] /\ \A co \in Companies : made[co] \subseteq made'[co]
  BY <1>1 DEF RowsTypes
<1>24. s.at \notin {"idle", "provision", "connect"}
  BY <1>9, <1>14
<1>25. QED
  BY <1>1, <1>2, <1>3, <1>4, <1>14, <1>15, <1>16, <1>17, <1>22, <1>23, <1>24, CallStep

\* A call that hears how it went, with what became of its rows left to show.
LEMMA CallIsAnswered ==
    ASSUME RowsInv, NEW c \in Callers, call[c].at \notin {"idle", "provision", "connect"},
           NEW v \in Connection, NEW s \in RowCall, NEW how \in {"ok", "failed", "lost"},
           connection' = [connection EXCEPT ![call[c].conn] = v], call' = [call EXCEPT ![c] = s],
           answer' = [answer EXCEPT ![call[c].number] = how],
           UNCHANGED <<known, made, begun>>, faults' \in 0 .. MaxFaults, HeldOK', DoneOK(s)',
           s.changes = {},
           s.at = "idle" \/ (s.at = "rollback" /\ s.number = call[c].number /\ how = "lost"),
           stored' \in [Companies -> [RowIds -> -1 .. MaxCalls]],
           \A d \in Callers \ {c} : \A x \in call[d].changes : stored'[Mine(d).path][x.row] = x.was,
           changed' \in [1 .. MaxCalls -> SUBSET Change], audited' \subseteq 1 .. MaxCalls,
           \A n \in 1 .. MaxCalls : n # call[c].number =>
              changed'[n] = changed[n] /\ (n \in audited' <=> n \in audited),
           changed'[call[c].number] # {} => call[c].number \in audited',
           call[c].number \in audited' => how \in {"ok", "lost"},
           how = "failed" => changed'[call[c].number] = {},
           Cardinality(changed'[call[c].number]) <= MaxAffected
    PROVE  RowsInv'
<1> DEFINE n == call[c].number
<1>1. /\ RowsTypes /\ HeldOK /\ NumbersOK /\ RowsOK /\ \A d \in Callers : DoneOK(call[d])
      /\ KnownIsProvisioned /\ ChangesAreAudited /\ ChangesAreBounded
      /\ call[c].conn # 0 /\ call[c].conn \in DOMAIN connection /\ Mine(c).user = c
  BY AtWork DEF RowsInv
<1>2. n \in 1 .. MaxCalls
  BY <1>1, RowConstants DEF NumbersOK, RowsTypes
<1>3. /\ DOMAIN connection' = DOMAIN connection
      /\ connection' \in [DOMAIN connection' -> Connection] /\ connection'[call[c].conn] = v
      /\ \A j \in DOMAIN connection \ {call[c].conn} : connection'[j] = connection[j]
  BY <1>1, ConnectionSet
<1>4. call' \in [Callers -> RowCall] /\ call'[c] = s /\ \A d \in Callers \ {c} : call'[d] = call[d]
  BY <1>1, CallSet
<1>5. /\ answer' \in [1 .. MaxCalls -> {"none", "ok", "failed", "lost"}] /\ answer'[n] = how
      /\ \A m \in 1 .. MaxCalls : m # n => answer'[m] = answer[m]
  BY <1>1, <1>2 DEF RowsTypes
<1>6. RowsTypes'
  BY <1>1, <1>3, <1>4, <1>5 DEF RowsTypes
<1>7. NumbersOK'
  BY <1>5, <1>1, NumbersByAnswer
<1>8. ASSUME NEW d \in Callers \ {c}, call[d].changes # {}
      PROVE  call'[d] = call[d] /\ connection'[call'[d].conn] = Mine(d)
  BY <1>1, <1>8, AtWork, <1>3, <1>4 DEF DoneOK, Mine
<1>9. RowsOK'
  <2>1. ASSUME NEW d \in Callers, NEW x \in call'[d].changes
        PROVE  stored'[connection'[call'[d].conn].path][x.row] = x.was
    BY <1>4, <1>8, <2>1
  <2>2. ASSUME NEW d \in Callers, NEW e \in Callers, NEW x \in call'[d].changes, NEW y \in call'[e].changes,
               d # e, connection'[call'[d].conn].path = connection'[call'[e].conn].path
        PROVE  x.row # y.row
    BY <1>4, <2>2, <1>8, <1>1 DEF RowsOK
  <2>3. QED
    BY <2>1, <2>2 DEF RowsOK, HandedBackIsReplaced, Mine
<1>10. ASSUME NEW d \in Callers
       PROVE  DoneOK(call[d])'
  BY <1>4, <1>1 DEF DoneOK
<1>11. KnownIsProvisioned'
  BY <1>1 DEF KnownIsProvisioned
<1>12. ChangesAreAudited'
  BY <1>5, <1>1 DEF ChangesAreAudited
<1>13. ChangesAreBounded'
  BY <1>1 DEF ChangesAreBounded
<1>14. QED
  BY <1>6, <1>7, <1>9, <1>10, <1>11, <1>12, <1>13 DEF RowsInv

\* A transaction that has ended leaves a working connection fresh.
LEMMA EndedIsFresh ==
    ASSUME NEW k \in Connection, k.session = Login, k.lock = NoCompany, NEW failed \in BOOLEAN,
           ~k.alive => failed
    PROVE  GivenBack(TxEnded(k), failed) = Fresh
BY DEF TxEnded, Connection, GivenBack, Fresh

\* What a COMMIT makes of the rows, of what is changed, and of the audit.
LEMMA CommitApplies ==
    ASSUME RowsInv, NEW c \in Callers, call[c].at = "commit", Applied(c)
    PROVE  /\ stored' \in [Companies -> [RowIds -> -1 .. MaxCalls]]
           /\ \A d \in Callers \ {c} : \A x \in call[d].changes : stored'[Mine(d).path][x.row] = x.was
           /\ changed' \in [1 .. MaxCalls -> SUBSET Change] /\ audited' \subseteq 1 .. MaxCalls
           /\ \A n \in 1 .. MaxCalls : n # call[c].number =>
                 changed'[n] = changed[n] /\ (n \in audited' <=> n \in audited)
           /\ changed'[call[c].number] # {} => call[c].number \in audited'
           /\ Cardinality(changed'[call[c].number]) <= MaxAffected
<1> DEFINE n == call[c].number
           p == Mine(c).path
           changes == call[c].changes
<1>1. /\ RowsTypes /\ NumbersOK /\ RowsOK /\ \A d \in Callers : DoneOK(call[d])
      /\ Mine(c) \in Connection /\ call[c] \in RowCall
  BY AtWork DEF RowsInv
<1>2. n \in 1 .. MaxCalls
  BY <1>1, RowConstants DEF NumbersOK, RowsTypes
<1>3. changes \subseteq Change /\ (changes # {} => call[c].noted) /\ Cardinality(changes) <= MaxAffected
  BY <1>1 DEF RowCall, DoneOK
<1>4. /\ changed' = [changed EXCEPT ![n] = changes]
      /\ audited' = IF call[c].noted THEN audited \cup {n} ELSE audited
  BY DEF Applied
<1>5. /\ changed' \in [1 .. MaxCalls -> SUBSET Change] /\ changed'[n] = changes
      /\ \A m \in 1 .. MaxCalls : m # n => changed'[m] = changed[m]
  BY <1>1, <1>2, <1>3, <1>4 DEF RowsTypes
<1>6. /\ audited' \subseteq 1 .. MaxCalls /\ (call[c].noted => n \in audited')
      /\ \A m \in 1 .. MaxCalls : m # n => (m \in audited' <=> m \in audited)
  BY <1>1, <1>2, <1>4 DEF RowsTypes
<1>7. /\ stored' \in [Companies -> [RowIds -> -1 .. MaxCalls]]
      /\ \A d \in Callers \ {c} : \A x \in call[d].changes : stored'[Mine(d).path][x.row] = x.was
  <2>1. CASE p = NoCompany
    BY <2>1, <1>1 DEF Applied, RowsTypes, RowsOK, HandedBackIsReplaced
  <2>2. CASE p # NoCompany
    <3>1. p \in Companies
      BY <1>1, <2>2 DEF Connection
    <3> DEFINE new == [r \in RowIds |-> IF \E x \in changes : x.row = r
                                    THEN (CHOOSE x \in changes : x.row = r).is ELSE stored[p][r]]
    <3>2. stored' = [stored EXCEPT ![p] = new]
      BY <2>2, <3>1 DEF Applied
    <3>3. ASSUME NEW r \in RowIds
          PROVE  new[r] \in -1 .. MaxCalls
      BY <1>3, <1>1, <3>1 DEF Change, RowsTypes
    <3>4. new \in [RowIds -> -1 .. MaxCalls]
      BY <3>3
    <3>5. \A r \in RowIds : (\A x \in changes : x.row # r) => new[r] = stored[p][r]
      OBVIOUS
    <3> HIDE DEF new
    <3>6. /\ stored' \in [Companies -> [RowIds -> -1 .. MaxCalls]] /\ stored'[p] = new
          /\ \A co \in Companies \ {p} : stored'[co] = stored[co]
      BY <1>1, <3>1, <3>2, <3>4 DEF RowsTypes
    <3>7. ASSUME NEW d \in Callers \ {c}, NEW x \in call[d].changes
          PROVE  stored'[Mine(d).path][x.row] = x.was
      BY <1>1, AtWork, <3>5, <3>6 DEF DoneOK, RowsOK, HandedBackIsReplaced, Carries,
         RowCall, Change
    <3>8. QED
      BY <3>6, <3>7
  <2>3. QED
    BY <2>1, <2>2
<1>8. QED
  BY <1>3, <1>5, <1>6, <1>7

LEMMA CallCommits ==
    ASSUME RowsInv, NEW c \in Callers, Commits(c)
    PROVE  RowsInv'
<1>1. /\ call[c].at = "commit" /\ Mine(c).alive /\ Applied(c)
      /\ UNCHANGED <<known, made, begun, faults>>
      /\ RowsTypes /\ HeldOK /\ faults \in 0 .. MaxFaults
  BY DEF Commits, RowsInv, RowsTypes
<1>2. /\ call[c].conn # 0 /\ Mine(c) \in Connection
      /\ Mine(c).user = c /\ Carries(Mine(c), call[c]) /\ call[c] \in RowCall
  BY <1>1, AtWork
<1>3. Mine(c).session = Login /\ Mine(c).lock = NoCompany
  BY <1>1, <1>2 DEF Carries, Parts
<1>4. connection' = [connection EXCEPT ![call[c].conn] = Fresh]
  BY <1>1, <1>2, <1>3, EndedIsFresh DEF Commits, Mine
<1>5. /\ call' = [call EXCEPT ![c] = NoCall]
      /\ answer' = [answer EXCEPT ![call[c].number] = "ok"]
  BY DEF Commits, Answers
<1>6. HeldOK'
  BY <1>1, <1>2, <1>4, <1>5, NoCallIsACall, HeldByGivingBack
<1>7. DoneOK(NoCall)'
  BY NoCallIsACall DEF DoneOK
<1>8. /\ stored' \in [Companies -> [RowIds -> -1 .. MaxCalls]]
      /\ \A d \in Callers \ {c} : \A x \in call[d].changes : stored'[Mine(d).path][x.row] = x.was
      /\ changed' \in [1 .. MaxCalls -> SUBSET Change] /\ audited' \subseteq 1 .. MaxCalls
      /\ \A n \in 1 .. MaxCalls : n # call[c].number =>
            changed'[n] = changed[n] /\ (n \in audited' <=> n \in audited)
      /\ changed'[call[c].number] # {} => call[c].number \in audited'
      /\ Cardinality(changed'[call[c].number]) <= MaxAffected
  BY <1>1, CommitApplies
<1>9. PICK how \in {"ok", "failed", "lost"} : how = "ok"
  OBVIOUS
<1>10. QED
  BY <1>1, <1>4, <1>5, <1>6, <1>7, <1>8, <1>9, FreshIsAConnection, NoCallIsACall, CallIsAnswered

LEMMA CommitIsLost ==
    ASSUME RowsInv, NEW c \in Callers, LosesCommit(c)
    PROVE  RowsInv'
<1>1. /\ call[c].at = "commit" /\ Applied(c) /\ UNCHANGED <<known, made, begun>>
      /\ RowsTypes /\ HeldOK /\ faults' \in 0 .. MaxFaults
  BY FaultIsCounted DEF LosesCommit, RowsInv
<1>2. /\ call[c].conn # 0 /\ call[c] \in RowCall /\ call[c].company \in Companies
  BY <1>1, AtWork
<1>3. PICK v \in Connection : v = Broken(c)
  BY BrokenIsAConnection
<1>4. /\ v.user = c /\ ~v.open /\ v.session = Login /\ v.local = NoCompany /\ v.path = NoCompany
      /\ v.lock = NoCompany /\ ~v.alive
  BY <1>3, BrokenIsAConnection
<1>5. connection' = [connection EXCEPT ![call[c].conn] = v]
  BY <1>3 DEF LosesCommit
<1>6. PICK s \in RowCall : s = [call[c] EXCEPT !.at = "rollback", !.changes = {}, !.noted = FALSE, !.failed = TRUE]
  BY <1>2 DEF RowCall, RowsSteps, InTransaction
<1>7. /\ s.at = "rollback" /\ s.conn = call[c].conn /\ s.number = call[c].number
      /\ s.company = call[c].company /\ s.changes = {} /\ s.failed /\ ~s.noted
  BY <1>2, <1>6 DEF RowCall
<1>8. call' = [call EXCEPT ![c] = s]
  BY <1>6 DEF LosesCommit
<1>9. Carries(v, s)
  BY <1>4, <1>7 DEF Carries
<1>10. HeldOK'
  BY <1>1, <1>2, <1>4, <1>5, <1>7, <1>8, <1>9, HeldByStep
<1>11. DoneOK(s)'
  BY <1>2, <1>7 DEF DoneOK
<1>12. /\ stored' \in [Companies -> [RowIds -> -1 .. MaxCalls]]
       /\ \A d \in Callers \ {c} : \A x \in call[d].changes : stored'[Mine(d).path][x.row] = x.was
       /\ changed' \in [1 .. MaxCalls -> SUBSET Change] /\ audited' \subseteq 1 .. MaxCalls
       /\ \A n \in 1 .. MaxCalls : n # call[c].number =>
             changed'[n] = changed[n] /\ (n \in audited' <=> n \in audited)
       /\ changed'[call[c].number] # {} => call[c].number \in audited'
       /\ Cardinality(changed'[call[c].number]) <= MaxAffected
  BY <1>1, CommitApplies
<1>13. PICK how \in {"ok", "failed", "lost"} : how = "lost"
  OBVIOUS
<1>14. answer' = [answer EXCEPT ![call[c].number] = how]
  BY <1>13 DEF LosesCommit
<1>15. QED
  BY <1>1, <1>5, <1>7, <1>8, <1>10, <1>11, <1>12, <1>13, <1>14, CallIsAnswered

\* A call that ends without a COMMIT of its own: nothing of it is on record, but what it was
\* told it had lost.
LEMMA EndsWithoutCommit ==
    ASSUME RowsInv, NEW c \in Callers, call[c].at \notin {"idle", "provision", "connect"},
           NEW how \in {"failed", "lost"}, how = "lost" <=> answer[call[c].number] = "lost",
           connection' = [connection EXCEPT ![call[c].conn] = Fresh], call' = [call EXCEPT ![c] = NoCall],
           answer' = [answer EXCEPT ![call[c].number] = how],
           UNCHANGED <<known, made, stored, begun, changed, audited, faults>>
    PROVE  RowsInv'
<1>1. /\ RowsTypes /\ HeldOK /\ RowsOK /\ ChangesAreAudited /\ ChangesAreBounded
      /\ call[c].conn # 0 /\ faults' \in 0 .. MaxFaults
  BY AtWork DEF RowsInv, RowsTypes
<1>2. /\ call[c].number \in 1 .. MaxCalls
      /\ Unrecorded(call[c].number) \/ answer[call[c].number] = "lost"
  BY RowConstants DEF RowsInv, RowsTypes, NumbersOK
<1>3. HeldOK'
  BY <1>1, NoCallIsACall, HeldByGivingBack
<1>4. DoneOK(NoCall)'
  BY NoCallIsACall DEF DoneOK
<1>5. /\ stored' \in [Companies -> [RowIds -> -1 .. MaxCalls]]
      /\ \A d \in Callers \ {c} : \A x \in call[d].changes : stored'[Mine(d).path][x.row] = x.was
      /\ changed' \in [1 .. MaxCalls -> SUBSET Change] /\ audited' \subseteq 1 .. MaxCalls
  BY <1>1 DEF RowsTypes, RowsOK, HandedBackIsReplaced
<1>6. /\ changed'[call[c].number] # {} => call[c].number \in audited'
      /\ call[c].number \in audited' => how \in {"ok", "lost"}
      /\ how = "failed" => changed'[call[c].number] = {}
      /\ Cardinality(changed'[call[c].number]) <= MaxAffected
  BY <1>1, <1>2 DEF Unrecorded, ChangesAreAudited, ChangesAreBounded
<1>7. QED
  BY <1>1, <1>3, <1>4, <1>5, <1>6, FreshIsAConnection, NoCallIsACall, CallIsAnswered

LEMMA CallRollsBack ==
    ASSUME RowsInv, NEW c \in Callers, RollsBack(c)
    PROVE  RowsInv'
<1>1. /\ call[c].at = "rollback" /\ UNCHANGED <<known, made, stored, begun, changed, audited, faults>>
  BY DEF RollsBack
<1>2. /\ Mine(c) \in Connection /\ Carries(Mine(c), call[c])
  BY <1>1, AtWork
<1>3. Mine(c).session = Login /\ Mine(c).lock = NoCompany /\ Mine(c).alive \in BOOLEAN
  BY <1>1, <1>2 DEF Carries, Parts, Connection
<1>4. connection' = [connection EXCEPT ![call[c].conn] = Fresh]
  BY <1>3, <1>2, EndedIsFresh DEF RollsBack, Mine
<1>5. PICK how \in {"failed", "lost"} : how = IF answer[call[c].number] = "lost" THEN "lost" ELSE "failed"
  OBVIOUS
<1>6. /\ call' = [call EXCEPT ![c] = NoCall]
      /\ answer' = [answer EXCEPT ![call[c].number] = how]
  BY <1>5 DEF RollsBack, Answers
<1>7. QED
  BY <1>1, <1>4, <1>5, <1>6, EndsWithoutCommit

LEMMA CallUnlocks ==
    ASSUME RowsInv, NEW c \in Callers, Unlocks(c)
    PROVE  RowsInv'
<1>1. /\ call[c].at = "unlocking" /\ UNCHANGED <<made, stored, begun, changed, audited, faults>>
      /\ RowsTypes /\ HeldOK /\ NumbersOK /\ RowsOK /\ \A d \in Callers : DoneOK(call[d])
      /\ KnownIsProvisioned /\ ChangesAreAudited /\ ChangesAreBounded /\ call[c].changes = {}
  BY NothingChanged DEF Unlocks, RowsInv
<1>2. /\ call[c].conn # 0 /\ call[c].conn \in DOMAIN connection /\ Mine(c) \in Connection
      /\ Mine(c).user = c /\ Carries(Mine(c), call[c]) /\ call[c] \in RowCall
      /\ call[c].company \in Companies
  BY <1>1, AtWork
<1>3. connection' = [connection EXCEPT ![call[c].conn] = Fresh]
  <2>1. PICK k \in Connection : k = [Mine(c) EXCEPT !.lock = NoCompany]
    BY <1>2 DEF Connection
  <2>2. /\ k.session = Login /\ k.lock = NoCompany /\ ~k.open /\ k.local = NoCompany /\ k.path = NoCompany
    BY <1>1, <1>2, <2>1 DEF Connection, Carries
  <2>3. [k EXCEPT !.user = Nobody] = [user |-> Nobody, open |-> k.open, session |-> k.session,
                local |-> k.local, path |-> k.path, lock |-> k.lock, alive |-> k.alive]
    BY DEF Connection
  <2>4. k.open = FALSE /\ (k.alive => k.alive = TRUE)
    BY <2>2 DEF Connection
  <2>5. k.alive => [k EXCEPT !.user = Nobody] = Fresh
    BY <2>2, <2>3, <2>4 DEF Fresh
  <2>6. GivenBack(k, call[c].failed) = Fresh
    BY <2>5 DEF GivenBack
  <2>7. QED
    BY <2>1, <2>6 DEF Unlocks, Mine
<1>4. CASE call[c].failed
  BY <1>4, <1>1, <1>3, EndsWithoutCommit DEF Unlocks, Answers, NumbersOK, Unrecorded
<1>5. CASE ~call[c].failed
  <2>1. /\ known' = known \cup {call[c].company} /\ answer' = answer
        /\ call' = [call EXCEPT ![c].at = "connect", ![c].conn = 0]
    BY <1>5 DEF Unlocks
  <2>2. made[call[c].company] = Parts
    BY <1>1, <1>2, <1>5 DEF DoneOK, MadeBefore, RowsTypes
  <2>3. PICK s \in RowCall : s = [call[c] EXCEPT !.at = "connect", !.conn = 0]
    BY <1>2 DEF RowCall, RowsSteps
  <2>4. /\ s.at = "connect" /\ s.conn = 0 /\ s.number = call[c].number
        /\ s.company = call[c].company /\ s.changes = {}
    BY <1>1, <1>2, <2>3 DEF RowCall
  <2>5. call' = [call EXCEPT ![c] = s]
    BY <2>1, <2>3
  <2>6. call' \in [Callers -> RowCall] /\ call'[c] = s /\ \A d \in Callers \ {c} : call'[d] = call[d]
    BY <1>1, <2>5, CallSet
  <2>7. /\ DOMAIN connection' = DOMAIN connection
        /\ connection' \in [DOMAIN connection' -> Connection]
        /\ \A j \in DOMAIN connection \ {call[c].conn} : connection'[j] = connection[j]
    BY <1>1, <1>2, <1>3, FreshIsAConnection, ConnectionSet
  <2>8. RowsTypes'
    BY <1>1, <1>2, <2>1, <2>6, <2>7 DEF RowsTypes
  <2>9. HeldOK'
    BY <1>1, <1>2, <1>3, <2>4, <2>5, HeldByGivingBack
  <2>10. NumbersOK'
    BY <1>1, <2>1, <2>4, <2>5, NumbersKept
  <2>11. RowsOK'
    <3>1. ASSUME NEW d \in Callers \ {c}, call[d].changes # {}
          PROVE  connection'[call[d].conn].path = connection[call[d].conn].path
      BY <1>1, <3>1, AtWork, <1>2, <2>7 DEF DoneOK, Mine
    <3>2. QED
      BY <1>1, <2>4, <2>5, <3>1, RowsKept
  <2>12. ASSUME NEW d \in Callers
         PROVE  DoneOK(call[d])'
    BY <1>2, <2>4, <2>6, <1>1 DEF DoneOK, MadeBefore
  <2>13. KnownIsProvisioned'
    BY <1>1, <2>1, <2>2 DEF KnownIsProvisioned
  <2>14. ChangesAreAudited' /\ ChangesAreBounded'
    BY <1>1, <2>1 DEF ChangesAreAudited, ChangesAreBounded
  <2>15. QED
    BY <2>8, <2>9, <2>10, <2>11, <2>12, <2>13, <2>14 DEF RowsInv
<1>6. QED
  BY <1>4, <1>5

LEMMA RowsInductive == RowsInv /\ [CompanyRowsNext]_rowsVars => RowsInv'
<1>1. SUFFICES ASSUME RowsInv, [CompanyRowsNext]_rowsVars
               PROVE  RowsInv'
  OBVIOUS
<1>2. CASE UNCHANGED rowsVars
  BY <1>1, <1>2 DEF rowsVars, RowsInv, RowsTypes, HeldOK, Mine, NumbersOK, Unrecorded, RowsOK,
       HandedBackIsReplaced, DoneOK, KnownIsProvisioned, ChangesAreAudited, ChangesAreBounded
<1>3. ASSUME NEW c \in Callers,
             Begins(c) \/ Connects(c) \/ TakesLock(c) \/ AssumesRole(c) \/ Provisions(c) \/ ProvisioningFails(c)
      PROVE  RowsInv'
  BY <1>1, <1>3, CallBegins, CallConnects, LockIsTaken, RoleIsAssumed, PartIsMade, ProvisioningHasFailed
<1>4. ASSUME NEW c \in Callers,
             Unlocks(c) \/ BeginsTransaction(c) \/ Writes(c) \/ ReadsOrGrants(c) \/ Records(c)
      PROVE  RowsInv'
  BY <1>1, <1>4, CallUnlocks, TransactionBegins, RowsAreWritten, ReadOrGranted, AuditRowIsWritten
<1>5. ASSUME NEW c \in Callers,
             Commits(c) \/ LosesCommit(c) \/ TransactionFails(c) \/ RollsBack(c)
      PROVE  RowsInv'
  BY <1>1, <1>5, CallCommits, CommitIsLost, TransactionHasFailed, CallRollsBack
<1>6. ASSUME NEW k \in DOMAIN connection, Breaks(k)
      PROVE  RowsInv'
  BY <1>1, <1>6, ConnectionBreaks
<1>7. QED
  BY <1>1, <1>2, <1>3, <1>4, <1>5, <1>6 DEF CompanyRowsNext

\* Of the calls under way one always goes on: who waits for a row waits for a call that has
\* written and will commit or roll back, who waits for the lock for one that provisions, and
\* who waits for a connection for a call that has one.
LEMMA OneAlwaysGoesOn ==
    ASSUME RowsInv
    PROVE  SomebodyGoesOn
<1>1. RowsTypes /\ HeldOK /\ \A c \in Callers : DoneOK(call[c])
  BY DEF RowsInv
<1> DEFINE Goes == \E c \in Callers : call[c].at # "idle" /\ ~Waits(c)
<1>2. ASSUME NEW c \in Callers, call[c].at = "statement", Waits(c)
      PROVE  Goes
  BY <1>2, <1>1 DEF Waits, Locked, DoneOK
<1>3. ASSUME NEW c \in Callers, call[c].at = "locking", Waits(c)
      PROVE  Goes
  <2>1. PICK k \in DOMAIN connection : connection[k].lock = call[c].company
    BY <1>3 DEF Waits
  <2>2. connection[k].lock # NoCompany
    BY <1>1, <1>3, <2>1, RowConstants DEF DoneOK
  <2>3. connection[k].user # Nobody
    BY <1>1, <2>2, FreshIsAConnection DEF HeldOK
  <2>4. PICK d \in Callers : d = connection[k].user /\ call[d].conn = k /\ k # 0
    BY <1>1, <2>3, RowConstants DEF HeldOK, RowsTypes, Connection
  <2>5. Carries(connection[k], call[d])
    BY <1>1, <2>4 DEF HeldOK, Mine
  <2>6. call[d].at \in Parts \cup {"assume", "unlocking"}
    BY <2>2, <2>5 DEF Carries
  <2>7. QED
    BY <2>6 DEF Waits, Parts
<1>4. ASSUME NEW c \in Callers, call[c].at \in {"provision", "connect"}, Waits(c)
      PROVE  Goes
  <2>1. Free = {}
    BY <1>4 DEF Waits
  <2>2. 1 \in DOMAIN connection
    BY <1>1, RowConstants DEF RowsTypes
  <2>3. connection[1].user # Nobody
    BY <2>1, <2>2 DEF Free
  <2>4. PICK d \in Callers : call[d].conn = 1
    BY <1>1, <2>2, <2>3 DEF HeldOK, RowsTypes, Connection
  <2>5. call[d].at \notin {"idle", "provision", "connect"}
    BY <1>1, <2>4 DEF HeldOK
  <2>6. CASE Waits(d)
    BY <1>2, <1>3, <2>5, <2>6 DEF Waits
  <2>7. CASE ~Waits(d)
    BY <2>5, <2>7
  <2>8. QED
    BY <2>6, <2>7
<1>5. ASSUME NEW c \in Callers, call[c].at # "idle"
      PROVE  Goes
  BY <1>2, <1>3, <1>4, <1>5 DEF Waits
<1>6. QED
  BY <1>5 DEF SomebodyGoesOn

LEMMA RowsPromises ==
    ASSUME RowsInv
    PROVE  /\ CompanyRowsTypeOK /\ IdleConnectionsAreClean /\ ChangesAreAudited /\ ChangesAreBounded
           /\ HandedBackIsReplaced /\ KnownIsProvisioned /\ SomebodyGoesOn
<1>1. RowsTypes /\ HeldOK /\ RowsOK /\ KnownIsProvisioned /\ ChangesAreAudited /\ ChangesAreBounded
  BY DEF RowsInv
<1>2. ASSUME NEW c \in Callers
      PROVE  /\ call[c].at \in {"idle", "provision", "connect"} \cup Provisioning \cup InTransaction
             /\ call[c].op \in Ops /\ call[c].changes \subseteq Change
  BY <1>1 DEF RowsTypes, RowCall, RowsSteps
<1>3. CompanyRowsTypeOK
  BY <1>1, <1>2 DEF RowsTypes, CompanyRowsTypeOK, Connection
<1>4. IdleConnectionsAreClean
  BY <1>1 DEF HeldOK, IdleConnectionsAreClean, Free
<1>5. QED
  BY <1>1, <1>3, <1>4, OneAlwaysGoesOn DEF RowsOK


-----------------------------------------------------------------------------
(* AiColumns                                                               *)

\* The earliest time the watermark stays before: a row as young as that is never behind it.
Horizon == IF clock > Lag THEN clock - Lag ELSE 0
NotPast(p) == p.at < Horizon \/ (p.at = Horizon /\ p.id = 0)

\* How far a row's time may lie before that of a write that has committed: another may have
\* committed after it that began before it.
Slack == IF Cardinality(Writers) = 1 THEN 0 ELSE WriteLimit

WriterOK(w) ==
    /\ Busy(w) => writer[w].at <= clock /\ clock - writer[w].at <= WriteLimit
    /\ writer[w].pc = "open" =>
          /\ writer[w].src \in Sources
          /\ IF writer[w].new
             THEN /\ row[writer[w].row].life = "new"
                  /\ \A u \in Writers \ {w} : Busy(u) => writer[u].row # writer[w].row
             ELSE row[writer[w].row].life # "new"
    /\ Recording(w) =>
          /\ row[writer[w].row].life # "new"
          /\ writer[w].row \in Live => row[writer[w].row].at >= writer[w].at - Slack

ColumnRowOK(r) ==
    /\ r \in Live => row[r].src \in Sources
    /\ cell[r].status # "none" => row[r].life # "new"
    /\ r \in past.fresh => row[r].life # "new"

\* What a person has set and has on record is left alone by whatever is under way.
SureOK(r) ==
    /\ r \in Live /\ row[r].val = "person" /\ cell[r].status = "manual"
    /\ \A w \in Writers : Recording(w) => writer[w].row # r
    /\ fill.pc = "write" => r \notin fill.pending

\* A run's locals by themselves.
LocalsOK(f) ==
    /\ f.pass = "retry" => f.pc \in {"errors", "retry", "drop", "ask", "settle", "write", "advance"}
    /\ f.pc \in {"errors", "retry", "drop"} => f.pass = "retry"
    /\ \A c \in f.cands \cup f.page : row[c.id].life # "new"
    /\ f.pc = "cells" => f.page # {} /\ \A c, d \in f.page : c.id = d.id => c = d
    /\ f.pc \in {"retry", "drop"} => \A r \in f.ids : row[r].life # "new"
    /\ f.pc = "drop" => f.ids \cap Live = {}
    /\ f.pc \in {"settle", "write"} =>
          \A r \in Rows : f.answers[r] # "null" => \E c \in f.cands : c.id = r
    /\ f.pc = "write" => \A r \in f.pending : f.answers[r] \in {"auto", "review"}

Scanning == {"page", "cells", "ask", "settle", "write", "advance"}

\* A row the run's scan may pass, for nobody has written it since the run's ceiling was read.
Old(f, r) == r \in Live /\ ~Before(f.ceiling, RowPos(r))

\* A row the run has read as it still is, and has yet to answer.
Waiting(f, r) ==
    \E c \in f.cands :
        /\ CandPos(c) = RowPos(r)
        /\ f.pc = "write" => f.answers[r] \in {"error", "null"} \/ r \in f.pending
        /\ f.pc = "advance" => f.answers[r] = "null"
Excused(r) == Told(r) \/ past.dropped[r] # "no"

\* The scan leaves nothing behind either: what it has passed is told of, or waits for an
\* answer; what it has read is as it was read.
ScanOK(f) ==
    /\ IsFiniteSet(f.cands) /\ Cardinality(f.cands) <= Budget
    /\ f.pc \in {"idle", "list", "sync", "ceiling"} =>
          f.cands = {} /\ f.page = {} /\ f.examined = {} /\ f.asked = {}
    /\ f.pc \in Scanning \cup {"ceiling"} => mark.fp = f.fp
    /\ f.pc = "ceiling" =>
          /\ NotPast(f.after)
          /\ \A r \in Live : ~Before(f.after, RowPos(r)) => Excused(r)
    /\ f.pc \in Scanning =>
          /\ NotPast(f.ceiling)
          /\ \A p \in f.examined : \A r \in Rows :
                Old(f, r) /\ ~Before(p, RowPos(r)) => Excused(r) \/ Waiting(f, r)
    /\ f.pc \in {"page", "cells"} =>
          /\ Cardinality(f.cands) < Budget
          /\ \A r \in f.asked : \E c \in f.cands : c.id = r
          /\ \A r \in Rows : Old(f, r) /\ ~Before(f.after, RowPos(r)) => Excused(r) \/ Waiting(f, r)
          /\ \A c \in f.cands \cup f.page : Old(f, c.id) => c = Snapshot(c.id)
    /\ f.pc = "cells" =>
          \A r \in Rows : \A c \in f.page :
             Old(f, r) /\ Before(f.after, RowPos(r)) /\ ~Before(CandPos(c), RowPos(r)) => Snapshot(r) \in f.page

\* Nothing is behind the mark but what is told of or was dropped, and the mark keeps its distance.
MarkOK == NothingLeftBehind /\ NotPast(mark.pos)

ColumnsInv ==
    /\ TypeOK /\ RequestedFillHappens /\ CellTellsOfValue /\ MarkOK
    /\ \A w \in Writers : WriterOK(w)
    /\ \A r \in Rows : ColumnRowOK(r)
    /\ \A r \in past.sure : SureOK(r)
    /\ LocalsOK(fill)
    /\ fill.pass = "changed" => ScanOK(fill)

-----------------------------------------------------------------------------
(* What the constants and the order of positions give                       *)

LEMMA ColumnConstants ==
    /\ WriteLimit \in Nat /\ IsFiniteSet(Writers) /\ Lag \in Nat /\ WriteLimit <= Lag
    /\ Slack \in Nat /\ WriteLimit + Slack <= Lag
    /\ MaxRows \in Nat /\ MaxRows > 0 /\ ScanPage \in Nat /\ ScanPage > 0 /\ Budget \in Nat /\ Budget > 0
    /\ MaxClock \in Nat /\ LastWrite \in Nat /\ MaxAsks \in Nat /\ MaxDeletes \in Nat
    /\ \A w, u \in Writers : w # u => Slack = WriteLimit
BY ConstantsAssumption, FS_Singleton DEF Slack

\* The scan's order is a strict total order.
LEMMA OrderOfPositions ==
    ASSUME NEW p \in Position, NEW q \in Position, NEW s \in Position
    PROVE  /\ ~Before(p, p)
           /\ Before(p, q) => ~Before(q, p)
           /\ Before(p, q) /\ Before(q, s) => Before(p, s)
           /\ p # q => Before(p, q) \/ Before(q, p)
BY ColumnConstants DEF Position, Before

LEMMA PositionsAreFinite == IsFiniteSet(Position)
<1>1. IsFiniteSet(0 .. MaxClock) /\ IsFiniteSet(0 .. MaxRows)
  BY ColumnConstants, FS_Interval
<1>2. IsFiniteSet((0 .. MaxClock) \X (0 .. MaxRows))
  BY <1>1, FS_Product
<1> DEFINE f == [p \in Position |-> <<p.at, p.id>>]
<1>3. f \in Injection(Position, (0 .. MaxClock) \X (0 .. MaxRows))
  BY DEF Position, Injection, IsInjective
<1>4. QED
  <2> HIDE DEF f
  <2>1. QED
    BY <1>2, <1>3, FS_Injection

\* A set of positions has a first and a last: each is told by how many come before it.
LEMMA FirstAndLast ==
    ASSUME NEW S \in SUBSET Position, S # {}
    PROVE  /\ IsFiniteSet(S)
           /\ \E p \in S : \A q \in S \ {p} : Before(q, p)
           /\ \E p \in S : \A q \in S \ {p} : Before(p, q)
<1> DEFINE Prior(p) == {q \in S : Before(q, p)}
           n == Cardinality(S)
           rank == [p \in S |-> Cardinality(Prior(p))]
<1>1. IsFiniteSet(S) /\ n \in Nat /\ n # 0
  BY PositionsAreFinite, FS_Subset, FS_CardinalityType, FS_EmptySet
<1>2. ASSUME NEW p \in S
      PROVE  /\ IsFiniteSet(Prior(p)) /\ Cardinality(Prior(p)) \in Nat
             /\ Cardinality(Prior(p)) \in 0 .. n - 1
             /\ Cardinality(Prior(p)) = n - 1 => Prior(p) = S \ {p}
  <2>1. Prior(p) \in SUBSET (S \ {p})
    BY OrderOfPositions
  <2>2. IsFiniteSet(S \ {p}) /\ Cardinality(S \ {p}) = n - 1
    BY <1>1, FS_RemoveElement
  <2> HIDE DEF Prior, n
  <2>3. /\ IsFiniteSet(Prior(p)) /\ Cardinality(Prior(p)) <= n - 1
        /\ Cardinality(S \ {p}) = Cardinality(Prior(p)) => S \ {p} = Prior(p)
    BY <2>1, <2>2, FS_Subset
  <2>4. Cardinality(Prior(p)) \in Nat
    BY <2>3, FS_CardinalityType
  <2>5. QED
    BY <1>1, <2>2, <2>3, <2>4
<1>3. ASSUME NEW p \in S, NEW q \in S, Before(p, q)
      PROVE  Cardinality(Prior(p)) < Cardinality(Prior(q))
  <2>1. Prior(p) \in SUBSET Prior(q) /\ p \in Prior(q) /\ p \notin Prior(p)
    BY <1>3, OrderOfPositions
  <2> HIDE DEF Prior
  <2>2. /\ IsFiniteSet(Prior(q)) /\ Cardinality(Prior(q)) \in Nat /\ Cardinality(Prior(p)) \in Nat
    BY <1>2
  <2>3. /\ Cardinality(Prior(p)) <= Cardinality(Prior(q))
        /\ Cardinality(Prior(q)) = Cardinality(Prior(p)) => Prior(q) = Prior(p)
    BY <2>1, <2>2, FS_Subset
  <2>4. QED
    BY <2>1, <2>2, <2>3
<1>4. rank \in Injection(S, 0 .. n - 1)
  <2>1. rank \in [S -> 0 .. n - 1]
    BY <1>2
  <2>2. ASSUME NEW p \in S, NEW q \in S, p # q
        PROVE  rank[p] # rank[q]
    <3>1. Before(p, q) \/ Before(q, p)
      BY <2>2, OrderOfPositions
    <3>2. Cardinality(Prior(p)) \in Nat /\ Cardinality(Prior(q)) \in Nat
      BY <1>2
    <3>3. Cardinality(Prior(p)) # Cardinality(Prior(q))
      BY <1>3, <3>1, <3>2
    <3>4. QED
      BY <3>3
  <2> HIDE DEF rank
  <2>3. QED
    BY <2>1, <2>2 DEF Injection, IsInjective
<1>5. rank \in Surjection(S, 0 .. n - 1)
  <2>1. IsFiniteSet(0 .. n - 1) /\ Cardinality(0 .. n - 1) = n
    <3> HIDE DEF n
    <3>1. QED
      BY <1>1, FS_Interval
  <2> HIDE DEF rank
  <2>2. QED
    BY <1>4, <2>1, FS_Injection
<1>6. \A k \in 0 .. n - 1 : \E p \in S : Cardinality(Prior(p)) = k
  <2>1. \A k \in 0 .. n - 1 : \E p \in S : rank[p] = k
    <3> HIDE DEF rank, n
    <3>1. QED
      BY <1>5 DEF Surjection
  <2>2. QED
    BY <2>1
<1>7. \E p \in S : \A q \in S \ {p} : Before(q, p)
  <2>1. PICK p \in S : Cardinality(Prior(p)) = n - 1
    <3> HIDE DEF Prior, n
    <3>1. QED
      BY <1>1, <1>6
  <2>2. Prior(p) = S \ {p}
    BY <1>2, <2>1
  <2>3. QED
    BY <2>2
<1>8. \E p \in S : \A q \in S \ {p} : Before(p, q)
  <2>1. PICK p \in S : Cardinality(Prior(p)) = 0
    <3> HIDE DEF Prior, n
    <3>1. QED
      BY <1>1, <1>6
  <2>2. Prior(p) = {}
    <3> HIDE DEF Prior
    <3>1. QED
      BY <1>2, <2>1, FS_EmptySet
  <2>3. \A q \in S \ {p} : Before(p, q)
    BY <2>2, OrderOfPositions
  <2>4. QED
    BY <2>3
<1>9. QED
  BY <1>1, <1>7, <1>8

LEMMA LastIsLast ==
    ASSUME NEW S \in SUBSET Position, S # {}
    PROVE  Last(S) \in S /\ \A q \in S \ {Last(S)} : Before(q, Last(S))
BY FirstAndLast DEF Last

-----------------------------------------------------------------------------
(* What a step of others leaves of the mark, the scan and a run's locals     *)

LEMMA RowPosition ==
    ASSUME NEW r \in Rows, NEW at \in 0 .. MaxClock
    PROVE  Pos(at, r) \in Position /\ Pos(at, r).at = at /\ Pos(at, r).id = r /\ r \in Nat /\ r > 0
BY ColumnConstants DEF Pos, Position, Rows

\* A row as young as the horizon is ahead of whatever is not past it.
LEMMA YoungIsAhead ==
    ASSUME clock \in 0 .. MaxClock, NEW p \in Position, NotPast(p), NEW r \in Rows,
           NEW at \in 0 .. MaxClock, at >= Horizon
    PROVE  Before(p, Pos(at, r))
<1>1. /\ Pos(at, r).at = at /\ Pos(at, r).id = r /\ r \in Nat /\ r > 0
      /\ at \in Int /\ p.at \in Int /\ p.id \in Int /\ Horizon \in Int
  BY ColumnConstants, RowPosition DEF Position, Horizon
<1> HIDE DEF Horizon
<1>2. QED
  BY <1>1 DEF NotPast, Before

LEMMA LaterNotPast ==
    ASSUME NEW p \in Position, NotPast(p), clock \in 0 .. MaxClock, clock' \in 0 .. MaxClock, clock' >= clock
    PROVE  NotPast(p)'
BY ColumnConstants DEF Position, NotPast, Horizon

LEMMA RowFacts ==
    ASSUME TypeOK
    PROVE  /\ clock \in 0 .. MaxClock /\ MaxClock \in Nat
           /\ \A r \in Rows : /\ row[r] \in Row /\ row[r].at \in 0 .. MaxClock
                              /\ row[r].life \in {"new", "live", "gone"} /\ RowPos(r) \in Position
                              /\ row[r].val \in Values /\ cell[r] \in Cell
           /\ mark.pos \in Position /\ fill \in Fill
           /\ \A w \in Writers : /\ writer[w] \in Writer /\ writer[w].row \in Rows
                                 /\ writer[w].at \in 0 .. MaxClock
BY RowPosition, ColumnConstants DEF TypeOK, Row, RowPos, Writer, Mark

\* A row that a step leaves where it is, and that it does not rob of its excuse.
Calm(r) ==
    /\ r \in Live /\ row'[r].at = row[r].at /\ row'[r].src = row[r].src
    /\ Excused(r) => Excused(r)'

LEMMA MarkKept ==
    ASSUME TypeOK, TypeOK', MarkOK, clock' >= clock, mark' = mark,
           \A r \in Rows : r \in Live' /\ row'[r].at < Horizon => Calm(r)
    PROVE  MarkOK'
<1>1. PICK p \in Position : p = mark.pos
  BY RowFacts
<1>2. NotPast(p) /\ NotPast(p)' /\ mark'.pos = p
  BY <1>1, RowFacts, LaterNotPast DEF MarkOK, TypeOK
<1>3. ASSUME NEW r \in Rows, r \in Live', ~Before(p, Pos(row'[r].at, r))
      PROVE  Excused(r)'
  <2>1. row'[r].at \in 0 .. MaxClock
    BY DEF TypeOK, Row
  <2>2. ~(row'[r].at >= Horizon)
    BY <1>2, <1>3, <2>1, RowFacts, YoungIsAhead
  <2>3. row'[r].at < Horizon
    BY <2>1, <2>2, RowFacts, ColumnConstants DEF Horizon
  <2>4. Calm(r)
    BY <1>3, <2>3
  <2>5. Excused(r)
    BY <1>1, <1>3, <2>4 DEF Calm, MarkOK, NothingLeftBehind, Behind, RowPos, Excused
  <2>6. QED
    BY <2>4, <2>5 DEF Calm
<1>4. NothingLeftBehind'
  BY <1>2, <1>3 DEF NothingLeftBehind, Behind, RowPos, Live, Excused
<1>5. NotPast(mark.pos)'
  BY <1>2 DEF NotPast, Horizon
<1>6. QED
  BY <1>4, <1>5 DEF MarkOK

LEMMA HorizonIsTime ==
    ASSUME clock' \in 0 .. MaxClock
    PROVE  Horizon' \in Int /\ Horizon' >= 0
<1>1. PICK now \in Int : now = clock'
  BY ColumnConstants
<1>2. LET horizon == IF now > Lag THEN now - Lag ELSE 0 IN horizon \in Int /\ horizon >= 0
  BY ColumnConstants
<1>3. QED
  BY <1>1, <1>2 DEF Horizon

\* A scan that starts over has nothing behind it.
LEMMA MarkFromStart ==
    ASSUME TypeOK', mark'.pos = Start
    PROVE  MarkOK'
<1>1. \A r \in Rows : row'[r].at \in 0 .. MaxClock
  BY DEF TypeOK, Row
<1>2. ASSUME NEW r \in Rows
      PROVE  Before(Start, Pos(row'[r].at, r))
  <2>1. /\ Pos(row'[r].at, r).at = row'[r].at /\ Pos(row'[r].at, r).id = r
        /\ row'[r].at \in 0 .. MaxClock /\ r \in Nat /\ r > 0
    BY <1>1, RowPosition
  <2>2. row'[r].at \in Int /\ row'[r].at >= 0
    BY <2>1, ColumnConstants
  <2>3. Start.at = 0 /\ Start.id = 0
    BY DEF Start, Pos
  <2>4. QED
    BY <2>1, <2>2, <2>3 DEF Before
<1>3. NothingLeftBehind'
  BY <1>2 DEF NothingLeftBehind, Behind, RowPos
<1>4. clock' \in 0 .. MaxClock
  BY DEF TypeOK
<1>5. NotPast(mark.pos)'
  BY <1>4, ColumnConstants, HorizonIsTime DEF Start, Pos, NotPast
<1>6. QED
  BY <1>3, <1>5 DEF MarkOK

LEMMA ScanKept ==
    ASSUME TypeOK, TypeOK', NEW f \in Fill, ScanOK(f), clock' >= clock, mark'.fp = mark.fp,
           \A r \in Rows : r \in Live' /\ row'[r].at < Horizon => Calm(r)
    PROVE  ScanOK(f)'
<1>1. f.after \in Position /\ f.ceiling \in Position /\ f.cands \subseteq Candidate /\ f.page \subseteq Candidate
  BY DEF Fill
<1>2. \A c \in f.cands \cup f.page : c.id \in Rows
  BY <1>1 DEF Candidate
<1>3. ASSUME NEW p \in Position, NotPast(p), NEW r \in Rows, r \in Live', ~Before(p, RowPos(r)')
      PROVE  Calm(r) /\ r \in Live /\ RowPos(r)' = RowPos(r)
  BY <1>3, RowFacts, YoungIsAhead, ColumnConstants DEF TypeOK, Row, RowPos, Horizon, Calm
<1>4. f.pc = "ceiling" => NotPast(f.after)' /\ \A r \in Live' : ~Before(f.after, RowPos(r)') => Excused(r)'
  <2>1. SUFFICES ASSUME f.pc = "ceiling"
                 PROVE  NotPast(f.after)' /\ \A r \in Live' : ~Before(f.after, RowPos(r)') => Excused(r)'
    OBVIOUS
  <2>2. NotPast(f.after) /\ \A r \in Live : ~Before(f.after, RowPos(r)) => Excused(r)
    BY <2>1 DEF ScanOK
  <2>3. NotPast(f.after)'
    BY <1>1, <2>2, RowFacts, LaterNotPast DEF TypeOK
  <2>4. ASSUME NEW r \in Live', ~Before(f.after, RowPos(r)')
        PROVE  Excused(r)'
    BY <1>1, <1>3, <2>2, <2>4 DEF Live, Calm
  <2>5. QED
    BY <2>3, <2>4
<1>5. ASSUME f.pc \in Scanning
      PROVE  /\ NotPast(f.ceiling)'
             /\ \A r \in Rows : Old(f, r)' =>
                   /\ Old(f, r) /\ Calm(r) /\ RowPos(r)' = RowPos(r) /\ (Waiting(f, r) <=> Waiting(f, r)')
  BY <1>5, <1>1, RowFacts, LaterNotPast, <1>3 DEF ScanOK, TypeOK, Old, Waiting
<1>6. f.pc \in Scanning => \A p \in f.examined : \A r \in Rows :
         Old(f, r)' /\ ~Before(p, RowPos(r)') => Excused(r)' \/ Waiting(f, r)'
  BY <1>5 DEF ScanOK, Calm
<1>7. f.pc \in {"page", "cells"} =>
         /\ \A r \in Rows : Old(f, r)' /\ ~Before(f.after, RowPos(r)') => Excused(r)' \/ Waiting(f, r)'
         /\ \A c \in f.cands \cup f.page : Old(f, c.id)' => c = Snapshot(c.id)'
  <2>1. SUFFICES ASSUME f.pc \in {"page", "cells"}
        PROVE /\ \A r \in Rows : Old(f, r)' /\ ~Before(f.after, RowPos(r)') => Excused(r)' \/ Waiting(f, r)'
              /\ \A c \in f.cands \cup f.page : Old(f, c.id)' => c = Snapshot(c.id)'
    OBVIOUS
  <2>2. f.pc \in Scanning
    BY <2>1 DEF Scanning
  <2>3. \A r \in Rows : Old(f, r) /\ ~Before(f.after, RowPos(r)) => Excused(r) \/ Waiting(f, r)
    BY <2>1 DEF ScanOK
  <2>4. ASSUME NEW c \in f.cands \cup f.page, Old(f, c.id)'
        PROVE  c = Snapshot(c.id)'
    BY <1>2, <1>5, <2>2, <2>4, <2>1 DEF ScanOK, Calm, Snapshot
  <2>5. QED
    BY <1>5, <2>2, <2>3, <2>4 DEF Calm
<1>8. f.pc = "cells" =>
         \A r \in Rows : \A c \in f.page :
            Old(f, r)' /\ Before(f.after, RowPos(r)') /\ ~Before(CandPos(c), RowPos(r)') => Snapshot(r)' \in f.page
  <2>1. SUFFICES ASSUME f.pc = "cells", NEW r \in Rows, NEW c \in f.page,
                        Old(f, r)', Before(f.after, RowPos(r)'), ~Before(CandPos(c), RowPos(r)')
                 PROVE  Snapshot(r)' \in f.page
    OBVIOUS
  <2>2. Old(f, r) /\ Calm(r) /\ RowPos(r)' = RowPos(r)
    BY <1>5, <2>1 DEF Scanning
  <2>3. Snapshot(r) \in f.page
    BY <2>1, <2>2 DEF ScanOK
  <2>4. Snapshot(r)' = Snapshot(r)
    BY <2>2 DEF Calm, Snapshot
  <2>5. QED
    BY <2>3, <2>4
<1>9. QED
  BY <1>4, <1>5, <1>6, <1>7, <1>8 DEF ScanOK

LEMMA LocalsKept ==
    ASSUME TypeOK, TypeOK', NEW f \in Fill, LocalsOK(f),
           \A r \in Rows : /\ row[r].life # "new" => row'[r].life # "new"
                           /\ row[r].life = "gone" => row'[r].life = "gone"
    PROVE  LocalsOK(f)'
BY RowFacts DEF Fill, Candidate, Live, LocalsOK

-----------------------------------------------------------------------------
(* What a step must show                                                     *)

\* Any step that leaves the mark alone or sends it back to the start.
LEMMA ColumnStep ==
    ASSUME ColumnsInv, TypeOK', clock' >= clock, mark' = mark \/ mark'.pos = Start,
           RequestedFillHappens', CellTellsOfValue',
           \A r \in Rows : r \in Live' /\ row'[r].at < Horizon => Calm(r),
           \A w \in Writers : WriterOK(w)', \A r \in Rows : ColumnRowOK(r)',
           \A r \in past'.sure : SureOK(r)',
           LocalsOK(fill)', fill'.pass = "changed" => ScanOK(fill)'
    PROVE  ColumnsInv'
BY MarkKept, MarkFromStart DEF ColumnsInv

\* A run that has begun or ended has nothing in hand.
LEMMA EmptyRun ==
    ASSUME fill' = IdleFill \/ fill' = [IdleFill EXCEPT !.pc = "list"]
    PROVE  LocalsOK(fill)' /\ ScanOK(fill)'
BY FS_EmptySet, ColumnConstants DEF IdleFill, LocalsOK, ScanOK, Scanning

\* A step of others.
LEMMA OthersStep ==
    ASSUME ColumnsInv, TypeOK', clock' >= clock, mark' = mark \/ mark'.pos = Start, mark'.fp = mark.fp,
           RequestedFillHappens', CellTellsOfValue',
           \A r \in Rows : r \in Live' /\ row'[r].at < Horizon => Calm(r),
           \A w \in Writers : WriterOK(w)', \A r \in Rows : ColumnRowOK(r)',
           \A r \in past'.sure : SureOK(r)',
           \A r \in Rows : /\ row[r].life # "new" => row'[r].life # "new"
                           /\ row[r].life = "gone" => row'[r].life = "gone",
           \/ fill' = fill
           \/ fill' = IdleFill
           \/ fill' = [IdleFill EXCEPT !.pc = "list"]
    PROVE  ColumnsInv'
BY LocalsKept, ScanKept, ColumnStep, EmptyRun DEF ColumnsInv, TypeOK, LocalsOK, ScanOK, Old,
   Waiting

LEMMA CalmRow ==
    ASSUME NEW r \in Rows, r \in Live, row'[r].at = row[r].at, row'[r].src = row[r].src,
           mark'.fp = mark.fp,
           cell'[r] = cell[r] \/ cell'[r].status \in {"manual", "error"} \/ past'.dropped[r] # "no",
           past'.dropped[r] = past.dropped[r] \/ past'.dropped[r] # "no"
    PROVE  Calm(r)
BY DEF Calm, Excused, Told

\* A row the step does not touch.
LEMMA CalmSame ==
    ASSUME NEW r \in Rows, r \in Live', row'[r] = row[r], mark'.fp = mark.fp, cell'[r] = cell[r],
           past'.dropped[r] = past.dropped[r]
    PROVE  Calm(r)
BY DEF Calm, Excused, Told, Live

\* A write that is under way is young.
LEMMA WritersAreYoung ==
    ASSUME TypeOK, NEW w \in Writers, WriterOK(w), Busy(w)
    PROVE  /\ writer[w].at >= Horizon
           /\ Recording(w) /\ writer[w].row \in Live => row[writer[w].row].at >= Horizon
BY RowFacts, ColumnConstants DEF WriterOK, Horizon

-----------------------------------------------------------------------------
(* Writes of rows, asks and the purge                                        *)

LEMMA TickKeeps ==
    ASSUME ColumnsInv, Tick
    PROVE  ColumnsInv'
<1>1. /\ clock' = clock + 1 /\ clock < MaxClock
      /\ \A w \in Writers : Busy(w) => clock + 1 - writer[w].at <= WriteLimit
      /\ UNCHANGED <<row, cell, mark, writer, fill, runner, past, question, asker>>
  BY DEF Tick, Advance, world
<1>2. TypeOK /\ clock \in Int /\ clock' \in 0 .. MaxClock /\ clock' > clock
  BY <1>1, RowFacts DEF ColumnsInv
<1>3. TypeOK'
  BY <1>1, <1>2 DEF TypeOK
<1>4. RequestedFillHappens' /\ CellTellsOfValue'
  BY <1>1 DEF ColumnsInv, RequestedFillHappens, CellTellsOfValue, Live
<1>5. \A r \in Rows : r \in Live' => Calm(r)
  BY <1>1, CalmSame
<1>6. ASSUME NEW w \in Writers
      PROVE  WriterOK(w)'
  BY <1>2, RowFacts, <1>1 DEF ColumnsInv, WriterOK, Busy, Recording, Live
<1>7. (\A r \in Rows : ColumnRowOK(r)') /\ (\A r \in past'.sure : SureOK(r)')
  BY <1>1 DEF ColumnsInv, ColumnRowOK, SureOK, Recording, Live
<1>8. QED
  BY <1>1, <1>2, <1>3, <1>4, <1>5, <1>6, <1>7, OthersStep

LEMMA BeginWriteKeeps ==
    ASSUME ColumnsInv, NEW w \in Writers, BeginWrite(w)
    PROVE  ColumnsInv'
<1>1. PICK r \in Rows, s \in Sources, v \in {"none", "person"}, new \in BOOLEAN :
         /\ IF new
            THEN row[r].life = "new" /\ \A u \in Writers : Busy(u) => writer[u].row # r
            ELSE row[r].life = "live"
         /\ writer' = [writer EXCEPT ![w] = [pc |-> "open", row |-> r, at |-> clock + 1,
                                             new |-> new, src |-> s, val |-> v]]
  BY DEF BeginWrite, Goto
<1>2. /\ clock' = clock + 1 /\ clock < MaxClock /\ ~Busy(w)
      /\ \A u \in Writers : Busy(u) => clock + 1 - writer[u].at <= WriteLimit
      /\ UNCHANGED <<row, cell, mark, fill, runner, past, question, asker>>
  BY DEF BeginWrite, Advance, WriterStep, world
<1>3. TypeOK /\ clock \in Int /\ clock' \in 0 .. MaxClock /\ clock' > clock
  BY <1>2, RowFacts DEF ColumnsInv
<1> DEFINE me == [pc |-> "open", row |-> r, at |-> clock + 1, new |-> new, src |-> s, val |-> v]
<1>4. /\ me \in Writer /\ me.pc = "open" /\ me.row = r /\ me.at = clock' /\ me.new = new /\ me.src = s
  BY <1>2, <1>3 DEF Writer, Values
<1>5. /\ writer'[w] = me /\ \A u \in Writers \ {w} : writer'[u] = writer[u]
      /\ writer' \in [Writers -> Writer]
  BY <1>1, <1>3, <1>4 DEF TypeOK
<1> HIDE DEF me
<1>6. TypeOK'
  BY <1>2, <1>3, <1>5 DEF TypeOK
<1>7. RequestedFillHappens' /\ CellTellsOfValue'
  BY <1>2 DEF ColumnsInv, RequestedFillHappens, CellTellsOfValue, Live
<1>8. \A x \in Rows : x \in Live' => Calm(x)
  BY <1>2, CalmSame
<1>9. ASSUME NEW u \in Writers
      PROVE  WriterOK(u)'
  <2>1. CASE u = w
    <3>1. writer'[u].pc = "open" /\ writer'[u].row = r /\ writer'[u].at = clock' /\ writer'[u].new = new /\ writer'[u].src \in Sources
      BY <1>4, <1>5, <2>1
    <3>2. clock' <= clock' /\ clock' - clock' <= WriteLimit
      <4>1. PICK now \in Int : now = clock'
        BY <1>3
      <4>2. now <= now /\ now - now <= WriteLimit
        BY ColumnConstants
      <4>3. QED
        BY <4>1, <4>2
    <3>3. IF new
          THEN /\ row'[r].life = "new"
               /\ \A x \in Writers \ {u} : Busy(x)' => writer'[x].row # r
          ELSE row'[r].life # "new"
      BY <1>1, <1>2, <1>5, <2>1 DEF Busy
    <3>4. QED
      BY <3>1, <3>2, <3>3 DEF WriterOK, Recording
  <2>2. CASE u # w
    <3>1. WriterOK(u) /\ writer[u].at \in Int /\ writer'[u] = writer[u]
      BY <1>3, <1>5, <2>2, RowFacts DEF ColumnsInv
    <3>2. Busy(u)' => writer'[u].at <= clock' /\ clock' - writer'[u].at <= WriteLimit
      BY <1>2, <1>3, <3>1 DEF WriterOK, Busy
    <3>3. ASSUME writer[u].pc = "open", writer[u].new, NEW x \in Writers \ {u}, Busy(x)'
          PROVE  writer'[x].row # writer[u].row
      BY <3>1, <3>3, <1>1, <1>4, <1>5 DEF WriterOK, Busy
    <3>4. QED
      BY <1>2, <3>1, <3>2, <3>3 DEF WriterOK, Recording, Live
  <2>3. QED
    BY <2>1, <2>2
<1>10. \A x \in Rows : ColumnRowOK(x)'
  BY <1>2 DEF ColumnsInv, ColumnRowOK, Live
<1>11. ASSUME NEW x \in past'.sure
       PROVE  SureOK(x)'
  BY <1>2, <1>4, <1>5 DEF ColumnsInv, SureOK, Recording, Live
<1>12. QED
  BY <1>2, <1>3, <1>6, <1>7, <1>8, <1>9, <1>10, <1>11, OthersStep

\* A write that the step leaves where it is.
LEMMA WriterLeft ==
    ASSUME TypeOK, NEW u \in Writers, WriterOK(u), writer'[u] = writer[u],
           clock' \in Int, clock' >= clock,
           Busy(u) => clock' - writer[u].at <= WriteLimit,
           row[writer[u].row].life # "new" => row'[writer[u].row].life # "new",
           writer[u].pc = "open" /\ writer[u].new =>
              /\ row'[writer[u].row].life = row[writer[u].row].life
              /\ \A x \in Writers \ {u} : Busy(x)' => Busy(x) /\ writer'[x].row = writer[x].row,
           Recording(u) /\ writer[u].row \in Live' =>
              \/ writer[u].row \in Live /\ row'[writer[u].row].at = row[writer[u].row].at
              \/ row'[writer[u].row].at >= writer[u].at - Slack
    PROVE  WriterOK(u)'
BY RowFacts DEF WriterOK, Busy, Recording

LEMMA CommitWriteKeeps ==
    ASSUME ColumnsInv, NEW w \in Writers, CommitWrite(w)
    PROVE  ColumnsInv'
<1>1. TypeOK /\ WriterOK(w)
  BY DEF ColumnsInv
<1>2. PICK me \in Writer : me = writer[w]
  BY <1>1, RowFacts
<1>3. PICK r \in Rows : r = me.row
  BY <1>1, <1>2, RowFacts
<1>4. /\ me.pc = "open" /\ me.src \in Sources /\ me.at \in 0 .. MaxClock
      /\ IF me.new THEN row[r].life = "new" ELSE row[r].life # "new"
      /\ me.at >= Horizon /\ Busy(w) /\ ~Recording(w)
  BY <1>1, <1>2, <1>3, WritersAreYoung, RowFacts DEF CommitWrite, WriterOK, Busy, Recording
<1>5. UNCHANGED <<clock, cell, mark, fill, runner, question, asker>>
  BY DEF CommitWrite, WriterStep, world
<1>6. clock \in Int /\ clock' \in 0 .. MaxClock /\ clock' >= clock
  BY <1>1, <1>5, RowFacts
<1>7. CASE /\ ~me.new /\ row[r].life = "gone"
           /\ Goto(w, IdleWriter) /\ UNCHANGED <<row, past>>
  <2>1. /\ writer'[w] = IdleWriter /\ \A u \in Writers \ {w} : writer'[u] = writer[u]
        /\ writer' \in [Writers -> Writer] /\ IdleWriter.pc = "idle"
    BY <1>1, <1>7, ColumnConstants DEF Goto, TypeOK, IdleWriter, Writer, Rows, Values
  <2>2. TypeOK'
    BY <1>1, <1>5, <1>7, <2>1 DEF TypeOK
  <2>3. RequestedFillHappens' /\ CellTellsOfValue'
    BY <1>5, <1>7 DEF ColumnsInv, RequestedFillHappens, CellTellsOfValue, Live
  <2>4. \A x \in Rows : x \in Live' => Calm(x)
    BY <1>5, <1>7, CalmSame
  <2>5. \A u \in Writers : WriterOK(u)'
    BY <1>5, <1>7, <2>1 DEF ColumnsInv, WriterOK, Busy, Recording, Live
  <2>6. (\A x \in Rows : ColumnRowOK(x)') /\ (\A x \in past'.sure : SureOK(x)')
    BY <1>5, <1>7, <2>1 DEF ColumnsInv, ColumnRowOK, SureOK, Recording, Live
  <2>7. QED
    BY <1>5, <1>6, <1>7, <2>2, <2>3, <2>4, <2>5, <2>6, OthersStep
<1>8. ASSUME NEW val \in IF me.new THEN {me.val} ELSE {me.val, row[r].val},
             ~(~me.new /\ row[r].life = "gone"),
             row' = [row EXCEPT ![r] = [life |-> "live", at |-> me.at, src |-> me.src, val |-> val]],
             IF val = row[r].val
             THEN Goto(w, IdleWriter) /\ UNCHANGED past
             ELSE /\ Goto(w, [IdleWriter EXCEPT !.pc = IF val = "none" THEN "prior" ELSE "mark",
                                                !.row = r, !.at = me.at])
                  /\ past' = [past EXCEPT !.sure = @ \ {r}, !.fresh = @ \ {r}]
      PROVE  ColumnsInv'
  <2> DEFINE rec == [life |-> "live", at |-> me.at, src |-> me.src, val |-> val]
             you == IF val = row[r].val THEN IdleWriter
                    ELSE [IdleWriter EXCEPT !.pc = IF val = "none" THEN "prior" ELSE "mark",
                                            !.row = r, !.at = me.at]
  <2>1. val \in Values
    BY <1>1, <1>8, RowFacts DEF Writer
  <2>2. /\ rec \in Row /\ rec.life = "live" /\ rec.at = me.at /\ rec.src = me.src /\ rec.val = val
    BY <1>4, <2>1 DEF Row
  <2>3. /\ you \in Writer /\ you.pc \in {"idle", "prior", "mark"}
        /\ you.pc # "idle" => you.row = r /\ you.at = me.at /\ val # row[r].val
    <3>1. IdleWriter \in Writer /\ IdleWriter.pc = "idle"
      BY ColumnConstants DEF IdleWriter, Writer, Rows, Values
    <3>2. CASE val = row[r].val
      BY <3>1, <3>2
    <3>3. CASE val # row[r].val
      <4>1. PICK pc \in {"prior", "mark"} : pc = IF val = "none" THEN "prior" ELSE "mark"
        OBVIOUS
      <4>2. you = [pc |-> pc, row |-> r, at |-> me.at, new |-> FALSE, src |-> "none", val |-> "none"]
        BY <3>3, <4>1 DEF IdleWriter
      <4> HIDE DEF you
      <4>3. you.pc = pc /\ you.row = r /\ you.at = me.at
        BY <4>2
      <4>4. /\ pc \in {"idle", "open", "prior", "mark", "delete"} /\ r \in Rows /\ me.at \in 0 .. MaxClock
            /\ FALSE \in BOOLEAN /\ "none" \in Sources \cup {"none"} /\ "none" \in Values
        BY <1>4 DEF Values
      <4>5. you \in Writer
        BY <4>2, <4>4 DEF Writer
      <4>6. QED
        BY <3>3, <4>3, <4>5
    <3>4. QED
      BY <3>2, <3>3
  <2>4. writer' = [writer EXCEPT ![w] = you]
    BY <1>8 DEF Goto
  <2> HIDE DEF rec, you
  <2>5. /\ writer'[w] = you /\ \A u \in Writers \ {w} : writer'[u] = writer[u]
        /\ writer' \in [Writers -> Writer]
    BY <1>1, <2>3, <2>4 DEF TypeOK
  <2>6. /\ row'[r] = rec /\ \A x \in Rows \ {r} : row'[x] = row[x]
        /\ row' \in [Rows -> Row]
    BY <1>1, <1>8, <2>2 DEF TypeOK, rec
  <2>7. /\ past' \in Past /\ past'.dropped = past.dropped /\ past'.wanted = past.wanted
        /\ past'.sure \subseteq past.sure /\ past'.fresh \subseteq past.fresh
        /\ val # row[r].val => r \notin past'.sure /\ r \notin past'.fresh
    <3>1. PICK p \in Past : p = past
      BY <1>1 DEF TypeOK
    <3>2. CASE val = row[r].val
      BY <1>8, <3>1, <3>2
    <3>3. CASE val # row[r].val
      <4>1. past' = [p EXCEPT !.sure = @ \ {r}, !.fresh = @ \ {r}]
        BY <1>8, <3>1, <3>3
      <4>2. past' = [dropped |-> p.dropped, sure |-> p.sure \ {r}, fresh |-> p.fresh \ {r}, wanted |-> p.wanted]
        BY <4>1 DEF Past
      <4>3. /\ past'.dropped = p.dropped /\ past'.sure = p.sure \ {r}
            /\ past'.fresh = p.fresh \ {r} /\ past'.wanted = p.wanted
        BY <4>2
      <4>4. past' \in Past
        BY <4>2 DEF Past
      <4>5. QED
        BY <3>1, <4>3, <4>4
    <3>4. QED
      BY <3>2, <3>3
  <2>8. TypeOK'
    BY <1>1, <1>5, <2>5, <2>6, <2>7 DEF TypeOK
  <2>9. RequestedFillHappens'
    BY <1>5, <2>7 DEF ColumnsInv, RequestedFillHappens
  <2>10. row[r].life \in {"new", "live"} /\ (row[r].life = "new" => me.new)
    BY <1>1, <1>4, <1>8, RowFacts
  <2>11. ASSUME NEW x \in past'.fresh, x \in Live'
         PROVE  /\ cell'[x].status = "auto" => row'[x].val = "model"
                /\ cell'[x].status = "review" => row'[x].val = "none"
    BY <2>7, <2>11, <2>2, <2>6, <2>10, <1>5 DEF Live, ColumnsInv, ColumnRowOK,
       CellTellsOfValue
  <2>12. CellTellsOfValue'
    BY <2>11 DEF CellTellsOfValue
  <2>13. ASSUME NEW x \in Rows, x \in Live', row'[x].at < Horizon
         PROVE  Calm(x)
    <3>1. x # r
      BY <1>1, <1>4, <2>2, <2>6, <2>13, RowFacts, ColumnConstants DEF Horizon
    <3>2. QED
      BY <1>5, <2>6, <2>7, <2>13, <3>1, CalmSame
  <2>14. \A x \in Rows : /\ row[x].life # "new" => row'[x].life # "new"
                         /\ row[x].life = "gone" => row'[x].life = "gone"
    BY <2>2, <2>6, <2>10
  <2>15. ASSUME NEW u \in Writers
         PROVE  WriterOK(u)'
    <3>1. CASE u = w
      <4>1. writer'[u] = you /\ row'[r].at = me.at /\ row'[r].life = "live"
        BY <2>2, <2>5, <2>6, <3>1
      <4>2. me.at - Slack <= me.at /\ me.at <= clock /\ clock - me.at <= WriteLimit
        BY <1>1, <1>2, <1>4, <1>6, ColumnConstants DEF WriterOK
      <4>3. QED
        BY <1>5, <2>3, <4>1, <4>2 DEF WriterOK, Busy, Recording
    <3>2. CASE u # w
      <4>1. WriterOK(u) /\ writer'[u] = writer[u] /\ writer[u].row \in Rows /\ writer[u].at \in Int
        BY <1>1, <2>5, <3>2, RowFacts DEF ColumnsInv
      <4>2. Busy(u) => clock' - writer[u].at <= WriteLimit /\ writer[u].at <= clock
        BY <1>5, <4>1 DEF WriterOK
      <4>3. writer[u].pc = "open" /\ writer[u].new =>
              /\ writer[u].row # r
              /\ \A x \in Writers \ {u} : Busy(x)' => Busy(x) /\ writer'[x].row = writer[x].row
        <5>1. SUFFICES ASSUME writer[u].pc = "open", writer[u].new
                       PROVE  /\ writer[u].row # r
                              /\ \A x \in Writers \ {u} : Busy(x)' => Busy(x) /\ writer'[x].row = writer[x].row
          OBVIOUS
        <5>2. writer[u].row # r
          BY <1>2, <1>3, <1>4, <3>2, <4>1, <5>1 DEF WriterOK
        <5>3. QED
          BY <1>2, <1>3, <1>4, <2>3, <2>5, <5>2 DEF Busy
      <4>4. Recording(u) /\ writer[u].row \in Live' =>
              \/ writer[u].row \in Live /\ row'[writer[u].row].at = row[writer[u].row].at
              \/ row'[writer[u].row].at >= writer[u].at - Slack
        <5>1. CASE writer[u].row = r
          <6>1. Slack = WriteLimit /\ WriteLimit \in Int
            BY <3>2, ColumnConstants
          <6>2. clock - me.at <= WriteLimit /\ me.at \in Int
            BY <1>1, <1>2, <1>4, ColumnConstants DEF WriterOK
          <6>3. row'[writer[u].row].at = me.at
            BY <2>2, <2>6, <5>1
          <6>4. Recording(u) => writer[u].at <= clock
            BY <4>2 DEF Recording, Busy
          <6>5. Recording(u) => me.at >= writer[u].at - Slack
            BY <1>6, <4>1, <6>1, <6>2, <6>4
          <6>6. QED
            BY <6>3, <6>5
        <5>2. CASE writer[u].row # r
          BY <2>6, <4>1, <5>2 DEF Live
        <5>3. QED
          BY <5>1, <5>2
      <4>5. writer[u].pc = "open" /\ writer[u].new => row'[writer[u].row].life = row[writer[u].row].life
        BY <2>6, <4>1, <4>3
      <4>6. QED
        BY <1>1, <1>5, <1>6, <2>14, <4>1, <4>2, <4>3, <4>4, <4>5, WriterLeft
    <3>3. QED
      BY <3>1, <3>2
  <2>16. ASSUME NEW x \in Rows
         PROVE  ColumnRowOK(x)'
    BY <1>4, <2>2, <2>6, <1>5, <2>7 DEF ColumnsInv, ColumnRowOK, Live
  <2>17. ASSUME NEW x \in past'.sure
         PROVE  SureOK(x)'
    BY <2>7, <2>2, <2>6, <2>3, <2>5, <1>5 DEF ColumnsInv, Past, SureOK, Live, Recording
  <2>18. QED
    BY <1>5, <1>6, <2>8, <2>9, <2>12, <2>13, <2>14, <2>15, <2>16, <2>17, OthersStep
<1>9. QED
  BY <1>2, <1>3, <1>7, <1>8 DEF CommitWrite

\* A step that only moves one write on, and may change cells and the record of what is sure.
LEMMA WriterMoves ==
    ASSUME ColumnsInv, NEW w \in Writers, NEW you \in Writer, writer' = [writer EXCEPT ![w] = you],
           you.pc # "open", you.pc # "idle" => Recording(w) /\ you.row = writer[w].row /\ you.at = writer[w].at,
           UNCHANGED <<clock, row, mark, fill, runner, question, asker>>,
           past' \in Past, past'.dropped = past.dropped, past'.fresh = past.fresh, past'.wanted = past.wanted,
           cell' \in [Rows -> Cell],
           \A r \in Rows : r \in Live /\ row[r].at < Horizon => cell'[r] = cell[r] \/ cell'[r].status = "manual",
           \A r \in Rows : \/ cell'[r] = cell[r]
                           \/ cell'[r].status \in {"none", "manual"} /\ (cell'[r].status # "none" => row[r].life # "new"),
           \A r \in past'.sure :
              /\ r \in Live /\ row[r].val = "person" /\ cell'[r].status = "manual"
              /\ \A u \in Writers \ {w} : Recording(u) => writer[u].row # r
              /\ you.pc # "idle" => you.row # r
              /\ fill.pc = "write" => r \notin fill.pending
    PROVE  ColumnsInv'
<1>1. TypeOK /\ WriterOK(w) /\ clock \in Int /\ clock' \in 0 .. MaxClock /\ clock' >= clock
  BY RowFacts DEF ColumnsInv
<1>2. /\ writer'[w] = you /\ \A u \in Writers \ {w} : writer'[u] = writer[u]
      /\ writer' \in [Writers -> Writer]
  BY <1>1 DEF TypeOK
<1>3. TypeOK'
  BY <1>1, <1>2 DEF TypeOK
<1>4. RequestedFillHappens' /\ CellTellsOfValue'
  BY DEF ColumnsInv, RequestedFillHappens, CellTellsOfValue, Live
<1>5. ASSUME NEW r \in Rows, r \in Live', row'[r].at < Horizon
      PROVE  Calm(r)
  BY <1>5, CalmRow DEF Live
<1>6. ASSUME NEW u \in Writers
      PROVE  WriterOK(u)'
  BY <1>1, <1>2, WriterLeft DEF Recording, Busy, Writer, WriterOK, Live, ColumnsInv
<1>7. \A r \in Rows : ColumnRowOK(r)'
  BY DEF ColumnsInv, ColumnRowOK, Live
<1>8. ASSUME NEW r \in past'.sure
      PROVE  SureOK(r)'
  BY <1>2 DEF Recording, SureOK, Live
<1>9. QED
  BY <1>1, <1>3, <1>4, <1>5, <1>6, <1>7, <1>8, OthersStep

LEMMA IdleWriterType == IdleWriter \in Writer /\ IdleWriter.pc = "idle"
BY ColumnConstants DEF IdleWriter, Writer, Rows, Values

LEMMA WriterStops ==
    ASSUME ColumnsInv, NEW w \in Writers, writer' = [writer EXCEPT ![w] = IdleWriter],
           UNCHANGED <<clock, row, mark, fill, runner, question, asker>>,
           past' \in Past, past'.dropped = past.dropped, past'.fresh = past.fresh, past'.wanted = past.wanted,
           cell' \in [Rows -> Cell],
           \A r \in Rows : r \in Live /\ row[r].at < Horizon => cell'[r] = cell[r] \/ cell'[r].status = "manual",
           \A r \in Rows : \/ cell'[r] = cell[r]
                           \/ cell'[r].status = "none"
                           \/ cell'[r].status = "manual" /\ row[r].life # "new",
           \A r \in past'.sure :
              /\ r \in Live /\ row[r].val = "person" /\ cell'[r].status = "manual"
              /\ \A u \in Writers \ {w} : Recording(u) => writer[u].row # r
              /\ fill.pc = "write" => r \notin fill.pending
    PROVE  ColumnsInv'
<1>1. IdleWriter.pc # "open" /\ IdleWriter \in Writer /\ ~(IdleWriter.pc # "idle")
  BY IdleWriterType
<1>2. IdleWriter.pc # "idle" => Recording(w) /\ IdleWriter.row = writer[w].row /\ IdleWriter.at = writer[w].at
  BY <1>1
<1>3. \A r \in Rows : \/ cell'[r] = cell[r]
                      \/ cell'[r].status \in {"none", "manual"} /\ (cell'[r].status # "none" => row[r].life # "new")
  OBVIOUS
<1>4. \A r \in past'.sure :
         /\ r \in Live /\ row[r].val = "person" /\ cell'[r].status = "manual"
         /\ \A u \in Writers \ {w} : Recording(u) => writer[u].row # r
         /\ IdleWriter.pc # "idle" => IdleWriter.row # r
         /\ fill.pc = "write" => r \notin fill.pending
  BY <1>1
<1>5. QED
  BY <1>1, <1>2, <1>3, <1>4, WriterMoves

LEMMA ReadPriorKeeps ==
    ASSUME ColumnsInv, NEW w \in Writers, ReadPrior(w)
    PROVE  ColumnsInv'
<1>1. TypeOK /\ past \in Past /\ writer[w] \in Writer /\ cell \in [Rows -> Cell]
  BY RowFacts DEF ColumnsInv, TypeOK
<1>2. PICK me \in Writer : me = writer[w]
  BY <1>1
<1>3. /\ me.pc = "prior" /\ Recording(w)
      /\ UNCHANGED <<clock, row, cell, mark, fill, runner, question, asker, past>>
      /\ writer' = [writer EXCEPT ![w] = IF cell[me.row].status = "none" THEN IdleWriter
                                         ELSE [me EXCEPT !.pc = "delete"]]
  BY <1>2 DEF ReadPrior, Goto, WriterStep, world, Recording
<1>4. [me EXCEPT !.pc = "delete"] \in Writer
  BY DEF Writer
<1>5. /\ [me EXCEPT !.pc = "delete"].pc = "delete" /\ [me EXCEPT !.pc = "delete"].row = me.row
      /\ [me EXCEPT !.pc = "delete"].at = me.at
  BY DEF Writer
<1>6. PICK you \in Writer : /\ writer' = [writer EXCEPT ![w] = you]
                            /\ you.pc # "open" /\ (you.pc # "idle" => you.row = me.row /\ you.at = me.at)
  BY <1>3, <1>4, <1>5, IdleWriterType
<1>7. \A r \in past'.sure :
              /\ r \in Live /\ row[r].val = "person" /\ cell'[r].status = "manual"
              /\ \A u \in Writers : Recording(u) => writer[u].row # r
              /\ fill.pc = "write" => r \notin fill.pending
  BY <1>3 DEF ColumnsInv, SureOK
<1>8. \A r \in past'.sure : you.pc # "idle" => you.row # r
  BY <1>2, <1>3, <1>6, <1>7
<1>9. you.pc # "idle" => Recording(w) /\ you.row = writer[w].row /\ you.at = writer[w].at
  BY <1>2, <1>3, <1>6
<1>10. \A r \in past'.sure :
              /\ r \in Live /\ row[r].val = "person" /\ cell'[r].status = "manual"
              /\ \A u \in Writers \ {w} : Recording(u) => writer[u].row # r
              /\ you.pc # "idle" => you.row # r
              /\ fill.pc = "write" => r \notin fill.pending
  BY <1>7, <1>8
<1>11. /\ UNCHANGED <<clock, row, mark, fill, runner, question, asker>>
       /\ past' \in Past /\ past'.dropped = past.dropped /\ past'.fresh = past.fresh /\ past'.wanted = past.wanted
       /\ cell' \in [Rows -> Cell]
  BY <1>1, <1>3
<1>12. /\ \A r \in Rows : r \in Live /\ row[r].at < Horizon => cell'[r] = cell[r] \/ cell'[r].status = "manual"
       /\ \A r \in Rows :
             \/ cell'[r] = cell[r]
             \/ cell'[r].status \in {"none", "manual"} /\ (cell'[r].status # "none" => row[r].life # "new")
  BY <1>3
<1>13. QED
  BY <1>6, <1>9, <1>10, <1>11, <1>12, WriterMoves

LEMMA WriteFailsKeeps ==
    ASSUME ColumnsInv, NEW w \in Writers, WriteFails(w)
    PROVE  ColumnsInv'
<1>1. TypeOK /\ past \in Past /\ cell \in [Rows -> Cell]
  BY DEF ColumnsInv, TypeOK
<1>2. /\ UNCHANGED <<clock, row, cell, mark, fill, runner, question, asker, past>>
      /\ writer' = [writer EXCEPT ![w] = IdleWriter]
  BY DEF WriteFails, Goto, WriterStep, world
<1>3. \A r \in past'.sure :
              /\ r \in Live /\ row[r].val = "person" /\ cell'[r].status = "manual"
              /\ \A u \in Writers \ {w} : Recording(u) => writer[u].row # r
              /\ fill.pc = "write" => r \notin fill.pending
  BY <1>2 DEF ColumnsInv, SureOK
<1>4. /\ past' \in Past /\ past'.dropped = past.dropped /\ past'.fresh = past.fresh
      /\ past'.wanted = past.wanted /\ cell' \in [Rows -> Cell]
      /\ \A r \in Rows : cell'[r] = cell[r]
  BY <1>1, <1>2
<1>5. QED
  BY <1>2, <1>3, <1>4, WriterStops

LEMMA CellTypes ==
    /\ NoCell \in Cell /\ NoCell.status = "none"
    /\ [NoCell EXCEPT !.status = "manual"] \in Cell
    /\ [NoCell EXCEPT !.status = "manual"].status = "manual"
BY DEF NoHash, Hash, NoCell, Cell

LEMMA MarkManualKeeps ==
    ASSUME ColumnsInv, NEW w \in Writers, MarkManual(w)
    PROVE  ColumnsInv'
<1>1. TypeOK /\ past \in Past /\ cell \in [Rows -> Cell] /\ writer[w].row \in Rows /\ WriterOK(w)
  BY RowFacts DEF ColumnsInv, TypeOK
<1>2. PICK r \in Rows : r = writer[w].row
  BY <1>1
<1> DEFINE sets == /\ r \in Live /\ row[r].val = "person"
                   /\ \A u \in Writers \ {w} : Recording(u) => writer[u].row # r
                   /\ ~(fill.pc = "write" /\ r \in fill.pending)
           manual == [NoCell EXCEPT !.status = "manual"]
<1>3. /\ Recording(w) /\ writer' = [writer EXCEPT ![w] = IdleWriter]
      /\ cell' = [cell EXCEPT ![r] = manual]
      /\ past' = [past EXCEPT !.sure = IF sets THEN @ \cup {r} ELSE @]
      /\ UNCHANGED <<clock, row, mark, fill, runner, question, asker>>
  BY <1>2 DEF MarkManual, Goto, WriterStep, world, Recording
<1>4. manual \in Cell /\ manual.status = "manual"
  BY CellTypes
<1> HIDE DEF manual, sets
<1>5. /\ cell'[r] = manual /\ \A x \in Rows \ {r} : cell'[x] = cell[x]
      /\ cell' \in [Rows -> Cell]
  BY <1>1, <1>3, <1>4
<1>6. /\ past' \in Past /\ past'.dropped = past.dropped /\ past'.fresh = past.fresh
      /\ past'.wanted = past.wanted /\ past'.sure = IF sets THEN past.sure \cup {r} ELSE past.sure
  <2>1. PICK p \in Past : p = past
    BY <1>1
  <2> DEFINE new == IF sets THEN p.sure \cup {r} ELSE p.sure
  <2>2. past' = [dropped |-> p.dropped, sure |-> new, fresh |-> p.fresh, wanted |-> p.wanted]
    BY <1>3, <2>1 DEF Past
  <2>3. new \subseteq Rows
    BY DEF Past
  <2>4. new = IF sets THEN past.sure \cup {r} ELSE past.sure
    BY <2>1
  <2> HIDE DEF new
  <2>5. past' \in Past
    BY <2>2, <2>3 DEF Past
  <2>6. QED
    BY <2>1, <2>2, <2>4, <2>5
<1>7. row[r].life # "new"
  BY <1>1, <1>2, <1>3 DEF WriterOK
<1>8. ASSUME NEW x \in past'.sure
      PROVE  /\ x \in Live /\ row[x].val = "person" /\ cell'[x].status = "manual"
             /\ \A u \in Writers \ {w} : Recording(u) => writer[u].row # x
             /\ fill.pc = "write" => x \notin fill.pending
  BY <1>4, <1>5, <1>6 DEF ColumnsInv, SureOK, Live, sets
<1>9. \A x \in Rows : cell'[x] = cell[x] \/ (cell'[x].status = "manual" /\ row[x].life # "new")
  BY <1>4, <1>5, <1>7
<1>10. QED
  BY <1>3, <1>5, <1>6, <1>8, <1>9, WriterStops

LEMMA HandBackKeeps ==
    ASSUME ColumnsInv, NEW w \in Writers, HandBack(w)
    PROVE  ColumnsInv'
<1>1. TypeOK /\ past \in Past /\ cell \in [Rows -> Cell] /\ writer[w].row \in Rows /\ WriterOK(w)
  BY RowFacts DEF ColumnsInv, TypeOK
<1>2. PICK r \in Rows : r = writer[w].row
  BY <1>1
<1>3. /\ Recording(w) /\ Busy(w) /\ writer' = [writer EXCEPT ![w] = IdleWriter]
      /\ cell' = [cell EXCEPT ![r] = NoCell]
      /\ UNCHANGED <<clock, row, mark, fill, runner, question, asker, past>>
  BY <1>2 DEF HandBack, Goto, WriterStep, world, Recording, Busy
<1>4. /\ cell'[r] = NoCell /\ \A x \in Rows \ {r} : cell'[x] = cell[x]
      /\ cell' \in [Rows -> Cell]
  BY <1>1, <1>3, CellTypes
<1>5. ASSUME NEW x \in Rows, x \in Live, row[x].at < Horizon
      PROVE  cell'[x] = cell[x]
  <2>1. CASE x = r
    BY <1>1, <1>2, <1>3, <1>5, <2>1, WritersAreYoung, RowFacts, ColumnConstants DEF Horizon
  <2>2. QED
    BY <1>4, <2>1
<1>6. \A x \in Rows : cell'[x] = cell[x] \/ cell'[x].status = "none"
  BY <1>4, CellTypes
<1>7. ASSUME NEW x \in past'.sure
      PROVE  /\ x \in Live /\ row[x].val = "person" /\ cell'[x].status = "manual"
             /\ \A u \in Writers \ {w} : Recording(u) => writer[u].row # x
             /\ fill.pc = "write" => x \notin fill.pending
  BY <1>3, <1>2, <1>4 DEF ColumnsInv, SureOK, Live
<1>8. past' \in Past /\ past'.dropped = past.dropped /\ past'.fresh = past.fresh /\ past'.wanted = past.wanted
  BY <1>1, <1>3
<1>9. \A x \in Rows : x \in Live /\ row[x].at < Horizon => cell'[x] = cell[x] \/ cell'[x].status = "manual"
  BY <1>5
<1>10. \A x \in Rows : \/ cell'[x] = cell[x]
                       \/ cell'[x].status = "none"
                       \/ cell'[x].status = "manual" /\ row[x].life # "new"
  BY <1>6
<1>11. QED
  BY <1>3, <1>4, <1>7, <1>8, <1>9, <1>10, WriterStops

\* A step that leaves every write where it is.
LEMMA WritersLeft ==
    ASSUME ColumnsInv, writer' = writer, clock' = clock,
           \A r \in Rows : /\ row[r].life # "new" => row'[r].life # "new"
                           /\ row[r].life = "new" => row'[r].life = "new"
                           /\ r \in Live' => r \in Live /\ row'[r].at = row[r].at
    PROVE  \A w \in Writers : WriterOK(w)'
<1> SUFFICES ASSUME NEW w \in Writers
             PROVE  WriterOK(w)'
  OBVIOUS
<1>1. TypeOK /\ WriterOK(w) /\ writer'[w] = writer[w] /\ writer[w].row \in Rows
  BY RowFacts DEF ColumnsInv
<1>2. clock' \in Int /\ clock' >= clock
  BY <1>1, RowFacts
<1>3. Busy(w) => clock' - writer[w].at <= WriteLimit
  BY <1>1 DEF WriterOK
<1>4. writer[w].pc = "open" /\ writer[w].new =>
         /\ row[writer[w].row].life = "new"
         /\ \A x \in Writers \ {w} : Busy(x)' => Busy(x) /\ writer'[x].row = writer[x].row
  BY <1>1 DEF WriterOK, Busy
<1>5. QED
  BY <1>1, <1>2, <1>3, <1>4, WriterLeft

LEMMA DeleteRowKeeps ==
    ASSUME ColumnsInv, DeleteRow
    PROVE  ColumnsInv'
<1>1. TypeOK /\ past \in Past /\ row \in [Rows -> Row]
  BY DEF ColumnsInv, TypeOK
<1> DEFINE gone == [NewRow EXCEPT !.life = "gone"]
<1>2. PICK r \in Live : row' = [row EXCEPT ![r] = gone]
  BY DEF DeleteRow
<1>3. /\ past' = [past EXCEPT !.sure = @ \cap {x \in Rows : row'[x].life = "live"}]
      /\ UNCHANGED <<clock, cell, writer, mark, fill, runner, question, asker>>
  BY DEF DeleteRow, WriterStep, world
<1>4. gone \in Row /\ gone.life = "gone" /\ r \in Rows /\ row[r].life = "live"
  BY <1>2, ColumnConstants DEF NewRow, Row, Values, Live
<1> HIDE DEF gone
<1>5. /\ row'[r].life = "gone" /\ \A x \in Rows \ {r} : row'[x] = row[x]
      /\ row' \in [Rows -> Row]
  BY <1>1, <1>2, <1>4
<1>6. /\ past' \in Past /\ past'.dropped = past.dropped /\ past'.fresh = past.fresh
      /\ past'.wanted = past.wanted /\ past'.sure = {x \in past.sure : x \in Live'}
  <2>1. PICK p \in Past : p = past
    BY <1>1
  <2> DEFINE new == {x \in p.sure : x \in Live'}
  <2>2. p.sure \cap {x \in Rows : row'[x].life = "live"} = new
    BY DEF Live
  <2>3. past' = [p EXCEPT !.sure = new]
    BY <1>3, <2>1, <2>2
  <2>4. new \subseteq Rows
    BY DEF Past
  <2> HIDE DEF new
  <2>5. past' = [dropped |-> p.dropped, sure |-> new, fresh |-> p.fresh, wanted |-> p.wanted]
    BY <2>3 DEF Past
  <2>6. past' \in Past
    BY <2>4, <2>5 DEF Past
  <2>7. QED
    BY <2>1, <2>5, <2>6 DEF new
<1>7. TypeOK'
  BY <1>1, <1>3, <1>5, <1>6 DEF TypeOK
<1>8. \A x \in Rows : /\ row[x].life # "new" => row'[x].life # "new"
                      /\ row[x].life = "new" => row'[x].life = "new"
                      /\ row[x].life = "gone" => row'[x].life = "gone"
                      /\ x \in Live' => x # r /\ x \in Live /\ row'[x] = row[x]
  BY <1>4, <1>5 DEF Live
<1>9. RequestedFillHappens'
  BY <1>3, <1>6 DEF ColumnsInv, RequestedFillHappens
<1>10. CellTellsOfValue'
  BY <1>3, <1>6, <1>8 DEF ColumnsInv, CellTellsOfValue, Live
<1>11. \A x \in Rows : x \in Live' => Calm(x)
  BY <1>3, <1>6, <1>8, CalmSame
<1>12. \A w \in Writers : WriterOK(w)'
  BY <1>3, <1>8, WritersLeft
<1>13. ASSUME NEW x \in Rows
       PROVE  ColumnRowOK(x)'
  BY <1>3, <1>6, <1>8 DEF ColumnsInv, ColumnRowOK
<1>14. ASSUME NEW x \in past'.sure
       PROVE  SureOK(x)'
  BY <1>6, <1>3, <1>8 DEF ColumnsInv, Live, SureOK, Recording
<1>15. clock' >= clock
  BY <1>1, <1>3, RowFacts
<1>16. QED
  BY <1>3, <1>7, <1>8, <1>9, <1>10, <1>11, <1>12, <1>13, <1>14, <1>15, OthersStep

\* A step that empties cells, and perhaps values, and leaves the times of the rows alone.
LEMMA CellsEmptied ==
    ASSUME ColumnsInv, TypeOK', UNCHANGED <<clock, writer>>,
           mark' = mark \/ mark'.pos = Start, mark'.fp = mark.fp,
           \/ fill' = fill
           \/ fill' = IdleFill
           \/ fill' = [IdleFill EXCEPT !.pc = "list"],
           RequestedFillHappens',
           past'.sure \subseteq past.sure, past'.fresh \subseteq past.fresh,
           \A r \in Rows : row'[r].life = row[r].life /\ row'[r].at = row[r].at /\ row'[r].src = row[r].src,
           \A r \in Rows : row'[r].val = row[r].val \/ (r \notin past'.sure /\ r \notin past'.fresh),
           \A r \in Rows : \/ cell'[r] = cell[r]
                           \/ /\ cell'[r].status = "none" /\ r \notin past'.sure
                              /\ r \in Live => past'.dropped[r] # "no",
           \A r \in Rows : past'.dropped[r] = past.dropped[r] \/ past'.dropped[r] # "no"
    PROVE  ColumnsInv'
<1>1. TypeOK /\ clock' >= clock
  BY RowFacts DEF ColumnsInv
<1>2. \A r \in Rows : r \in Live' <=> r \in Live
  BY DEF Live
<1>3. CellTellsOfValue'
  <2>1. SUFFICES ASSUME NEW r \in past'.fresh, r \in Live'
                 PROVE  /\ cell'[r].status = "auto" => row'[r].val = "model"
                        /\ cell'[r].status = "review" => row'[r].val = "none"
    BY DEF CellTellsOfValue
  <2>2. r \in Rows /\ r \in past.fresh /\ r \in Live /\ row'[r].val = row[r].val
    BY <1>2, <2>1 DEF Live
  <2>3. cell'[r] = cell[r] \/ cell'[r].status = "none"
    BY <2>2
  <2>4. QED
    BY <2>2, <2>3 DEF ColumnsInv, CellTellsOfValue
<1>4. ASSUME NEW r \in Rows, r \in Live'
      PROVE  Calm(r)
  BY <1>2, <1>4, CalmRow
<1>5. \A w \in Writers : WriterOK(w)'
  BY <1>2, WritersLeft
<1>6. ASSUME NEW r \in Rows
      PROVE  ColumnRowOK(r)'
  BY <1>2 DEF ColumnsInv, ColumnRowOK
<1>7. ASSUME NEW r \in past'.sure
      PROVE  SureOK(r)'
  BY <1>2 DEF ColumnsInv, SureOK, Live, IdleFill, Recording
<1>8. \A r \in Rows : /\ row[r].life # "new" => row'[r].life # "new"
                      /\ row[r].life = "gone" => row'[r].life = "gone"
  OBVIOUS
<1>9. QED
  BY <1>1, <1>3, <1>4, <1>5, <1>6, <1>7, <1>8, OthersStep

LEMMA RefillKeeps ==
    ASSUME ColumnsInv, Refill
    PROVE  ColumnsInv'
<1>1. TypeOK /\ past \in Past /\ cell \in [Rows -> Cell] /\ asker \in Asker
  BY DEF ColumnsInv, TypeOK
<1>2. PICK p \in Past : p = past
  BY <1>1
<1> DEFINE new == [r \in Rows |-> IF r \in Cleared THEN "refill" ELSE p.dropped[r]]
<1>3. /\ cell' = [r \in Rows |-> IF r \in Cleared THEN NoCell ELSE cell[r]]
      /\ past' = [past EXCEPT !.dropped = [r \in Rows |-> IF r \in Cleared THEN "refill" ELSE @[r]]]
      /\ asker.count < MaxAsks
      /\ asker' = [pc |-> "reset", refill |-> TRUE, count |-> asker.count + 1]
      /\ UNCHANGED <<clock, row, mark, question, writer, fill, runner>>
  BY DEF Refill
<1>4. new \in [Rows -> {"no", "refill", "asked", "question"}]
  BY DEF Past
<1>5. past' = [p EXCEPT !.dropped = new]
  BY <1>2, <1>3
<1>6. /\ past' = [dropped |-> new, sure |-> p.sure, fresh |-> p.fresh, wanted |-> p.wanted]
      /\ \A r \in Rows : new[r] = IF r \in Cleared THEN "refill" ELSE p.dropped[r]
  BY <1>5 DEF Past
<1> HIDE DEF new
<1>7. /\ past' \in Past /\ past'.dropped = new /\ past'.sure = p.sure /\ past'.fresh = p.fresh
      /\ past'.wanted = p.wanted
  BY <1>4, <1>6 DEF Past
<1>8. asker' \in Asker
  BY <1>1, <1>3, ColumnConstants DEF Asker
<1>9. cell' \in [Rows -> Cell]
  BY <1>1, <1>3, CellTypes
<1>10. TypeOK'
  BY <1>1, <1>3, <1>7, <1>8, <1>9 DEF TypeOK
<1>11. RequestedFillHappens'
  BY <1>2, <1>3, <1>7 DEF ColumnsInv, RequestedFillHappens
<1>12. ASSUME NEW r \in Rows
       PROVE  \/ cell'[r] = cell[r]
              \/ /\ cell'[r].status = "none" /\ r \notin past'.sure
                 /\ r \in Live => past'.dropped[r] # "no"
  BY <1>3, <1>6, <1>7, CellTypes, <1>2 DEF Cleared, ColumnsInv, SureOK
<1>13. \A r \in Rows : past'.dropped[r] = past.dropped[r] \/ past'.dropped[r] # "no"
  BY <1>2, <1>6, <1>7
<1>14. QED
  BY <1>2, <1>3, <1>7, <1>10, <1>11, <1>12, <1>13, CellsEmptied

LEMMA StartIsAPosition == Start \in Position /\ NoHash \in Hash
BY ColumnConstants DEF Start, Pos, Position, NoHash, Hash

LEMMA ResetWatermarkKeeps ==
    ASSUME ColumnsInv, ResetWatermark
    PROVE  ColumnsInv'
BY StartIsAPosition, CellsEmptied DEF ColumnsInv, TypeOK, ResetWatermark, AskerGoes, Mark,
   Asker, RequestedFillHappens

LEMMA AskFailsKeeps ==
    ASSUME ColumnsInv, AskFails
    PROVE  ColumnsInv'
BY CellsEmptied DEF ColumnsInv, TypeOK, AskFails, AskerGoes, Asker, RequestedFillHappens

LEMMA PurgeOrphansKeeps ==
    ASSUME ColumnsInv, PurgeOrphans
    PROVE  ColumnsInv'
BY CellTypes, CellsEmptied DEF ColumnsInv, TypeOK, PurgeOrphans, RequestedFillHappens,
   SureOK

LEMMA ChangeQuestionKeeps ==
    ASSUME ColumnsInv, ChangeQuestion
    PROVE  ColumnsInv'
<1>1. TypeOK /\ past \in Past /\ cell \in [Rows -> Cell] /\ row \in [Rows -> Row] /\ asker \in Asker
  BY DEF ColumnsInv, TypeOK
<1>2. PICK p \in Past : p = past
  BY <1>1
<1>3. PICK q \in Questions, emptied \in SUBSET Live :
         /\ question' = q
         /\ row' = [r \in Rows |-> IF r \in emptied THEN [row[r] EXCEPT !.val = "none"] ELSE row[r]]
         /\ cell' = [r \in Rows |-> IF r \in emptied THEN NoCell ELSE cell[r]]
         /\ past' = [past EXCEPT !.sure = @ \ emptied, !.fresh = @ \ emptied,
                       !.dropped = [r \in Rows |-> IF r \in emptied THEN "question" ELSE @[r]]]
  BY DEF ChangeQuestion
<1>4. /\ asker.count < MaxAsks
      /\ asker' = [pc |-> "request", refill |-> FALSE, count |-> asker.count + 1]
      /\ UNCHANGED <<clock, mark, writer, fill, runner>>
  BY DEF ChangeQuestion
<1> DEFINE new == [r \in Rows |-> IF r \in emptied THEN "question" ELSE p.dropped[r]]
<1>5. new \in [Rows -> {"no", "refill", "asked", "question"}]
  BY DEF Past
<1>6. past' = [p EXCEPT !.sure = @ \ emptied, !.fresh = @ \ emptied, !.dropped = new]
  BY <1>2, <1>3
<1>7. /\ past' = [dropped |-> new, sure |-> p.sure \ emptied, fresh |-> p.fresh \ emptied, wanted |-> p.wanted]
      /\ \A r \in Rows : new[r] = IF r \in emptied THEN "question" ELSE p.dropped[r]
  BY <1>6 DEF Past
<1> HIDE DEF new
<1>8. /\ past' \in Past /\ past'.dropped = new /\ past'.sure = p.sure \ emptied
      /\ past'.fresh = p.fresh \ emptied /\ past'.wanted = p.wanted
  BY <1>5, <1>7 DEF Past
<1>9. asker' \in Asker
  BY <1>1, <1>4, ColumnConstants DEF Asker
<1>10. cell' \in [Rows -> Cell]
  BY <1>1, <1>3, CellTypes
<1>11. ASSUME NEW r \in Rows
       PROVE  /\ row'[r] \in Row /\ row'[r].life = row[r].life /\ row'[r].at = row[r].at /\ row'[r].src = row[r].src
              /\ row'[r].val = row[r].val \/ r \in emptied
  BY <1>1, <1>3 DEF Row, Values
<1>12. row' \in [Rows -> Row]
  BY <1>3, <1>11
<1>13. TypeOK'
  BY <1>1, <1>3, <1>4, <1>8, <1>9, <1>10, <1>12 DEF TypeOK
<1>14. RequestedFillHappens'
  BY <1>2, <1>4, <1>8 DEF ColumnsInv, RequestedFillHappens
<1>15. ASSUME NEW r \in Rows
       PROVE  \/ cell'[r] = cell[r]
              \/ /\ cell'[r].status = "none" /\ r \notin past'.sure
                 /\ r \in Live => past'.dropped[r] # "no"
  BY <1>3, <1>7, <1>8, CellTypes
<1>16. \A r \in Rows : past'.dropped[r] = past.dropped[r] \/ past'.dropped[r] # "no"
  BY <1>2, <1>7, <1>8
<1>17. /\ \A r \in Rows : row'[r].life = row[r].life /\ row'[r].at = row[r].at /\ row'[r].src = row[r].src
       /\ \A r \in Rows : row'[r].val = row[r].val \/ (r \notin past'.sure /\ r \notin past'.fresh)
       /\ past'.sure \subseteq past.sure /\ past'.fresh \subseteq past.fresh
  BY <1>2, <1>8, <1>11
<1>18. QED
  BY <1>4, <1>13, <1>14, <1>15, <1>16, <1>17, CellsEmptied

LEMMA FillTypes ==
    /\ IdleFill \in Fill /\ [IdleFill EXCEPT !.pc = "list"] \in Fill
    /\ [IdleFill EXCEPT !.pc = "list"].pc = "list"
BY StartIsAPosition, ColumnConstants DEF NoAnswers, Outcome, IdleFill, Fill

LEMMA RequestFillKeeps ==
    ASSUME ColumnsInv, RequestFill
    PROVE  ColumnsInv'
<1>1. TypeOK /\ past \in Past /\ asker \in Asker /\ runner \in Runner /\ fill \in Fill
  BY DEF ColumnsInv, TypeOK
<1>2. PICK p \in Past : p = past
  BY <1>1
<1>3. /\ StartBackground
      /\ past' = [past EXCEPT !.wanted = TRUE,
                    !.dropped = [r \in Rows |-> IF asker.refill /\ @[r] = "refill" THEN "asked" ELSE @[r]]]
      /\ asker' = [asker EXCEPT !.pc = "idle", !.refill = FALSE]
      /\ UNCHANGED <<clock, row, cell, mark, question, writer>>
  BY DEF RequestFill, AskerGoes
<1> DEFINE new == [r \in Rows |-> IF asker.refill /\ p.dropped[r] = "refill" THEN "asked" ELSE p.dropped[r]]
<1>4. new \in [Rows -> {"no", "refill", "asked", "question"}]
  BY DEF Past
<1>5. past' = [p EXCEPT !.wanted = TRUE, !.dropped = new]
  BY <1>2, <1>3
<1>6. /\ past' = [dropped |-> new, sure |-> p.sure, fresh |-> p.fresh, wanted |-> TRUE]
      /\ \A r \in Rows : new[r] = p.dropped[r] \/ new[r] = "asked"
  BY <1>5 DEF Past
<1> HIDE DEF new
<1>7. /\ past' \in Past /\ past'.dropped = new /\ past'.sure = p.sure /\ past'.fresh = p.fresh
  BY <1>4, <1>6 DEF Past
<1>8. asker' \in Asker
  BY <1>1, <1>3 DEF Asker
<1>9. /\ runner' \in Runner
      /\ fill' = fill \/ fill' = [IdleFill EXCEPT !.pc = "list"]
      /\ fill'.pc = "list" \/ (runner'.held /\ runner'.again)
  <2>1. CASE runner.held
    BY <1>3, <2>1, <1>1 DEF StartBackground, Runner
  <2>2. CASE ~runner.held
    <3>1. runner' = [held |-> TRUE, again |-> FALSE] /\ fill' = [IdleFill EXCEPT !.pc = "list"]
      BY <1>3, <2>2 DEF StartBackground, Begin
    <3>2. QED
      BY <3>1, FillTypes DEF Runner
  <2>3. QED
    BY <2>1, <2>2
<1>10. TypeOK'
  BY <1>1, <1>3, <1>7, <1>8, <1>9, FillTypes DEF TypeOK
<1>11. RequestedFillHappens'
  BY <1>9 DEF RequestedFillHappens
<1>12. \A r \in Rows : past'.dropped[r] = past.dropped[r] \/ past'.dropped[r] # "no"
  BY <1>2, <1>6, <1>7
<1>13. QED
  BY <1>2, <1>3, <1>7, <1>9, <1>10, <1>11, <1>12, CellsEmptied

LEMMA RestartKeeps ==
    ASSUME ColumnsInv, Restart
    PROVE  ColumnsInv'
<1>1. TypeOK /\ past \in Past /\ asker \in Asker
  BY DEF ColumnsInv, TypeOK
<1>2. /\ writer' = [w \in Writers |-> IdleWriter]
      /\ fill' = IdleFill
      /\ runner' = [held |-> FALSE, again |-> FALSE]
      /\ asker' = [pc |-> "idle", refill |-> FALSE, count |-> asker.count]
      /\ past' = [past EXCEPT !.wanted = FALSE]
      /\ UNCHANGED <<clock, row, cell, mark, question>>
  BY DEF Restart, IdleAsker
<1>3. /\ past' \in Past /\ past'.dropped = past.dropped /\ past'.sure = past.sure /\ past'.fresh = past.fresh
      /\ past'.wanted = FALSE
  BY <1>1, <1>2 DEF Past
<1>4. asker' \in Asker /\ runner' \in Runner /\ fill' \in Fill
  BY <1>1, <1>2, FillTypes DEF Asker, Runner
<1>5. writer' \in [Writers -> Writer] /\ \A w \in Writers : writer'[w].pc = "idle"
  BY <1>2, IdleWriterType
<1>6. TypeOK'
  BY <1>1, <1>2, <1>3, <1>4, <1>5 DEF TypeOK
<1>7. RequestedFillHappens' /\ CellTellsOfValue'
  BY <1>3, <1>2 DEF RequestedFillHappens, ColumnsInv, CellTellsOfValue, Live
<1>8. \A r \in Rows : r \in Live' => Calm(r)
  BY <1>2, <1>3, CalmSame
<1>9. \A w \in Writers : WriterOK(w)'
  BY <1>5 DEF WriterOK, Busy, Recording
<1>10. \A r \in Rows : ColumnRowOK(r)'
  BY <1>2, <1>3 DEF ColumnsInv, ColumnRowOK, Live
<1>11. fill'.pc = "idle"
  BY <1>2 DEF IdleFill
<1>12. \A r \in past'.sure : SureOK(r)'
  BY <1>2, <1>3, <1>5, <1>11 DEF ColumnsInv, SureOK, Recording, Live
<1>13. clock' >= clock
  BY <1>1, <1>2, RowFacts
<1>14. QED
  BY <1>2, <1>6, <1>7, <1>8, <1>9, <1>10, <1>12, <1>13, OthersStep

-----------------------------------------------------------------------------
(* The steps of a fill that write neither a row nor a cell                   *)

\* A step of a run that only moves its own locals.
LEMMA RunMoves ==
    ASSUME ColumnsInv, NEW g \in Fill, fill' = g, runner' \in Runner,
           UNCHANGED <<clock, row, cell, mark, question, writer, asker>>,
           past' \in Past, past'.dropped = past.dropped, past'.sure = past.sure, past'.fresh = past.fresh,
           RequestedFillHappens', LocalsOK(g), g.pass = "changed" => ScanOK(g),
           g.pc = "write" => \A r \in past.sure : r \notin g.pending
    PROVE  ColumnsInv'
<1>1. TypeOK /\ clock' >= clock
  BY RowFacts DEF ColumnsInv
<1>2. TypeOK'
  BY <1>1 DEF TypeOK
<1>3. CellTellsOfValue'
  BY DEF ColumnsInv, CellTellsOfValue, Live
<1>4. \A r \in Rows : r \in Live' => Calm(r)
  BY CalmSame
<1>5. \A w \in Writers : WriterOK(w)'
  BY DEF ColumnsInv, WriterOK, Busy, Recording, Live
<1>6. \A r \in Rows : ColumnRowOK(r)'
  BY DEF ColumnsInv, ColumnRowOK, Live
<1>7. \A r \in past'.sure : SureOK(r)'
  BY DEF ColumnsInv, SureOK, Recording, Live
<1>8. LocalsOK(fill)'
  BY DEF LocalsOK, Live
<1>9. ASSUME fill'.pass = "changed"
      PROVE  ScanOK(fill)'
  <2>1. ScanOK(g)
    BY <1>9
  <2>2. ScanOK(g)'
    <3>1. \A r \in Rows : \A c : Snapshot(r)' = Snapshot(r) /\ RowPos(r)' = RowPos(r) /\ (CandPos(c) = CandPos(c))'
      BY DEF Snapshot, RowPos
    <3>2. NotPast(g.after)' <=> NotPast(g.after)
      BY DEF NotPast, Horizon
    <3>3. NotPast(g.ceiling)' <=> NotPast(g.ceiling)
      BY DEF NotPast, Horizon
    <3>4. Live' = Live /\ \A r \in Rows : Excused(r)' <=> Excused(r)
      BY DEF Live, Excused, Told
    <3>5. \A r \in Rows : (Old(g, r)' <=> Old(g, r)) /\ (Waiting(g, r)' <=> Waiting(g, r))
      BY <3>1, <3>4 DEF Old, Waiting
    <3>6. \A c \in g.cands \cup g.page : c.id \in Rows
      BY DEF Fill, Candidate
    <3>7. /\ \A r \in Live : r \in Rows
          /\ \A c \in g.cands \cup g.page : (Old(g, c.id)' <=> Old(g, c.id)) /\ Snapshot(c.id)' = Snapshot(c.id)
      BY <3>1, <3>5, <3>6 DEF Live
    <3>8. QED
      BY <2>1, <3>1, <3>2, <3>3, <3>4, <3>5, <3>7 DEF ScanOK
  <2>3. QED
    BY <2>2 DEF ScanOK, Old, Waiting
<1>10. QED
  BY <1>1, <1>2, <1>3, <1>4, <1>5, <1>6, <1>7, <1>8, <1>9, ColumnStep

\* A run that ends begins again if it has been asked to.
LEMMA RunLetsGo ==
    ASSUME TypeOK, LetGo
    PROVE  /\ runner' \in Runner /\ fill' \in Fill
           /\ fill' = IdleFill \/ fill' = [IdleFill EXCEPT !.pc = "list"]
           /\ runner.again => fill'.pc = "list"
BY FillTypes DEF TypeOK, LetGo, Begin, Runner

\* What holds of a run that has begun or ended, before the step as after it.
LEMMA EmptyNow ==
    ASSUME NEW g, g = IdleFill \/ g = [IdleFill EXCEPT !.pc = "list"]
    PROVE  LocalsOK(g) /\ ScanOK(g) /\ g.pc # "write"
BY FS_EmptySet, ColumnConstants DEF IdleFill, LocalsOK, ScanOK, Scanning

\* A run that is let go of.
LEMMA RunEnds ==
    ASSUME ColumnsInv, LetGo, UNCHANGED <<clock, row, cell, mark, question, writer, asker>>,
           past' \in Past, past'.dropped = past.dropped, past'.sure = past.sure, past'.fresh = past.fresh,
           past'.wanted => past.wanted /\ fill.pc # "list"
    PROVE  ColumnsInv'
BY RunLetsGo, EmptyNow, RunMoves DEF ColumnsInv, RequestedFillHappens

LEMMA FillFailsKeeps ==
    ASSUME ColumnsInv, FillFails
    PROVE  ColumnsInv'
<1>1. PICK p \in Past : p = past
  BY DEF ColumnsInv, TypeOK
<1>2. /\ LetGo /\ UNCHANGED <<clock, row, cell, mark, question, writer, asker>>
      /\ past' = [past EXCEPT !.wanted = past.wanted /\ fill.pc # "list"]
  BY DEF FillFails, Quiet, world, Ended
<1> DEFINE still == p.wanted /\ fill.pc # "list"
<1>3. still \in BOOLEAN /\ (still => p.wanted /\ fill.pc # "list")
  BY DEF Past
<1>4. past' = [p EXCEPT !.wanted = still]
  BY <1>1, <1>2
<1> HIDE DEF still
<1>5. past' = [dropped |-> p.dropped, sure |-> p.sure, fresh |-> p.fresh, wanted |-> still]
  BY <1>4 DEF Past
<1>6. /\ past' \in Past /\ past'.dropped = p.dropped /\ past'.sure = p.sure /\ past'.fresh = p.fresh
      /\ past'.wanted = still
  BY <1>3, <1>5 DEF Past
<1>7. past'.wanted => past.wanted /\ fill.pc # "list"
  BY <1>1, <1>3, <1>6
<1>8. QED
  BY <1>1, <1>2, <1>6, <1>7, RunEnds

LEMMA EndRunKeeps ==
    ASSUME ColumnsInv, EndRun
    PROVE  ColumnsInv'
BY RunEnds DEF EndRun, Quiet, world, FillAt, ColumnsInv, TypeOK

LEMMA StartJobKeeps ==
    ASSUME ColumnsInv, StartJob
    PROVE  ColumnsInv'
<1>1. /\ runner' = [runner EXCEPT !.held = TRUE] /\ fill' = [IdleFill EXCEPT !.pc = "list"]
      /\ UNCHANGED <<clock, row, cell, mark, question, writer, asker, past>>
  BY DEF StartJob, Begin, Quiet, world
<1>2. PICK g \in Fill : g = [IdleFill EXCEPT !.pc = "list"]
  BY FillTypes
<1>3. runner' \in Runner /\ past' \in Past
  BY <1>1 DEF ColumnsInv, TypeOK, Runner
<1>4. LocalsOK(g) /\ ScanOK(g) /\ g.pc # "write"
  BY <1>2, EmptyNow
<1>5. RequestedFillHappens'
  BY <1>1, FillTypes DEF RequestedFillHappens
<1>6. QED
  BY <1>1, <1>2, <1>3, <1>4, <1>5, RunMoves

LEMMA ListColumnsKeeps ==
    ASSUME ColumnsInv, ListColumns
    PROVE  ColumnsInv'
<1>1. PICK f \in Fill : f = fill
  BY DEF ColumnsInv, TypeOK
<1>2. PICK p \in Past : p = past
  BY DEF ColumnsInv, TypeOK
<1>3. /\ f.pc = "list" /\ fill' = [f EXCEPT !.pc = "sync", !.fp = question]
      /\ past' = [p EXCEPT !.wanted = FALSE]
      /\ UNCHANGED <<clock, row, cell, mark, question, writer, asker, runner>>
  BY <1>1, <1>2 DEF ListColumns, FillAt, FillGoes, Quiet, world
<1>4. /\ past' \in Past /\ past'.dropped = p.dropped /\ past'.sure = p.sure /\ past'.fresh = p.fresh
      /\ past'.wanted = FALSE
  BY <1>3 DEF Past
<1>5. PICK g \in Fill : g = fill'
  BY <1>3 DEF ColumnsInv, TypeOK, Fill
<1>6. /\ g.pc = "sync" /\ g.pass = f.pass /\ g.cands = f.cands /\ g.page = f.page
      /\ g.examined = f.examined /\ g.asked = f.asked
  BY <1>3, <1>5 DEF Fill
<1>7. LocalsOK(f) /\ (f.pass = "changed" => ScanOK(f))
  BY <1>1 DEF ColumnsInv
<1>8. f.pass = "changed"
  BY <1>3, <1>7 DEF LocalsOK, Fill
<1>9. LocalsOK(g)
  BY <1>6, <1>7, <1>8 DEF LocalsOK
<1>10. ScanOK(g)
  BY <1>3, <1>6, <1>7, <1>8 DEF ScanOK, Scanning
<1>11. RequestedFillHappens'
  BY <1>4 DEF RequestedFillHappens
<1>12. runner' \in Runner
  BY <1>3 DEF ColumnsInv, TypeOK
<1>13. QED
  BY <1>2, <1>3, <1>4, <1>5, <1>6, <1>9, <1>10, <1>11, <1>12, RunMoves

LEMMA SyncColumnKeeps ==
    ASSUME ColumnsInv, SyncColumn
    PROVE  ColumnsInv'
<1>1. TypeOK /\ clock' >= clock /\ LocalsOK(fill) /\ (fill.pass = "changed" => ScanOK(fill)) /\ MarkOK
  BY RowFacts DEF ColumnsInv, SyncColumn, Quiet
<1>2. PICK f \in Fill : f = fill
  BY <1>1 DEF TypeOK
<1>3. PICK p \in Past : p = past
  BY <1>1 DEF TypeOK
<1>4. PICK m \in Mark : m = SyncedMark
  BY <1>1, StartIsAPosition, <1>2 DEF TypeOK, Mark, Fill, SyncedMark
<1>5. /\ m.fp = f.fp /\ m.pos \in Position
      /\ m = mark \/ m.pos = Start
  BY <1>2, <1>4 DEF Mark, SyncedMark
<1>6. /\ f.pc = "sync" /\ mark' = m /\ fill' = [f EXCEPT !.pc = "ceiling", !.after = m.pos]
      /\ past' = IF m.pos = Start THEN [p EXCEPT !.dropped = [r \in Rows |-> "no"]] ELSE p
      /\ UNCHANGED <<clock, row, cell, question, writer, asker, runner>>
  BY <1>2, <1>3, <1>4 DEF SyncColumn, FillAt, FillGoes, Quiet, world
<1>7. /\ past' \in Past /\ past'.sure = p.sure /\ past'.fresh = p.fresh /\ past'.wanted = p.wanted
  BY <1>6 DEF Past
<1>8. PICK g \in Fill : g = fill'
  BY <1>5, <1>6 DEF Fill
<1>9. /\ g.pc = "ceiling" /\ g.pass = f.pass /\ g.cands = f.cands /\ g.page = f.page
      /\ g.examined = f.examined /\ g.asked = f.asked /\ g.after = m.pos /\ g.fp = f.fp
  BY <1>6, <1>8 DEF Fill
<1>10. TypeOK'
  BY <1>1, <1>6, <1>7, <1>8 DEF TypeOK
<1>11. MarkOK'
  <2>1. CASE m.pos = Start
    BY <1>6, <1>10, <2>1, MarkFromStart
  <2>2. CASE m.pos # Start
    BY <1>3, <1>5, <1>6, <2>2, CalmSame, <1>1, <1>10, MarkKept
  <2>3. QED
    BY <2>1, <2>2
<1>12. f.pass = "changed" /\ f.cands = {} /\ f.page = {} /\ f.examined = {} /\ f.asked = {}
       /\ IsFiniteSet(f.cands) /\ Cardinality(f.cands) <= Budget
  BY <1>1, <1>2, <1>6 DEF LocalsOK, Fill, ScanOK
<1>13. LocalsOK(fill)'
  BY <1>8, <1>9, <1>12 DEF LocalsOK
<1>14. ScanOK(fill)'
  <2>1. NotPast(fill.after)'
    BY <1>6, <1>8, <1>9, <1>11 DEF MarkOK, NotPast
  <2>2. \A r \in Live' : ~Before(fill'.after, RowPos(r)') => Excused(r)'
    BY <1>6, <1>8, <1>9, <1>11 DEF MarkOK, NothingLeftBehind, Behind, Excused, Live
  <2>3. fill'.pc = "ceiling" /\ mark'.fp = fill'.fp
    BY <1>5, <1>6, <1>8, <1>9
  <2>4. /\ fill'.cands = {} /\ fill'.page = {} /\ fill'.examined = {} /\ fill'.asked = {}
        /\ IsFiniteSet(fill'.cands) /\ Cardinality(fill'.cands) <= Budget
    BY <1>8, <1>9, <1>12
  <2>5. QED
    BY <2>1, <2>2, <2>3, <2>4 DEF ScanOK, Scanning
<1>15. RequestedFillHappens'
  BY <1>2, <1>6, <1>3, <1>7 DEF ColumnsInv, RequestedFillHappens
<1>16. CellTellsOfValue'
  BY <1>3, <1>6, <1>7 DEF ColumnsInv, CellTellsOfValue, Live
<1>17. \A w \in Writers : WriterOK(w)'
  BY <1>6 DEF ColumnsInv, WriterOK, Busy, Recording, Live
<1>18. \A r \in Rows : ColumnRowOK(r)'
  BY <1>3, <1>6, <1>7 DEF ColumnsInv, ColumnRowOK, Live
<1>19. fill'.pc # "write"
  BY <1>8, <1>9
<1>20. \A r \in past'.sure : SureOK(r)'
  BY <1>3, <1>6, <1>7, <1>19 DEF ColumnsInv, SureOK, Recording, Live
<1>21. QED
  BY <1>10, <1>11, <1>13, <1>14, <1>15, <1>16, <1>17, <1>18, <1>20 DEF ColumnsInv

LEMMA CeilingIsNotPast ==
    ASSUME TypeOK
    PROVE  Ceiling \in Position /\ NotPast(Ceiling)
<1>1. clock \in 0 .. MaxClock
  BY RowFacts
<1>2. Horizon \in 0 .. MaxClock
  BY <1>1, ColumnConstants DEF Horizon
<1>3. Ceiling = [at |-> Horizon, id |-> 0]
  BY DEF Ceiling, Horizon, Pos
<1>4. 0 \in 0 .. MaxRows
  BY ColumnConstants
<1> HIDE DEF Horizon
<1>5. QED
  BY <1>2, <1>3, <1>4 DEF Position, NotPast

\* The common part of a step of a run: nothing but its locals moves.
LEMMA RunStep ==
    ASSUME ColumnsInv, fill.pc # "list", NEW g \in Fill, fill' = g,
           UNCHANGED <<clock, row, cell, mark, question, writer, asker, runner, past>>,
           LocalsOK(g), g.pass = "changed" => ScanOK(g),
           g.pc = "write" => \A r \in past.sure : r \notin g.pending
    PROVE  ColumnsInv'
BY RunMoves DEF ColumnsInv, TypeOK, RequestedFillHappens

LEMMA ReadCeilingKeeps ==
    ASSUME ColumnsInv, ReadCeiling
    PROVE  ColumnsInv'
<1>1. TypeOK /\ LocalsOK(fill) /\ (fill.pass = "changed" => ScanOK(fill))
  BY DEF ColumnsInv
<1>2. PICK f \in Fill : f = fill
  BY <1>1 DEF TypeOK
<1>3. /\ f.pc = "ceiling" /\ fill' = [f EXCEPT !.pc = "page", !.ceiling = Ceiling]
      /\ UNCHANGED <<clock, row, cell, mark, question, writer, asker, runner, past>>
  BY <1>2 DEF ReadCeiling, FillAt, FillGoes, Quiet, world
<1>4. PICK g \in Fill : g = fill'
  BY <1>1, <1>3, CeilingIsNotPast DEF Fill
<1>5. /\ g.pc = "page" /\ g.pass = f.pass /\ g.cands = f.cands /\ g.page = f.page
      /\ g.examined = f.examined /\ g.asked = f.asked /\ g.after = f.after /\ g.fp = f.fp
      /\ g.ceiling = Ceiling
  BY <1>3, <1>4 DEF Fill
<1>6. f.pass = "changed" /\ ScanOK(f)
  BY <1>1, <1>2, <1>3 DEF LocalsOK, Fill
<1>7. f.cands = {} /\ f.page = {} /\ f.examined = {} /\ f.asked = {}
  BY <1>3, <1>6 DEF ScanOK
<1>8. LocalsOK(g)
  BY <1>5, <1>6, <1>7 DEF LocalsOK
<1>9. ScanOK(g)
  BY <1>5, <1>7, FS_EmptySet, ColumnConstants, <1>3, <1>6, <1>1, CeilingIsNotPast DEF
     ScanOK, Old, Scanning
<1>10. QED
  BY <1>2, <1>3, <1>4, <1>5, <1>8, <1>9, RunStep

\* A scan that is over: only what it has examined counts from now on.
LEMMA ScanIsOver ==
    ASSUME NEW f \in Fill, LocalsOK(f), ScanOK(f), f.pc = "page"
    PROVE  Scanned(f) \in Fill /\ LocalsOK(Scanned(f)) /\ ScanOK(Scanned(f)) /\ Scanned(f).pc = "ask"
<1>1. Scanned(f) \in Fill
  BY StartIsAPosition DEF Scanned, Fill
<1>2. PICK g \in Fill : g = Scanned(f)
  BY <1>1
<1>3. /\ g.pc = "ask" /\ g.pass = f.pass /\ g.cands = f.cands /\ g.page = f.page
      /\ g.examined = f.examined /\ g.asked = f.asked /\ g.fp = f.fp /\ g.ceiling = f.ceiling
      /\ g.ids = f.ids /\ g.answers = f.answers /\ g.pending = f.pending
  BY <1>2 DEF Scanned, Fill
<1>4. LocalsOK(g)
  BY <1>3 DEF LocalsOK
<1>5. \A r \in Rows : (Old(g, r) <=> Old(f, r)) /\ (Waiting(f, r) => Waiting(g, r))
  BY <1>3 DEF Old, Waiting
<1>6. ScanOK(g)
  BY <1>3, <1>5 DEF ScanOK, Scanning
<1>7. QED
  BY <1>2, <1>3, <1>4, <1>6

LEMMA DeadlineKeeps ==
    ASSUME ColumnsInv, Deadline
    PROVE  ColumnsInv'
<1>1. PICK f \in Fill : f = fill
  BY DEF ColumnsInv, TypeOK
<1>2. /\ f.pc = "page" /\ fill' = Scanned(f)
      /\ UNCHANGED <<clock, row, cell, mark, question, writer, asker, runner, past>>
  BY <1>1 DEF Deadline, FillAt, FillGoes, Quiet, world
<1>3. LocalsOK(f) /\ ScanOK(f)
  BY <1>1, <1>2 DEF ColumnsInv, LocalsOK, Fill
<1>4. Scanned(f) \in Fill /\ LocalsOK(Scanned(f)) /\ ScanOK(Scanned(f)) /\ Scanned(f).pc = "ask"
  BY <1>2, <1>3, ScanIsOver
<1>5. QED
  BY <1>1, <1>2, <1>4, RunStep

-----------------------------------------------------------------------------
(* Reading and examining a page                                              *)

LEMMA OnePerRowIsFinite ==
    ASSUME NEW S \in SUBSET Candidate, \A c, d \in S : c.id = d.id => c = d
    PROVE  IsFiniteSet(S)
<1> DEFINE f == [c \in S |-> c.id]
<1>1. IsFiniteSet(Rows)
  BY ColumnConstants, FS_Interval DEF Rows
<1>2. f \in Injection(S, Rows)
  BY DEF Candidate, Injection, IsInjective
<1> HIDE DEF f
<1>3. QED
  BY <1>1, <1>2, FS_Injection

LEMMA CandidatePosition ==
    ASSUME NEW c \in Candidate
    PROVE  CandPos(c) \in Position /\ CandPos(c).id = c.id /\ CandPos(c).at = c.at
BY RowPosition DEF Candidate, CandPos, Pos

\* No more come before the earlier of two.
LEMMA EarlierHasFewer ==
    ASSUME NEW N \in SUBSET Candidate, IsFiniteSet(N), NEW c \in Candidate, NEW e \in Candidate,
           ~Before(CandPos(c), CandPos(e))
    PROVE  LET before(x) == {d \in N : Before(CandPos(d), CandPos(x))}
           IN  /\ Cardinality(before(e)) \in Nat /\ Cardinality(before(c)) \in Nat
               /\ Cardinality(before(e)) <= Cardinality(before(c))
<1> DEFINE before(x) == {d \in N : Before(CandPos(d), CandPos(x))}
<1>1. CandPos(c) \in Position /\ CandPos(e) \in Position /\ \A d \in N : CandPos(d) \in Position
  BY CandidatePosition
<1>2. before(e) \in SUBSET before(c)
  BY <1>1, OrderOfPositions
<1>3. before(c) \in SUBSET N
  OBVIOUS
<1> HIDE DEF before
<1>4. IsFiniteSet(before(c)) /\ IsFiniteSet(before(e)) /\ Cardinality(before(e)) <= Cardinality(before(c))
  BY <1>2, <1>3, FS_Subset
<1>5. Cardinality(before(e)) \in Nat /\ Cardinality(before(c)) \in Nat
  BY <1>4, FS_CardinalityType
<1>6. QED
  BY <1>4, <1>5 DEF before

\* The last of some candidates.
LEMMA LastCandidate ==
    ASSUME NEW S \in SUBSET Candidate, S # {}, \A c, d \in S : c.id = d.id => c = d
    PROVE  \E m \in S : \A d \in S \ {m} : Before(CandPos(d), CandPos(m))
<1> DEFINE P == {CandPos(c) : c \in S}
<1>1. P \in SUBSET Position /\ P # {}
  BY CandidatePosition
<1>2. PICK p \in P : \A q \in P \ {p} : Before(q, p)
  <2> HIDE DEF P
  <2>1. QED
    BY <1>1, FirstAndLast
<1>3. PICK m \in S : CandPos(m) = p
  OBVIOUS
<1>4. \A d \in S \ {m} : CandPos(d) # p /\ CandPos(d) \in P
  BY <1>3, CandidatePosition
<1>5. QED
  BY <1>2, <1>3, <1>4

LEMMA FirstCandidate ==
    ASSUME NEW S \in SUBSET Candidate, S # {}
    PROVE  \E m \in S : \A d \in S : ~Before(CandPos(d), CandPos(m))
<1> DEFINE P == {CandPos(c) : c \in S}
<1>1. P \in SUBSET Position /\ P # {}
  BY CandidatePosition
<1>2. PICK p \in P : \A q \in P \ {p} : Before(p, q)
  <2> HIDE DEF P
  <2>1. QED
    BY <1>1, FirstAndLast
<1>3. PICK m \in S : CandPos(m) = p
  OBVIOUS
<1>4. ASSUME NEW d \in S
      PROVE  ~Before(CandPos(d), CandPos(m))
  BY <1>1, <1>3, OrderOfPositions, <1>2
<1>5. QED
  BY <1>4

\* What the loop over a page comes to: a beginning of the page, never empty, and no more to
\* ask about than the budget leaves.
SeenOf(page, new, left) ==
    {c \in page : Cardinality({d \in new : Before(CandPos(d), CandPos(c))}) < left}
LastOf(S) == CHOOSE c \in S : \A d \in S \ {c} : Before(CandPos(d), CandPos(c))

LEMMA Examination ==
    ASSUME NEW page \in SUBSET Candidate, page # {}, \A c, d \in page : c.id = d.id => c = d,
           NEW new \in SUBSET page, NEW left \in Nat, left > 0
    PROVE  /\ LastOf(SeenOf(page, new, left)) \in SeenOf(page, new, left)
           /\ \A c \in SeenOf(page, new, left) : \A e \in page :
                 ~Before(CandPos(c), CandPos(e)) => e \in SeenOf(page, new, left)
           /\ IsFiniteSet(new \cap SeenOf(page, new, left))
           /\ Cardinality(new \cap SeenOf(page, new, left)) <= left
<1> DEFINE examined == SeenOf(page, new, left)
           last     == LastOf(examined)
<1> USE DEF SeenOf, LastOf
<1>1. IsFiniteSet(page)
  BY OnePerRowIsFinite
<1>2. IsFiniteSet(new) /\ new \in SUBSET Candidate
  BY <1>1, FS_Subset
<1>3. examined # {}
  BY FirstCandidate, FS_EmptySet
<1>4. last \in examined
  BY <1>3, LastCandidate
<1>5. ASSUME NEW c \in examined, NEW e \in page, ~Before(CandPos(c), CandPos(e))
      PROVE  e \in examined
  <2>1. c \in Candidate /\ e \in Candidate /\ Cardinality({d \in new : Before(CandPos(d), CandPos(c))}) < left
    OBVIOUS
  <2>2. /\ Cardinality({d \in new : Before(CandPos(d), CandPos(e))}) \in Nat
        /\ Cardinality({d \in new : Before(CandPos(d), CandPos(c))}) \in Nat
        /\ Cardinality({d \in new : Before(CandPos(d), CandPos(e))})
             <= Cardinality({d \in new : Before(CandPos(d), CandPos(c))})
    BY SMTT(30), <1>2, <1>5, <2>1, EarlierHasFewer
  <2>3. Cardinality({d \in new : Before(CandPos(d), CandPos(e))}) < left
    BY <2>1, <2>2
  <2>4. QED
    BY <2>3
<1>6. IsFiniteSet(new \cap examined) /\ Cardinality(new \cap examined) <= left
  <2> DEFINE N == new \cap examined
  <2>1. N \in SUBSET new /\ N \in SUBSET Candidate /\ \A c, d \in N : c.id = d.id => c = d
    OBVIOUS
  <2>2. IsFiniteSet(N)
    BY <1>2, <2>1, FS_Subset
  <2>3. CASE N = {}
    <3> HIDE DEF N
    <3>1. IsFiniteSet(N) /\ Cardinality(N) <= left
      BY <2>3, FS_EmptySet
    <3>2. QED
      BY <3>1 DEF N
  <2>4. CASE N # {}
    <3>1. PICK k \in N : \A d \in N \ {k} : Before(CandPos(d), CandPos(k))
      <4> HIDE DEF N
      <4>1. QED
        BY <2>1, <2>4, LastCandidate
    <3> DEFINE B == {d \in new : Before(CandPos(d), CandPos(k))}
    <3>2. B \in SUBSET new /\ Cardinality(B) < left /\ N \ {k} \in SUBSET B
      BY <3>1
    <3> HIDE DEF B, N
    <3>3. IsFiniteSet(B) /\ Cardinality(B) \in Nat
      BY <1>2, <3>2, FS_Subset, FS_CardinalityType
    <3>4. IsFiniteSet(N \ {k}) /\ Cardinality(N \ {k}) <= Cardinality(B)
      BY <3>2, <3>3, FS_Subset
    <3>5. Cardinality(N \ {k}) = Cardinality(N) - 1 /\ Cardinality(N) \in Nat
      BY <2>2, <3>1, FS_RemoveElement, FS_CardinalityType
    <3>6. Cardinality(N) <= left
      BY <3>2, <3>3, <3>4, <3>5
    <3>7. QED
      BY <2>2, <3>6 DEF N
  <2>5. QED
    BY <2>3, <2>4
<1>7. QED
  BY <1>4, <1>5, <1>6

LEMMA SnapshotIsCandidate ==
    ASSUME ColumnsInv, NEW r \in Live
    PROVE  /\ r \in Rows /\ Snapshot(r) \in Candidate /\ Snapshot(r).id = r
           /\ CandPos(Snapshot(r)) = RowPos(r) /\ Snapshot(r).src = row[r].src
           /\ Snapshot(r).at = row[r].at /\ row[r].life # "new"
BY RowFacts DEF ColumnsInv, ColumnRowOK, Live, Snapshot, Candidate, CandPos, RowPos

LEMMA ReadPageKeeps ==
    ASSUME ColumnsInv, ReadPage
    PROVE  ColumnsInv'
<1>1. PICK f \in Fill : f = fill
  BY DEF ColumnsInv, TypeOK
<1> DEFINE page == {c \in Changed : Cardinality({d \in Changed : Before(CandPos(d), CandPos(c))}) < ScanPage}
<1>2. /\ f.pc = "page" /\ fill' = IF page = {} THEN Scanned(f) ELSE [f EXCEPT !.page = page, !.pc = "cells"]
      /\ UNCHANGED <<clock, row, cell, mark, question, writer, asker, runner, past>>
  BY <1>1 DEF ReadPage, FillAt, FillGoes, Quiet, world
<1>3. LocalsOK(f) /\ ScanOK(f) /\ f.pass = "changed"
  BY <1>1, <1>2 DEF ColumnsInv, LocalsOK, Fill
<1>4. /\ Changed \in SUBSET Candidate
      /\ \A c \in Changed : c.id \in Live /\ c = Snapshot(c.id) /\ Before(f.after, RowPos(c.id))
      /\ \A r \in Live : Before(f.after, RowPos(r)) => Snapshot(r) \in Changed
  BY <1>1, SnapshotIsCandidate DEF Changed
<1>5. IsFiniteSet(Changed) /\ \A c, d \in Changed : c.id = d.id => c = d
  BY <1>4, OnePerRowIsFinite
<1>6. CASE page = {}
  <2>1. Scanned(f) \in Fill /\ LocalsOK(Scanned(f)) /\ ScanOK(Scanned(f)) /\ Scanned(f).pc = "ask"
    BY <1>2, <1>3, ScanIsOver
  <2>2. fill' = Scanned(f) /\ fill.pc # "list"
    BY <1>1, <1>2, <1>6
  <2> HIDE DEF page
  <2>3. QED
    BY <1>2, <2>1, <2>2, RunStep
<1>7. CASE page # {}
  <2>1. page \in SUBSET Changed /\ page \in SUBSET Candidate
    BY <1>4
  <2>2. ASSUME NEW r \in Rows, NEW c \in page, Old(f, r), Before(f.after, RowPos(r)), ~Before(CandPos(c), RowPos(r))
        PROVE  Snapshot(r) \in page
    <3>1. r \in Live
      BY <2>2 DEF Old
    <3>2. Snapshot(r) \in Changed /\ Snapshot(r) \in Candidate /\ CandPos(Snapshot(r)) = RowPos(r)
      BY <1>4, <2>2, <3>1, SnapshotIsCandidate
    <3>3. PICK e \in Changed : e = Snapshot(r)
      BY <3>2
    <3>4. /\ Cardinality({d \in Changed : Before(CandPos(d), CandPos(e))}) \in Nat
          /\ Cardinality({d \in Changed : Before(CandPos(d), CandPos(c))}) \in Nat
          /\ Cardinality({d \in Changed : Before(CandPos(d), CandPos(e))})
               <= Cardinality({d \in Changed : Before(CandPos(d), CandPos(c))})
      <4>1. c \in Candidate /\ e \in Candidate /\ ~Before(CandPos(c), CandPos(e))
        BY <2>1, <2>2, <3>2, <3>3
      <4> HIDE DEF page
      <4>2. QED
        BY <1>4, <1>5, <4>1, EarlierHasFewer
    <3>5. Cardinality({d \in Changed : Before(CandPos(d), CandPos(c))}) < ScanPage
      OBVIOUS
    <3>6. Cardinality({d \in Changed : Before(CandPos(d), CandPos(e))}) < ScanPage
      BY <3>4, <3>5, ColumnConstants
    <3>7. e \in page
      BY <3>6
    <3>8. QED
      BY <3>3, <3>7
  <2> HIDE DEF page
  <2>3. PICK g \in Fill : g = fill'
    BY <1>2, <1>7, <2>1 DEF Fill
  <2>4. /\ g.pc = "cells" /\ g.pass = f.pass /\ g.cands = f.cands /\ g.page = page
        /\ g.examined = f.examined /\ g.asked = f.asked /\ g.fp = f.fp /\ g.ceiling = f.ceiling
        /\ g.after = f.after /\ g.ids = f.ids /\ g.answers = f.answers /\ g.pending = f.pending
    BY <1>2, <1>7, <2>3 DEF Fill
  <2>5. \A c \in page : c.id \in Live /\ c = Snapshot(c.id) /\ row[c.id].life # "new"
    BY <1>4, <2>1, SnapshotIsCandidate
  <2>6. LocalsOK(g)
    BY <1>5, <2>1, <1>2, <1>3, <1>7, <2>4, <2>5 DEF LocalsOK
  <2>7. \A r \in Rows : (Old(g, r) <=> Old(f, r)) /\ (Waiting(f, r) <=> Waiting(g, r))
    BY <1>2, <2>4 DEF Old, Waiting
  <2>8. \A c \in g.cands \cup g.page : Old(g, c.id) => c = Snapshot(c.id)
    <3>1. SUFFICES ASSUME NEW c \in g.cands \cup g.page, Old(g, c.id)
                   PROVE  c = Snapshot(c.id)
      OBVIOUS
    <3>2. CASE c \in page
      BY <2>5, <3>2
    <3>3. CASE c \in f.cands
      BY <2>4, <3>1, <1>2, <1>3, <3>3 DEF Old, ScanOK
    <3>4. QED
      BY <2>4, <3>1, <3>2, <3>3
  <2>9. ScanOK(g)
    BY <1>2, <1>3, <2>4, <2>7, <2>2, <2>8 DEF ScanOK, Scanning
  <2>10. fill' = g /\ fill.pc # "list" /\ g.pc # "write"
    BY <1>1, <1>2, <2>3, <2>4
  <2>11. QED
    BY <1>2, <2>6, <2>9, <2>10, RunStep
<1>8. QED
  BY <1>6, <1>7

LEMMA ExaminePageKeeps ==
    ASSUME ColumnsInv, ExaminePage
    PROVE  ColumnsInv'
<1>1. PICK f \in Fill : f = fill
  BY DEF ColumnsInv, TypeOK
<1> DEFINE left     == Budget - Cardinality(f.cands)
           new      == {c \in f.page : NeedsAnswer(c)}
           examined == {c \in f.page : Cardinality({d \in new : Before(CandPos(d), CandPos(c))}) < left}
           cands    == f.cands \cup (new \cap examined)
           last     == CHOOSE c \in examined : \A d \in examined \ {c} : Before(CandPos(d), CandPos(c))
           next     == [f EXCEPT !.page = {}, !.pc = "page", !.after = CandPos(last),
                          !.cands = cands,
                          !.asked = @ \cup {c.id : c \in new \cap examined},
                          !.examined = @ \cup {CandPos(c) : c \in examined}]
<1>2. /\ f.pc = "cells"
      /\ fill' = IF Cardinality(f.page) = ScanPage /\ Cardinality(cands) < Budget THEN next ELSE Scanned(next)
      /\ UNCHANGED <<clock, row, cell, mark, question, writer, asker, runner, past>>
  BY <1>1 DEF ExaminePage, FillAt, FillGoes, Quiet, world
<1>3. LocalsOK(f) /\ ScanOK(f) /\ f.pass = "changed"
  BY <1>1, <1>2 DEF ColumnsInv, LocalsOK, Fill
<1>4. /\ f.page \in SUBSET Candidate /\ f.page # {} /\ \A c, d \in f.page : c.id = d.id => c = d
      /\ f.cands \in SUBSET Candidate
  BY <1>2, <1>3 DEF LocalsOK, Fill
<1>5. left \in Nat /\ left > 0 /\ IsFiniteSet(f.cands) /\ Cardinality(f.cands) \in Nat
  BY <1>2, <1>3, FS_CardinalityType, ColumnConstants DEF ScanOK
<1>6. new \in SUBSET f.page
  OBVIOUS
<1>7. /\ last \in examined /\ examined \subseteq f.page
      /\ \A c \in examined : \A e \in f.page : ~Before(CandPos(c), CandPos(e)) => e \in examined
      /\ IsFiniteSet(new \cap examined) /\ Cardinality(new \cap examined) <= left
  <2>1. examined \subseteq f.page
    OBVIOUS
  <2>2. examined = SeenOf(f.page, new, left) /\ last = LastOf(examined)
    BY DEF SeenOf, LastOf
  <2> HIDE DEF left, new, examined, last
  <2>3. QED
    BY <1>4, <1>5, <1>6, <2>1, <2>2, Examination
<1>8. \A c \in f.page : c \in new <=> NeedsAnswer(c)
  OBVIOUS
<1> HIDE DEF new, examined, last
<1>9. IsFiniteSet(cands) /\ Cardinality(cands) \in Nat /\ Cardinality(cands) <= Budget
  <2> DEFINE N == new \cap examined
  <2>1. IsFiniteSet(N) /\ Cardinality(N) <= left /\ cands = f.cands \cup N
    BY <1>7
  <2>2. IsFiniteSet(f.cands \cap N)
    BY <1>5, FS_Intersection
  <2> HIDE DEF N, cands
  <2>3. /\ IsFiniteSet(cands)
        /\ Cardinality(cands) = Cardinality(f.cands) + Cardinality(N) - Cardinality(f.cands \cap N)
    BY <1>5, <2>1, FS_Union
  <2>4. Cardinality(f.cands \cap N) \in Nat /\ Cardinality(N) \in Nat /\ Cardinality(cands) \in Nat
    BY <2>1, <2>2, <2>3, FS_CardinalityType
  <2>5. QED
    BY <1>5, <2>1, <2>3, <2>4, ColumnConstants
<1>10. /\ cands \in SUBSET Candidate /\ cands \subseteq f.cands \cup f.page
       /\ f.cands \subseteq cands
       /\ CandPos(last) \in Position /\ \A c \in examined : CandPos(c) \in Position
  BY <1>4, <1>7, CandidatePosition
<1> HIDE DEF cands, left
<1> DEFINE ids  == {c.id : c \in new \cap examined}
           seen == {CandPos(c) : c \in examined}
<1>11. ids \subseteq Rows /\ seen \subseteq Position
  BY <1>4, <1>7, <1>10 DEF Candidate
<1>12. PICK g \in Fill : /\ g = next
                         /\ g.pc = "page" /\ g.pass = f.pass /\ g.cands = cands /\ g.page = {}
                         /\ g.examined = f.examined \cup seen /\ g.asked = f.asked \cup ids
                         /\ g.fp = f.fp /\ g.ceiling = f.ceiling /\ g.after = CandPos(last)
  <2>1. next = [f EXCEPT !.page = {}, !.pc = "page", !.after = CandPos(last), !.cands = cands,
                         !.asked = @ \cup ids, !.examined = @ \cup seen]
    OBVIOUS
  <2> HIDE DEF next, ids, seen
  <2>2. next = [pc |-> "page", pass |-> f.pass, fp |-> f.fp, after |-> CandPos(last), ceiling |-> f.ceiling,
                page |-> {}, examined |-> f.examined \cup seen, cands |-> cands, asked |-> f.asked \cup ids,
                answers |-> f.answers, pending |-> f.pending, ids |-> f.ids, left |-> f.left]
    BY <2>1 DEF Fill
  <2>3. next \in Fill
    BY <1>10, <1>11, <2>2 DEF Fill
  <2>4. QED
    BY <2>2, <2>3
<1>13. /\ g.pc = "page" /\ g.pass = f.pass /\ g.cands = cands /\ g.page = {}
       /\ g.examined = f.examined \cup {CandPos(c) : c \in examined}
       /\ g.asked = f.asked \cup {c.id : c \in new \cap examined}
       /\ g.fp = f.fp /\ g.ceiling = f.ceiling /\ g.after = CandPos(last)
  BY <1>12
<1> HIDE DEF next
<1>14. LocalsOK(g)
  BY <1>3, <1>10, <1>13 DEF LocalsOK
<1>15. \A r \in Rows : (Old(g, r) <=> Old(f, r)) /\ (Waiting(f, r) => Waiting(g, r))
  BY <1>2, <1>10, <1>13 DEF Old, Waiting
\* What has been examined is told of, or waits for its answer.
<1>16. ASSUME NEW c \in examined, NEW r \in Rows, Old(f, r), ~Before(CandPos(c), RowPos(r))
       PROVE  Excused(r) \/ Waiting(g, r)
  <2>1. CASE ~Before(f.after, RowPos(r))
    BY <1>2, <1>3, <1>15, <1>16, <2>1 DEF ScanOK
  <2>2. CASE Before(f.after, RowPos(r))
    <3>1. r \in Live
      BY <1>16 DEF Old
    <3>2. PICK e \in Candidate : e = Snapshot(r)
      BY <3>1, SnapshotIsCandidate
    <3>3. e.id = r /\ CandPos(e) = RowPos(r) /\ e.src = row[r].src
      BY <3>1, <3>2, SnapshotIsCandidate
    <3>4. e \in f.page
      BY <1>2, <1>3, <1>7, <1>16, <2>2, <3>2 DEF ScanOK
    <3>5. e \in examined
      BY <1>7, <1>16, <3>3, <3>4
    <3>6. CASE NeedsAnswer(e)
      BY <1>8, <3>4, <3>5, <3>6, <1>13, <3>3 DEF cands, Waiting
    <3>7. CASE ~NeedsAnswer(e)
      <4>1. CASE cell[r].status = "manual"
        BY <4>1 DEF Excused, Told
      <4>2. CASE cell[r].status # "none" /\ cell[r].hash = HashOf(fill.fp, e.src)
        BY <1>2, <1>3, <1>1, <3>3, <4>2 DEF ScanOK, Scanning, HashOf, Excused, Told
      <4>3. CASE r \in f.asked
        BY <1>2, <1>3, <4>3, <1>16, <1>10, <3>2, <3>3, <1>13 DEF ScanOK, Waiting
      <4>4. QED
        BY <1>1, <3>3, <3>7, <4>1, <4>2, <4>3 DEF NeedsAnswer
    <3>8. QED
      BY <3>6, <3>7
  <2>3. QED
    BY <2>1, <2>2
<1>17. \A p \in g.examined : \A r \in Rows : Old(g, r) /\ ~Before(p, RowPos(r)) => Excused(r) \/ Waiting(g, r)
  <2>1. SUFFICES ASSUME NEW p \in g.examined, NEW r \in Rows, Old(g, r), ~Before(p, RowPos(r))
                 PROVE  Excused(r) \/ Waiting(g, r)
    OBVIOUS
  <2>2. CASE p \in f.examined
    BY <1>2, <1>3, <1>15, <2>1, <2>2 DEF ScanOK, Scanning
  <2>3. CASE \E c \in examined : p = CandPos(c)
    BY <1>15, <1>16, <2>1, <2>3
  <2>4. QED
    BY <1>13, <2>1, <2>2, <2>3
<1>18. \A r \in Rows : Old(g, r) /\ ~Before(g.after, RowPos(r)) => Excused(r) \/ Waiting(g, r)
  BY <1>7, <1>13, <1>15, <1>16
<1>19. mark.fp = g.fp /\ NotPast(g.ceiling)
  BY <1>2, <1>3, <1>13 DEF ScanOK, Scanning
<1>20. CASE Cardinality(f.page) = ScanPage /\ Cardinality(cands) < Budget
  <2>1. fill' = g
    BY <1>2, <1>12, <1>20
  <2>2. \A r \in g.asked : \E c \in g.cands : c.id = r
    BY <1>2, <1>3, <1>10, <1>13 DEF ScanOK, cands
  <2>3. \A c \in g.cands \cup g.page : Old(g, c.id) => c = Snapshot(c.id)
    BY <1>4, <1>10, <1>13, <1>2, <1>3, <1>15 DEF Candidate, ScanOK
  <2>4. ScanOK(g)
    BY <1>9, <1>13, <1>17, <1>18, <1>19, <1>20, <2>2, <2>3 DEF ScanOK, Scanning
  <2>5. fill.pc # "list" /\ g.pc # "write"
    BY <1>1, <1>2, <1>13
  <2>6. QED
    BY <1>2, <1>14, <2>1, <2>4, <2>5, RunStep
<1>21. CASE ~(Cardinality(f.page) = ScanPage /\ Cardinality(cands) < Budget)
  <2>1. fill' = Scanned(g)
    BY <1>2, <1>12, <1>21
  <2>2. PICK h \in Fill : h = Scanned(g)
    BY StartIsAPosition DEF Scanned, Fill
  <2>3. /\ h.pc = "ask" /\ h.pass = g.pass /\ h.cands = g.cands /\ h.page = g.page
        /\ h.examined = g.examined /\ h.asked = g.asked /\ h.fp = g.fp /\ h.ceiling = g.ceiling
    BY <2>2 DEF Scanned, Fill
  <2>4. LocalsOK(h)
    BY <1>14, <2>3 DEF LocalsOK
  <2>5. \A r \in Rows : (Old(h, r) <=> Old(g, r)) /\ (Waiting(g, r) => Waiting(h, r))
    BY <2>3 DEF Old, Waiting
  <2>6. ScanOK(h)
    BY <1>9, <1>13, <1>17, <1>19, <2>3, <2>5 DEF ScanOK, Scanning
  <2>7. fill' = h /\ fill.pc # "list" /\ h.pc # "write"
    BY <1>1, <1>2, <2>1, <2>2, <2>3
  <2>8. QED
    BY <1>2, <2>4, <2>6, <2>7, RunStep
<1>22. QED
  BY <1>20, <1>21

-----------------------------------------------------------------------------
(* Answers, the batch and what comes after it                                *)

LEMMA DecideKeeps ==
    ASSUME ColumnsInv, Decide
    PROVE  ColumnsInv'
<1>1. PICK f \in Fill : f = fill
  BY DEF ColumnsInv, TypeOK
<1>2. PICK answers \in [{c.id : c \in f.cands} -> Outcome] :
         fill' = [f EXCEPT !.pc = IF f.cands = {} THEN "advance" ELSE "settle",
                           !.answers = [r \in Rows |-> IF r \in DOMAIN answers THEN answers[r] ELSE "null"]]
  BY <1>1 DEF Decide, FillGoes
<1> DEFINE all == [r \in Rows |-> IF r \in {c.id : c \in f.cands} THEN answers[r] ELSE "null"]
<1>3. /\ f.pc = "ask"
      /\ UNCHANGED <<clock, row, cell, mark, question, writer, asker, runner, past>>
  BY <1>1 DEF Decide, FillAt, FillGoes, Quiet, world
<1>4. /\ all \in [Rows -> Outcome]
      /\ \A r \in Rows : all[r] # "null" => \E c \in f.cands : c.id = r
  BY DEF Outcome
<1>5. PICK pc \in {"advance", "settle"} : pc = IF f.cands = {} THEN "advance" ELSE "settle"
  OBVIOUS
<1>6. fill' = [f EXCEPT !.pc = pc, !.answers = all]
  BY <1>2, <1>5
<1> HIDE DEF all
<1>7. PICK g \in Fill : g = fill'
  BY <1>4, <1>6 DEF Fill
<1>8. /\ g.pc = pc /\ g.pass = f.pass /\ g.cands = f.cands /\ g.page = f.page /\ g.answers = all
      /\ g.examined = f.examined /\ g.asked = f.asked /\ g.fp = f.fp /\ g.ceiling = f.ceiling
  BY <1>6, <1>7 DEF Fill
<1>9. LocalsOK(f) /\ (f.pass = "changed" => ScanOK(f))
  BY <1>1 DEF ColumnsInv
<1>10. LocalsOK(g)
  BY <1>4, <1>8, <1>9 DEF LocalsOK
<1>11. ASSUME g.pass = "changed"
       PROVE  ScanOK(g)
  BY <1>8, <1>9, <1>11, <1>5, <1>3 DEF Old, Waiting, ScanOK, Scanning
<1>12. fill' = g /\ fill.pc # "list" /\ g.pc # "write"
  BY <1>1, <1>3, <1>5, <1>7, <1>8
<1>13. QED
  BY <1>3, <1>10, <1>11, <1>12, RunStep

LEMMA SettleCellsKeeps ==
    ASSUME ColumnsInv, SettleCells
    PROVE  ColumnsInv'
<1>1. PICK f \in Fill : f = fill
  BY DEF ColumnsInv, TypeOK
<1>2. /\ f.pc = "settle" /\ fill' = [f EXCEPT !.pc = "write", !.pending = Settled]
      /\ UNCHANGED <<clock, row, cell, mark, question, writer, asker, runner, past>>
  BY <1>1 DEF SettleCells, FillAt, FillGoes, Quiet, world
<1>3. /\ Settled \subseteq Rows
      /\ \A r \in Rows : r \in Settled <=> f.answers[r] \in {"auto", "review"} /\ cell[r].status # "manual"
  BY <1>1 DEF Settled, Answered
<1>4. PICK g \in Fill : g = fill'
  BY <1>2, <1>3 DEF Fill
<1>5. /\ g.pc = "write" /\ g.pass = f.pass /\ g.cands = f.cands /\ g.page = f.page /\ g.answers = f.answers
      /\ g.examined = f.examined /\ g.asked = f.asked /\ g.fp = f.fp /\ g.ceiling = f.ceiling
      /\ g.pending = Settled
  BY <1>2, <1>4 DEF Fill
<1>6. LocalsOK(f) /\ (f.pass = "changed" => ScanOK(f))
  BY <1>1 DEF ColumnsInv
<1>7. LocalsOK(g)
  BY <1>2, <1>3, <1>5, <1>6 DEF LocalsOK
<1>8. ASSUME g.pass = "changed"
      PROVE  ScanOK(g)
  <2>1. ScanOK(f)
    BY <1>5, <1>6, <1>8
  <2>2. ASSUME NEW r \in Rows, Waiting(f, r)
        PROVE  Excused(r) \/ Waiting(g, r)
    BY <1>5, <2>2, <1>3 DEF Fill, Waiting, Excused, Told, Outcome
  <2>3. \A r \in Rows : Old(g, r) <=> Old(f, r)
    BY <1>5 DEF Old
  <2>4. QED
    BY <1>2, <1>5, <2>1, <2>2, <2>3 DEF ScanOK, Scanning
<1>9. \A r \in past.sure : r \notin g.pending
  BY <1>3, <1>5 DEF ColumnsInv, SureOK, Live
<1>10. fill' = g /\ fill.pc # "list"
  BY <1>1, <1>2, <1>4
<1>11. QED
  BY <1>2, <1>7, <1>8, <1>9, <1>10, RunStep

LEMMA FindErrorsKeeps ==
    ASSUME ColumnsInv, FindErrors
    PROVE  ColumnsInv'
<1>1. PICK f \in Fill : f = fill
  BY DEF ColumnsInv, TypeOK
<1> DEFINE failed == {r \in Rows : cell[r].status = "error"} \ f.asked
<1>2. /\ f.pc = "errors"
      /\ LetGo \/ \E ids \in SUBSET failed : fill' = [f EXCEPT !.pc = "retry", !.ids = ids] /\ runner' = runner
      /\ UNCHANGED <<clock, row, cell, mark, question, writer, asker, past>>
  BY <1>1 DEF FindErrors, FillAt, FillGoes, Quiet, world
<1>3. past' \in Past /\ f.pc # "list"
  BY <1>2 DEF ColumnsInv, TypeOK
<1>4. CASE LetGo
  BY <1>1, <1>2, <1>3, <1>4, RunEnds
<1>5. ASSUME NEW ids \in SUBSET failed, fill' = [f EXCEPT !.pc = "retry", !.ids = ids], runner' = runner
      PROVE  ColumnsInv'
  <2>1. ids \subseteq Rows /\ \A r \in ids : row[r].life # "new"
    BY DEF ColumnsInv, ColumnRowOK
  <2>2. PICK g \in Fill : g = fill'
    BY <1>5, <2>1 DEF Fill
  <2>3. g.pc = "retry" /\ g.pass = f.pass /\ g.cands = f.cands /\ g.page = f.page /\ g.ids = ids
    BY <1>5, <2>2 DEF Fill
  <2>4. LocalsOK(f)
    BY <1>1 DEF ColumnsInv
  <2>5. g.pass = "retry" /\ LocalsOK(g)
    BY <1>2, <2>1, <2>3, <2>4 DEF LocalsOK
  <2>6. fill' = g /\ fill.pc # "list" /\ g.pc # "write" /\ ~(g.pass = "changed")
    BY <1>1, <1>3, <2>2, <2>3, <2>5
  <2>7. QED
    BY <1>2, <1>5, <2>5, <2>6, RunStep
<1>6. QED
  BY <1>2, <1>4, <1>5

LEMMA ReadRetriedKeeps ==
    ASSUME ColumnsInv, ReadRetried
    PROVE  ColumnsInv'
<1>1. PICK f \in Fill : f = fill
  BY DEF ColumnsInv, TypeOK
<1> DEFINE cands == {Snapshot(r) : r \in f.ids \cap Live}
           rest  == f.ids \ Live
<1>2. PICK pc \in {"ask", "drop"} : pc = IF f.ids \subseteq Live THEN "ask" ELSE "drop"
  OBVIOUS
<1>3. /\ f.pc = "retry"
      /\ fill' = [f EXCEPT !.cands = cands, !.asked = {}, !.ids = rest, !.pc = pc]
      /\ UNCHANGED <<clock, row, cell, mark, question, writer, asker, runner, past>>
  BY <1>1, <1>2 DEF ReadRetried, FillAt, FillGoes, Quiet, world
<1>4. cands \subseteq Candidate /\ \A c \in cands : row[c.id].life # "new"
  BY SnapshotIsCandidate
<1>5. LocalsOK(f)
  BY <1>1 DEF ColumnsInv
<1>6. rest \subseteq f.ids /\ rest \subseteq Rows /\ rest \cap Live = {}
  BY DEF Fill
<1> HIDE DEF cands, rest
<1>7. PICK g \in Fill : g = fill'
  BY <1>3, <1>4, <1>6 DEF Fill
<1>8. g.pc = pc /\ g.pass = f.pass /\ g.cands = cands /\ g.page = f.page /\ g.ids = rest
  BY <1>3, <1>7 DEF Fill
<1>9. g.pass = "retry" /\ LocalsOK(g)
  BY <1>3, <1>5, <1>8, <1>4, <1>2, <1>6 DEF LocalsOK
<1>10. fill' = g /\ fill.pc # "list" /\ g.pc # "write" /\ ~(g.pass = "changed")
  BY <1>1, <1>2, <1>3, <1>7, <1>8, <1>9
<1>11. QED
  BY <1>3, <1>9, <1>10, RunStep

LEMMA DropMissingKeeps ==
    ASSUME ColumnsInv, DropMissing
    PROVE  ColumnsInv'
<1>1. TypeOK /\ cell \in [Rows -> Cell]
  BY DEF ColumnsInv, TypeOK
<1>2. PICK f \in Fill : f = fill
  BY <1>1 DEF TypeOK
<1>3. /\ f.pc = "drop"
      /\ cell' = [r \in Rows |-> IF r \in f.ids THEN NoCell ELSE cell[r]]
      /\ fill' = [f EXCEPT !.pc = "ask", !.ids = {}]
      /\ UNCHANGED <<clock, row, mark, question, writer, asker, runner, past>>
  BY <1>2 DEF DropMissing, FillAt, FillGoes, world
<1>4. PICK g \in Fill : g = fill'
  BY <1>3 DEF Fill
<1>5. g.pc = "ask" /\ g.pass = f.pass /\ g.cands = f.cands /\ g.page = f.page
  BY <1>3, <1>4 DEF Fill
<1>6. LocalsOK(f)
  BY <1>2 DEF ColumnsInv
<1>7. f.pass = "retry" /\ f.ids \cap Live = {}
  BY <1>3, <1>6 DEF LocalsOK
<1>8. cell' \in [Rows -> Cell] /\ \A r \in Rows : cell'[r] = cell[r] \/ (cell'[r].status = "none" /\ r \notin Live)
  BY <1>1, <1>3, <1>7, CellTypes
<1>9. TypeOK'
  BY <1>1, <1>3, <1>4, <1>8 DEF TypeOK
<1>10. LocalsOK(fill)' /\ fill'.pass # "changed" /\ fill'.pc # "write" /\ fill.pc # "list"
  BY <1>3, <1>5, <1>6, <1>7, <1>4, <1>2 DEF LocalsOK
<1>11. RequestedFillHappens'
  BY <1>3, <1>10 DEF ColumnsInv, RequestedFillHappens
<1>12. CellTellsOfValue'
  BY <1>3, <1>8 DEF ColumnsInv, CellTellsOfValue, Live
<1>13. ASSUME NEW r \in Rows, r \in Live'
       PROVE  Calm(r)
  BY <1>3, <1>13, <1>8, CalmSame DEF Live
<1>14. \A w \in Writers : WriterOK(w)'
  BY <1>3 DEF ColumnsInv, WriterOK, Busy, Recording, Live
<1>15. \A r \in Rows : ColumnRowOK(r)'
  BY <1>3, <1>8 DEF ColumnsInv, ColumnRowOK, Live
<1>16. ASSUME NEW r \in past'.sure
       PROVE  SureOK(r)'
  BY <1>3, <1>8, <1>10 DEF ColumnsInv, SureOK, Live, Recording
<1>17. clock' >= clock
  BY <1>1, <1>3, RowFacts
<1>18. QED
  BY <1>3, <1>9, <1>10, <1>11, <1>12, <1>13, <1>14, <1>15, <1>16, <1>17, ColumnStep

\* What is before the ceiling, or at it, is not past the horizon.
LEMMA NotPastDown ==
    ASSUME TypeOK, NEW p \in Position, NEW q \in Position, NotPast(p), ~Before(p, q)
    PROVE  NotPast(q)
<1>1. p.at \in Int /\ p.id \in Int /\ q.at \in Int /\ q.id \in Int /\ q.id >= 0
  BY ColumnConstants DEF Position
<1>2. Horizon \in Int
  BY RowFacts, ColumnConstants DEF Horizon
<1> HIDE DEF Horizon
<1>3. QED
  BY <1>1, <1>2 DEF NotPast, Before

LEMMA AdvanceWatermarkKeeps ==
    ASSUME ColumnsInv, AdvanceWatermark
    PROVE  ColumnsInv'
<1>1. TypeOK /\ clock' >= clock /\ LocalsOK(fill) /\ (fill.pass = "changed" => ScanOK(fill)) /\ MarkOK
  BY RowFacts DEF ColumnsInv, AdvanceWatermark, Quiet
<1>2. PICK f \in Fill : f = fill
  BY <1>1 DEF TypeOK
<1>3. /\ f.pc = "advance" /\ f.pass = "changed"
      /\ mark' = IF Through = {} THEN mark ELSE [mark EXCEPT !.pos = NewPos]
      /\ UNCHANGED <<clock, row, cell, question, writer, asker, past>>
  BY <1>2 DEF AdvanceWatermark, FillAt, Quiet, world
<1>4. ScanOK(f) /\ f.ceiling \in Position /\ f.examined \subseteq Position /\ f.cands \subseteq Candidate
  BY <1>1, <1>2, <1>3 DEF Fill
<1>5. NotPast(f.ceiling) /\ mark.fp = f.fp
      /\ \A p \in f.examined : \A r \in Rows :
            Old(f, r) /\ ~Before(p, RowPos(r)) => Excused(r) \/ Waiting(f, r)
  BY <1>3, <1>4 DEF ScanOK, Scanning
<1>6. Through # {} =>
         /\ NewPos \in Position /\ ~Before(f.ceiling, NewPos)
         /\ \E p \in Through : p \in Position /\ ~Before(p, NewPos)
  <2>1. SUFFICES ASSUME Through # {}
                 PROVE  /\ NewPos \in Position /\ ~Before(f.ceiling, NewPos)
                        /\ \E p \in Through : p \in Position /\ ~Before(p, NewPos)
    OBVIOUS
  <2>2. Through \in SUBSET Position
    BY <1>2, <1>4 DEF Through
  <2>3. Last(Through) \in Through /\ Last(Through) \in Position
    BY <2>1, <2>2, LastIsLast
  <2>4. PICK p \in Position : p = Last(Through)
    BY <2>3
  <2>5. NewPos = IF Before(f.ceiling, p) THEN f.ceiling ELSE p
    BY <1>2, <2>4 DEF NewPos
  <2>6. QED
    BY <1>4, <2>3, <2>4, <2>5, OrderOfPositions
<1>7. mark' \in Mark /\ mark'.fp = mark.fp /\ (mark' = mark \/ (Through # {} /\ mark'.pos = NewPos))
  BY <1>1, <1>3, <1>6 DEF TypeOK, Mark
<1>8. \A r \in Rows : (Excused(r) => Excused(r)') /\ RowPos(r)' = RowPos(r) /\ (r \in Live' <=> r \in Live)
  BY <1>3, <1>7 DEF Excused, Told, RowPos, Live
<1>9. ASSUME Through # {}, NEW r \in Rows, r \in Live, ~Before(NewPos, RowPos(r))
      PROVE  Excused(r)
  <2>1. RowPos(r) \in Position /\ NewPos \in Position /\ ~Before(f.ceiling, NewPos)
    BY <1>1, <1>6, <1>9, RowFacts
  <2>2. PICK p \in Through : p \in Position /\ ~Before(p, NewPos)
    BY <1>6, <1>9
  <2>3. ~Before(f.ceiling, RowPos(r)) /\ ~Before(p, RowPos(r))
    BY <1>4, <1>9, <2>1, <2>2, OrderOfPositions
  <2>4. Old(f, r) /\ p \in f.examined
    BY <1>2, <1>9, <2>2, <2>3 DEF Old, Through
  <2>5. Excused(r) \/ Waiting(f, r)
    BY <1>5, <2>3, <2>4
  <2>6. ~Waiting(f, r)
    <3>1. SUFFICES ASSUME NEW c \in f.cands, CandPos(c) = RowPos(r), f.answers[r] = "null"
                   PROVE  FALSE
      BY <1>3 DEF Waiting
    <3>2. c.id = r
      BY <1>4, <3>1, CandidatePosition DEF RowPos, Pos
    <3>3. Before(p, CandPos(c))
      BY <1>2, <2>2, <3>1, <3>2 DEF Through
    <3>4. QED
      BY <2>3, <3>1, <3>3
  <2>7. QED
    BY <2>5, <2>6
<1>10. /\ runner' \in Runner /\ fill' \in Fill /\ LocalsOK(fill)' /\ fill'.pc # "write"
       /\ fill'.pass = "changed" => ScanOK(fill)'
       /\ RequestedFillHappens'
  <2>1. CASE Left > 0
    <3>1. /\ fill' = [IdleFill EXCEPT !.pc = "errors", !.pass = "retry", !.fp = f.fp,
                                     !.asked = f.asked, !.left = Left]
          /\ runner' = runner
      BY <1>2, <2>1 DEF AdvanceWatermark, FillGoes
    <3>2. Left \in 0 .. Budget
      <4> DEFINE A == {c \in f.cands : f.answers[c.id] # "null"}
      <4>1. IsFiniteSet(f.cands) /\ A \in SUBSET f.cands
        BY <1>4 DEF ScanOK
      <4>2. Left = Budget - Cardinality(A)
        BY <1>2 DEF Left
      <4> HIDE DEF A
      <4>3. Cardinality(A) \in Nat
        BY <4>1, FS_Subset, FS_CardinalityType
      <4>4. QED
        BY <2>1, <4>2, <4>3, ColumnConstants
    <3>3. fill' = [pc |-> "errors", pass |-> "retry", fp |-> f.fp, after |-> Start,
                   ceiling |-> Start, page |-> {}, examined |-> {}, cands |-> {}, asked |-> f.asked,
                   answers |-> NoAnswers, pending |-> {}, ids |-> {}, left |-> Left]
      BY <3>1 DEF IdleFill
    <3>4. fill' \in Fill
      BY StartIsAPosition, <3>2, <3>3 DEF NoAnswers, Outcome, Fill
    <3>5. fill'.pc = "errors" /\ fill'.pass = "retry" /\ fill'.cands = {} /\ fill'.page = {}
      BY <3>3
    <3>6. LocalsOK(fill)'
      BY <3>5 DEF LocalsOK
    <3>7. RequestedFillHappens'
      BY <1>2, <1>3, <3>1 DEF ColumnsInv, RequestedFillHappens
    <3>8. runner' \in Runner
      BY <1>1, <3>1 DEF TypeOK
    <3>9. QED
      BY <3>4, <3>5, <3>6, <3>7, <3>8
  <2>2. CASE ~(Left > 0)
    <3>1. LetGo
      BY <2>2 DEF AdvanceWatermark
    <3>2. /\ runner' \in Runner /\ fill' \in Fill
          /\ fill' = IdleFill \/ fill' = [IdleFill EXCEPT !.pc = "list"]
          /\ runner.again => fill'.pc = "list"
      BY <1>1, <3>1, RunLetsGo
    <3>3. LocalsOK(fill)' /\ ScanOK(fill)'
      BY <3>2, EmptyRun
    <3>4. fill'.pc # "write"
      BY <3>2, FillTypes DEF IdleFill
    <3>5. RequestedFillHappens'
      BY <1>2, <1>3, <3>2 DEF ColumnsInv, RequestedFillHappens
    <3>6. QED
      BY <3>2, <3>3, <3>4, <3>5
  <2>3. QED
    BY <2>1, <2>2
<1>11. TypeOK'
  BY <1>1, <1>3, <1>7, <1>10 DEF TypeOK
<1>12. MarkOK'
  <2>1. CASE mark' = mark
    BY <1>3, <2>1, CalmSame, <1>1, <1>11, MarkKept
  <2>2. CASE Through # {} /\ mark'.pos = NewPos
    BY <1>1, <1>4, <1>5, <1>6, <2>2, NotPastDown, <1>3, <1>8, <1>9 DEF NotPast, Horizon,
       NothingLeftBehind, Behind, Excused, MarkOK
  <2>3. QED
    BY <1>7, <2>1, <2>2
<1>13. CellTellsOfValue'
  BY <1>3 DEF ColumnsInv, CellTellsOfValue, Live
<1>14. \A w \in Writers : WriterOK(w)'
  BY <1>3 DEF ColumnsInv, WriterOK, Busy, Recording, Live
<1>15. \A r \in Rows : ColumnRowOK(r)'
  BY <1>3 DEF ColumnsInv, ColumnRowOK, Live
<1>16. \A r \in past'.sure : SureOK(r)'
  BY <1>3, <1>10 DEF ColumnsInv, SureOK, Recording, Live
<1>17. QED
  BY <1>10, <1>11, <1>12, <1>13, <1>14, <1>15, <1>16 DEF ColumnsInv

LEMMA WriteBatchKeeps ==
    ASSUME ColumnsInv, WriteBatch
    PROVE  ColumnsInv'
<1>1. TypeOK /\ past \in Past /\ cell \in [Rows -> Cell] /\ row \in [Rows -> Row]
  BY DEF ColumnsInv, TypeOK
<1>2. PICK f \in Fill : f = fill
  BY <1>1 DEF TypeOK
<1>3. PICK p \in Past : p = past
  BY <1>1
<1>4. LocalsOK(f) /\ (f.pass = "changed" => ScanOK(f)) /\ f.pc = "write"
  BY <1>2 DEF ColumnsInv, WriteBatch, FillAt
<1>5. PICK W \in SUBSET f.pending : W = Written
  BY <1>2 DEF Written
<1>6. /\ W \subseteq Live /\ W \subseteq Rows
      /\ \A r \in f.pending : r \in Live /\ (\E c \in f.cands : c.id = r /\ c.at = row[r].at) => r \in W
  BY <1>2, <1>5 DEF Written, Live
<1> DEFINE told == CellsFor(W)
           src(r) == (CHOOSE c \in f.cands : c.id = r).src
           at == clock + 1
           fresh == {r \in told : f.answers[r] # "error"}
           kept == [r \in Rows |-> IF r \in told THEN "no" ELSE p.dropped[r]]
<1>7. /\ fill' = [f EXCEPT !.pc = "advance", !.pending = {}] /\ runner' = runner
      /\ past' = [p EXCEPT !.fresh = @ \cup fresh, !.dropped = kept]
      /\ UNCHANGED <<mark, writer, question, asker>>
  BY <1>2, <1>3, <1>5 DEF WriteBatch, FillGoes, world
<1>8. /\ row' = [r \in Rows |->
                   IF r \in W THEN [row[r] EXCEPT !.at = clock + 1,
                                                  !.val = IF f.answers[r] = "auto" THEN "model" ELSE "none"]
                   ELSE row[r]]
      /\ cell' = [r \in Rows |->
                    IF r \in told /\ cell[r].status # "manual"
                    THEN [status |-> f.answers[r], hash |-> HashOf(f.fp, src(r))]
                    ELSE cell[r]]
      /\ IF f.pending = {} THEN UNCHANGED clock ELSE Advance
  BY <1>2, <1>5 DEF WriteBatch, Upserted
<1>9. /\ \A r \in W : f.answers[r] \in {"auto", "review"}
      /\ \A r \in Rows : r \in told <=> f.answers[r] = "error" \/ r \in W
      /\ told \subseteq Rows
  BY <1>2, <1>4, <1>6 DEF LocalsOK, CellsFor
<1>10. fresh = W
  BY <1>6, <1>9
<1>11. \A r \in told : /\ f.answers[r] \in {"auto", "review", "error"}
                       /\ \E c \in f.cands : c.id = r
  BY <1>9, <1>4 DEF LocalsOK
<1>12. \A r \in told : src(r) \in Sources
  BY <1>11 DEF Fill, Candidate
<1> HIDE DEF told, src, fresh
<1>13. /\ clock \in Int /\ clock' \in 0 .. MaxClock /\ clock' >= clock
       /\ \A w \in Writers : Busy(w) => clock' - writer[w].at <= WriteLimit
       /\ W # {} => clock' = clock + 1
  <2>1. clock \in 0 .. MaxClock /\ clock \in Int /\ MaxClock \in Nat
    BY <1>1, RowFacts
  <2>2. CASE f.pending = {}
    <3>1. clock' = clock /\ W = {}
      BY <1>8, <2>2
    <3>2. \A w \in Writers : Busy(w) => clock - writer[w].at <= WriteLimit
      BY DEF ColumnsInv, WriterOK
    <3>3. QED
      BY <2>1, <3>1, <3>2
  <2>3. CASE f.pending # {}
    <3>1. /\ clock < MaxClock /\ clock' = clock + 1
          /\ \A w \in Writers : Busy(w) => clock + 1 - writer[w].at <= WriteLimit
      BY <1>8, <2>3 DEF Advance
    <3>2. clock' \in 0 .. MaxClock /\ clock' >= clock
      BY <2>1, <3>1
    <3>3. ASSUME NEW w \in Writers, Busy(w)
          PROVE  clock' - writer[w].at <= WriteLimit
      BY <1>1, <3>1, <3>3, RowFacts, <2>1, ColumnConstants
    <3>4. QED
      BY <2>1, <3>1, <3>2, <3>3
  <2>4. QED
    BY <2>2, <2>3
<1>14. ASSUME NEW r \in Rows
       PROVE  /\ row'[r] \in Row /\ row'[r].life = row[r].life /\ row'[r].src = row[r].src
              /\ r \notin W => row'[r] = row[r]
              /\ r \in W => /\ row'[r].at = clock + 1
                            /\ row'[r].val = IF f.answers[r] = "auto" THEN "model" ELSE "none"
  <2>1. CASE r \notin W
    BY <1>1, <1>8, <2>1
  <2>2. CASE r \in W
    BY <1>13, <2>2, <1>1, <1>8 DEF Values, Row
  <2>3. QED
    BY <2>1, <2>2
<1>15. row' \in [Rows -> Row]
  BY <1>8, <1>14
<1>16. ASSUME NEW r \in Rows
       PROVE  /\ cell'[r] \in Cell
              /\ r \notin told \/ cell[r].status = "manual" => cell'[r] = cell[r]
              /\ r \in told /\ cell[r].status # "manual" => cell'[r].status = f.answers[r]
  BY <1>1, <1>8, <1>12, <1>11 DEF HashOf, Hash, Fill, Cell
<1>17. cell' \in [Rows -> Cell]
  BY <1>8, <1>16
<1>18. kept \in [Rows -> {"no", "refill", "asked", "question"}] /\ \A r \in Rows \ told : kept[r] = p.dropped[r]
  BY DEF Past
<1> HIDE DEF kept
<1>19. past' = [dropped |-> kept, sure |-> p.sure, fresh |-> p.fresh \cup fresh, wanted |-> p.wanted]
  BY <1>7 DEF Past
<1>20. /\ past' \in Past /\ past'.dropped = kept /\ past'.sure = p.sure
       /\ past'.fresh = p.fresh \cup W /\ past'.wanted = p.wanted
  BY <1>6, <1>10, <1>18, <1>19 DEF Past
<1>21. PICK g \in Fill : g = fill'
  BY <1>7 DEF Fill
<1>22. /\ g.pc = "advance" /\ g.pass = f.pass /\ g.cands = f.cands /\ g.page = f.page /\ g.answers = f.answers
       /\ g.examined = f.examined /\ g.asked = f.asked /\ g.fp = f.fp /\ g.ceiling = f.ceiling
  BY <1>7, <1>21 DEF Fill
<1>23. TypeOK'
  BY <1>1, <1>7, <1>13, <1>15, <1>17, <1>20, <1>21 DEF TypeOK
<1>24. RequestedFillHappens'
  BY <1>2, <1>3, <1>4, <1>7, <1>20 DEF ColumnsInv, RequestedFillHappens
<1>25. ASSUME NEW r \in past'.fresh, r \in Live'
       PROVE  /\ cell'[r].status = "auto" => row'[r].val = "model"
              /\ cell'[r].status = "review" => row'[r].val = "none"
  BY <1>20, <1>25, <1>9, <1>14, <1>16, <1>3 DEF Live, ColumnsInv, CellTellsOfValue
<1>26. CellTellsOfValue'
  BY <1>25 DEF CellTellsOfValue
<1>27. ASSUME NEW r \in W
       PROVE  r \in Rows /\ row'[r].at >= Horizon /\ row'[r].at \in 0 .. MaxClock
  BY <1>6, <1>14, <1>13, RowFacts, <1>1, ColumnConstants DEF Row, Horizon
<1>28. ASSUME NEW r \in Rows, r \in Live', row'[r].at < Horizon
       PROVE  Calm(r) /\ r \notin W
  <2>1. r \notin W
    BY <1>1, <1>14, <1>15, RowFacts, ColumnConstants, <1>27, <1>28 DEF Row, Horizon
  <2>2. row'[r] = row[r] /\ r \in Live
    BY <1>14, <1>28, <2>1 DEF Live
  <2>3. CASE r \in told
    BY <1>9, <2>1, <2>3, <1>16, <2>2 DEF Excused, Told, Calm
  <2>4. CASE r \notin told
    <3>1. cell'[r] = cell[r] /\ past'.dropped[r] = past.dropped[r]
      BY <1>3, <1>16, <1>18, <1>20, <2>4
    <3>2. QED
      BY <1>7, <1>28, <2>1, <2>2, <3>1, CalmSame
  <2>5. QED
    BY <2>3, <2>4
<1>29. ASSUME NEW w \in Writers
       PROVE  WriterOK(w)'
  BY <1>1, <1>7, RowFacts, <1>14, <1>13, ColumnConstants, WriterLeft DEF ColumnsInv, Busy,
     WriterOK, Recording, Live
<1>30. ASSUME NEW r \in Rows
       PROVE  ColumnRowOK(r)'
  BY <1>14, <1>4, <1>11, <1>16, <1>6, <1>3, <1>20 DEF ColumnsInv, LocalsOK, ColumnRowOK,
     Live
<1>31. ASSUME NEW r \in past'.sure
       PROVE  SureOK(r)'
  BY <1>3, <1>20, <1>2, <1>4, <1>14, <1>16, <1>21, <1>22, <1>7 DEF ColumnsInv, SureOK, Live,
     Recording
<1>32. LocalsOK(fill)'
  BY <1>4, <1>14, <1>22, <1>21 DEF Fill, Candidate, LocalsOK
<1>33. ASSUME fill'.pass = "changed"
       PROVE  ScanOK(fill)'
  <2>1. ScanOK(f)
    BY <1>4, <1>21, <1>22, <1>33
  <2>2. ScanOK(f)'
    BY <1>1, <1>7, <1>13, <1>23, <1>28, <2>1, ScanKept
  <2>3. /\ IsFiniteSet(f.cands) /\ Cardinality(f.cands) <= Budget /\ mark'.fp = f.fp /\ NotPast(f.ceiling)'
        /\ \A x \in f.examined : \A r \in Rows :
              Old(f, r)' /\ ~Before(x, RowPos(r)') => Excused(r)' \/ Waiting(f, r)'
    BY <1>4, <2>2 DEF ScanOK, Scanning
  <2>4. NotPast(f.ceiling) /\ f.ceiling \in Position
    BY <1>4, <2>1 DEF ScanOK, Scanning, Fill
  <2>5. ASSUME NEW r \in Rows, Old(f, r)', Waiting(f, r)'
        PROVE  Excused(r)' \/ Waiting(g, r)'
    <3>1. r \notin W
      <4>1. SUFFICES ASSUME r \in W
                     PROVE  FALSE
        OBVIOUS
      <4>2. Before(f.ceiling, Pos(row'[r].at, r))
        BY <1>1, <1>27, <2>4, <4>1, RowFacts, YoungIsAhead
      <4>3. QED
        BY <2>5, <4>2 DEF Old, RowPos
    <3>2. row'[r] = row[r] /\ r \in Live
      BY <1>14, <2>5, <3>1 DEF Old, Live
    <3>3. PICK c \in f.cands : /\ CandPos(c) = RowPos(r)
                               /\ f.answers[r] \in {"error", "null"} \/ r \in f.pending
      BY <1>4, <2>5, <3>2 DEF Waiting, RowPos
    <3>4. CASE f.answers[r] = "error"
      BY <1>9, <3>4, <1>16 DEF Excused, Told
    <3>5. CASE f.answers[r] = "null"
      BY <1>22, <3>2, <3>3, <3>5 DEF Waiting, RowPos
    <3>6. CASE r \in f.pending
      BY <3>3, <1>6, <3>1, <3>2, <3>6 DEF CandPos, RowPos, Pos
    <3>7. QED
      BY <3>3, <3>4, <3>5, <3>6
  <2>6. \A r \in Rows : Old(g, r)' <=> Old(f, r)'
    BY <1>22 DEF Old
  <2>7. \A x \in g.examined : \A r \in Rows :
              Old(g, r)' /\ ~Before(x, RowPos(r)') => Excused(r)' \/ Waiting(g, r)'
    BY <1>22, <2>3, <2>5, <2>6
  <2>8. NotPast(g.ceiling)'
    BY <1>22, <2>3
  <2>9. ScanOK(g)'
    BY <1>22, <2>3, <2>7, <2>8 DEF ScanOK, Scanning
  <2>10. QED
    BY <1>21, <2>9 DEF ScanOK, Old, Waiting
<1>34. QED
  BY <1>7, <1>13, <1>23, <1>24, <1>26, <1>28, <1>29, <1>30, <1>31, <1>32, <1>33, <1>1, ColumnStep

-----------------------------------------------------------------------------
(* The inductive invariant and what it promises                            *)

LEMMA ColumnsInitially == Init => ColumnsInv
<1> SUFFICES ASSUME Init
             PROVE  ColumnsInv
  OBVIOUS
<1>1. NewRow \in Row /\ NewRow.life = "new"
  BY ColumnConstants DEF NewRow, Row, Values
<1>2. TypeOK
  BY <1>1, CellTypes, ColumnConstants, StartIsAPosition, IdleWriterType, FillTypes DEF Init,
     Mark, Runner, Asker, IdleAsker, Past, TypeOK
<1>3. Live = {} /\ past.fresh = {} /\ past.sure = {} /\ past.wanted = FALSE
  BY <1>1 DEF Init, Live
<1>4. RequestedFillHappens /\ CellTellsOfValue
  BY <1>3 DEF RequestedFillHappens, CellTellsOfValue
<1>5. MarkOK
  <2>1. NothingLeftBehind
    BY <1>3 DEF NothingLeftBehind, Behind
  <2>2. mark.pos.at = 0 /\ mark.pos.id = 0 /\ Horizon = 0
    BY ColumnConstants DEF Init, Start, Pos, Horizon
  <2>3. QED
    BY <2>1, <2>2 DEF MarkOK, NotPast
<1>6. \A w \in Writers : WriterOK(w)
  BY IdleWriterType DEF Init, WriterOK, Busy, Recording
<1>7. \A r \in Rows : ColumnRowOK(r)
  BY <1>3, CellTypes DEF Init, ColumnRowOK
<1>8. PICK g : g = fill /\ g = IdleFill
  BY DEF Init
<1>9. LocalsOK(fill) /\ ScanOK(fill)
  BY <1>8, EmptyNow
<1>10. QED
  BY <1>2, <1>3, <1>4, <1>5, <1>6, <1>7, <1>9 DEF ColumnsInv

LEMMA ColumnsInductive == ColumnsInv /\ [Next]_vars => ColumnsInv'
<1> SUFFICES ASSUME ColumnsInv, [Next]_vars
             PROVE  ColumnsInv'
  OBVIOUS
<1>1. CASE Tick
  BY <1>1, TickKeeps
<1>2. CASE RowWrites
  BY BeginWriteKeeps, CommitWriteKeeps, ReadPriorKeeps, MarkManualKeeps, HandBackKeeps,
     WriteFailsKeeps, DeleteRowKeeps, <1>2 DEF RowWrites
<1>3. CASE Filling
  BY <1>3, StartJobKeeps, FillFailsKeeps, ListColumnsKeeps, SyncColumnKeeps, ReadCeilingKeeps, ReadPageKeeps,
     DeadlineKeeps, ExaminePageKeeps, DecideKeeps, SettleCellsKeeps, WriteBatchKeeps, AdvanceWatermarkKeeps,
     FindErrorsKeeps, ReadRetriedKeeps, DropMissingKeeps, EndRunKeeps DEF Filling
<1>4. CASE Asking
  BY <1>4, RefillKeeps, ResetWatermarkKeeps, ChangeQuestionKeeps, RequestFillKeeps, AskFailsKeeps DEF Asking
<1>5. CASE PurgeOrphans
  BY <1>5, PurgeOrphansKeeps
<1>6. CASE Restart
  BY <1>6, RestartKeeps
<1>7. CASE UNCHANGED vars
  BY <1>7, CellsEmptied DEF vars, ColumnsInv, TypeOK, RequestedFillHappens
<1>8. QED
  BY <1>1, <1>2, <1>3, <1>4, <1>5, <1>6, <1>7 DEF Next

LEMMA ColumnsPromises ==
    ASSUME ColumnsInv
    PROVE  NothingLeftBehind /\ RecordedValueStands /\ CellTellsOfValue /\ RequestedFillHappens
BY DEF ColumnsInv, MarkOK, RecordedValueStands, SureOK

\* An AI column's bookkeeping keeps its invariant, whatever the writes, the asks, the fills and
\* the restarts do between one another's steps (columns.ts, fill.ts, records-service.ts).
THEOREM ColumnsInvariance == Spec => []ColumnsInv
BY ColumnsInitially, ColumnsInductive, PTL DEF Spec

\* No changed row is left behind the watermark without an answer, a failure to retry or a
\* person's value, but for what a refill or a changed question discarded: the mark stays Lag
\* behind the clock, and a write commits within WriteLimit (columns.ts:27-33, 335-342).
THEOREM NothingIsLeftBehind == Spec => []NothingLeftBehind
<1>1. ColumnsInv => NothingLeftBehind
  BY ColumnsPromises
<1>2. QED
  BY ColumnsInvariance, <1>1, PTL

\* A value a person has set and the cell has on record stays, whatever answer a fill that was
\* already under way comes back with (cells.ts:151, columns.ts:400-407).
THEOREM RecordedValuesStand == Spec => []RecordedValueStands
<1>1. ColumnsInv => RecordedValueStands
  BY ColumnsPromises
<1>2. QED
  BY ColumnsInvariance, <1>1, PTL

\* A fill that was asked for while another runs is not forgotten: it has begun, or the run that
\* holds the company's lock will go round again (columns.ts:233-250, 271-273).
THEOREM RequestedFillsHappen == Spec => []RequestedFillHappens
<1>1. ColumnsInv => RequestedFillHappens
  BY ColumnsPromises
<1>2. QED
  BY ColumnsInvariance, <1>1, PTL

-----------------------------------------------------------------------------
(* The behaviours of MCDataParts                                           *)

\* Each behaviour is about one part.
DataParts ==
    /\ part \in {"columns", "rows", "accounts"}
    /\ part = "rows" => RowsInv
    /\ part = "accounts" => AccountsInv
    /\ part = "columns" => ColumnsInv

LEMMA DataPartsInitially == DataInit => DataParts
BY ColumnsInitially, RowsInitially, AccountsInitially DEF DataInit, DataParts

LEMMA DataPartsInductive == DataParts /\ [DataNext]_<<part, vars, rowsVars, accountVars>> => DataParts'
<1>1. SUFFICES ASSUME DataParts, [DataNext]_<<part, vars, rowsVars, accountVars>>
               PROVE  DataParts'
  OBVIOUS
<1>2. part' = part
  BY <1>1 DEF DataNext
<1>3. part = "rows" => [CompanyRowsNext]_rowsVars
  BY <1>1 DEF DataNext
<1>4. part = "accounts" => [AccountsNext]_accountVars
  BY <1>1 DEF DataNext
<1>5. part = "columns" => [Next]_vars
  BY <1>1 DEF DataNext
<1>6. QED
  BY <1>1, <1>2, <1>3, <1>4, <1>5, ColumnsInductive, RowsInductive, AccountsInductive DEF DataParts

\* The AI column is filled without loss in every behaviour that is about it: no row it owes an
\* answer is passed by, a person's value stands, and a cell tells how its row's value came to
\* be (decisions/columns.ts, cells.ts).
THEOREM ColumnsStayFilled == DataSpec => []ColumnsAreFilled
<1>1. ColumnsInv => TypeOK
  BY DEF ColumnsInv
<1>2. DataParts => ColumnsAreFilled
  BY <1>1, ColumnsPromises DEF DataParts, ColumnsAreFilled
<1>3. QED
  BY <1>2, DataPartsInitially, DataPartsInductive, PTL DEF DataSpec

\* Calls on a company's rows stay whole in every behaviour that is about them, whatever fails,
\* breaks or is lost (company-scope.ts, audit.ts, records-service.ts).
THEOREM RowCallsStayWhole == DataSpec => []RowCallsAreWhole
<1>1. DataParts => RowCallsAreWhole
  BY RowsPromises DEF DataParts, RowCallsAreWhole
<1>2. QED
  BY <1>1, DataPartsInitially, DataPartsInductive, PTL DEF DataSpec

\* The accounts keep their promises in every behaviour that is about them.
THEOREM AccountsStayRight == DataSpec => []AccountsHold
<1>1. DataParts => AccountsHold
  BY AccountsPromises DEF DataParts, AccountsHold
<1>2. QED
  BY <1>1, DataPartsInitially, DataPartsInductive, PTL DEF DataSpec
=============================================================================
