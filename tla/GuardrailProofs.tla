--------------------------- MODULE GuardrailProofs ---------------------------
(***************************************************************************)
(* Theorems about the three things that may stop a call.                   *)
(*                                                                         *)
(* Guardrail, for every set of callers, actions and tasks and every bound: *)
(* IInv is the inductive invariant; its parts say how a card, its hold,    *)
(* the hold's replacement and the calls settling it are related.           *)
(*                                                                         *)
(* DataAccess, for every number of calls and groups, every lifetime of the *)
(* cache and every timeout of a listing.  AccessInv is the inductive       *)
(* invariant: what the role and the level a call has read are still worth  *)
(* (RoleOK, LevelOK), also to the calls that joined its listing (JoinOK),  *)
(* how old a cached role is (RolesOK), whom a pass may drop (PassOK), and  *)
(* how many groups may still be made (GroupsOK).                           *)
(*                                                                         *)
(* AppBridge, for any calls, rates, windows and versions.  BridgeInv       *)
(* is the inductive invariant: what the guard still counts of its frame's  *)
(* history (BooksKept), what is loaded in the frame (FrameOK), and where   *)
(* every call is between the app and the page (FrameCallsOK).              *)
(***************************************************************************)
EXTENDS MCGuardedBridge, MCGuardedAccess, FiniteSetTheorems, WellFoundedInduction, TLAPS

-----------------------------------------------------------------------------
(* The guardrail                                                           *)


Raised(k)   == cards[k].status # "none"
Stored(k)   == holds[k].status # "none"
Accepted(k) == cards[k].status = "accepted" /\ cards[k].by = "person"

SameCall(j, k) == cards[j].action = cards[k].action /\ cards[j].issue = cards[k].issue

\* The cards are 1..ncards; a card carries a count exactly if its action has
\* one, and a replacement card is later, of the same call and for more rows.
CardOK(k) ==
    /\ Raised(k) <=> k <= ncards
    /\ Raised(k) => (cards[k].rows = NoCount <=> cards[k].action \notin Counted)
    /\ Raised(k) /\ cards[k].parent # NoCard =>
          LET p == cards[k].parent IN
          /\ p < k /\ Stored(p) /\ SameCall(k, p)
          /\ cards[k].rows > cards[p].rows

CardsOK == \A k \in CardIds : CardOK(k)

\* A hold carries its card's count, and lives no shorter than the one it
\* replaces; only a hold past its grace is purged.
HoldOK(k) ==
    /\ ~Stored(k) => ~holds[k].consumed /\ holds[k].superseded = NoCard
    /\ Stored(k) =>
          /\ Raised(k)
          /\ holds[k].shown = cards[k].rows
          /\ holds[k].expires <= clock + TTL
          /\ cards[k].parent # NoCard =>
                holds[k].expires >= holds[cards[k].parent].expires
    /\ holds[k].status = "purged" => holds[k].expires < clock - Grace
    /\ holds[k].superseded # NoCard =>
          /\ Stored(holds[k].superseded)
          /\ cards[holds[k].superseded].parent = k

HoldsOK == \A k \in CardIds : HoldOK(k)

\* A hold is used only on a person's answer, and its action runs at most once.
ReleasedOK ==
    \A k \in CardIds :
        /\ holds[k].consumed => Accepted(k)
        /\ released[k] <= 1
        /\ released[k] > 0 => holds[k].consumed

Settling == {"recount", "consume", "raiseAgain", "insertAgain", "supersede"}
Person(r) == r.pc = "run" /\ r.how = "person"

\* A request spans at most one tick.
Prompt(r) == r.pc # "idle" => r.now <= clock /\ clock <= r.now + 1

\* The hold a call settles is of its own call, was live when the call began,
\* and from "recount" on a person has allowed it.
SettlesOK(r) ==
    LET h == r.hold IN
    /\ r.pc = "named" => h # NoCard
    /\ r.pc \in {"chain", "card"} \cup Settling \/ Person(r) =>
          /\ h # NoCard /\ Stored(h)
          /\ cards[h].action = r.action /\ cards[h].issue = r.issue
    /\ r.pc = "chain" => holds[h].superseded # NoCard
    /\ r.pc \in {"card"} \cup Settling => holds[h].expires > r.now
    /\ r.pc \in Settling \/ Person(r) => Accepted(h)
    /\ r.pc = "recount" => r.action \in Counted
    /\ (r.pc = "consume" \/ Person(r)) /\ r.action \in Counted =>
          0 <= r.rows /\ r.rows <= holds[h].shown
    /\ r.pc \in {"raiseAgain", "insertAgain"} => r.rows > holds[h].shown /\ r.action \in Counted
    /\ Person(r) => holds[h].consumed /\ released[h] = 0

\* The card a call has raised is of its own call and count, and its own hold
\* is not stored before the call stores it, unless it replaces another.
RaisesOK(r) ==
    LET k == r.card IN
    /\ r.pc \in {"insertAgain", "supersede"} =>
          k # NoCard /\ Raised(k) /\ cards[k].parent = r.hold
    /\ r.pc = "insertAgain" => cards[k].rows = r.rows
    /\ r.pc = "supersede" => Stored(k)
    /\ r.pc \in {"barred", "ask", "raise", "insert"} =>
          (r.rows = NoCount <=> r.action \notin Counted)
    /\ r.pc = "insert" =>
          /\ k # NoCard /\ Raised(k) /\ ~Stored(k) /\ cards[k].parent = NoCard
          /\ cards[k].action = r.action /\ cards[k].rows = r.rows

\* The model is asked only once every hold that was open is closed.
BarredOK(r) ==
    /\ r.pc # "idle" => \A j \in r.barred :
          /\ Stored(j) /\ cards[j].action = r.action
          /\ holds[j].expires > r.now - Grace
    /\ r.pc = "ask" \/ (r.pc = "run" /\ r.how = "model") => \A j \in r.barred : ~Open(j)

CallOK(r) == Prompt(r) /\ SettlesOK(r) /\ RaisesOK(r) /\ BarredOK(r)

CallsOK == \A c \in Callers : CallOK(call[c])

\* Two calls never share a fresh card, nor an answer.
CallsApart ==
    \A c, d \in Callers : c # d =>
        /\ call[c].pc = "insert" /\ call[d].pc = "insert" => call[c].card # call[d].card
        /\ Person(call[c]) /\ Person(call[d]) => call[c].hold # call[d].hold

IInv == TypeOK /\ CardsOK /\ HoldsOK /\ ReleasedOK /\ CallsOK /\ CallsApart

-----------------------------------------------------------------------------
LEMMA Constants ==
    /\ AnyAction \in Actions /\ AnyIssue \in Issues
    /\ Idle \in Call /\ NoCardYet \in Card /\ NoHold \in Hold
BY ConstantsAssumption
   DEF ConstantsAssumption, AnyAction, AnyIssue, Idle, NoCardYet, NoHold,
       Call, Card, Hold, Steps, CardIds, CardStatus, NoCard, NoCount

\* A step of a call replaces its locals by locals of the same type.
StepsTo(c) == \E r \in Call : call' = [call EXCEPT ![c] = r]

LEMMA CallType ==
    ASSUME TypeOK, NEW c \in Callers, Begin(c) \/ Proceed(c) \/ Fail(c)
    PROVE  StepsTo(c)
<1> DEFINE r == call[c]
<1>1. r \in Call
  BY DEF TypeOK
<1>2. 0 \in 0..MaxHops
  BY ConstantsAssumption
<1>3. ASSUME NEW s \in Call, Goto(c, s)
      PROVE  StepsTo(c)
  BY <1>3 DEF Goto, StepsTo
<1>4. ASSUME Return(c)
      PROVE  StepsTo(c)
  BY <1>3, <1>4, Constants DEF Return
<1>5. ASSUME NEW k \in CardIds, AfterNamed(c, k)
      PROVE  StepsTo(c)
  BY <1>1, <1>2, <1>3, <1>4, <1>5 DEF Call, Steps, AfterNamed
<1>6. ASSUME NEW k \in CardIds, NEW h \in Nat, Follow(c, k, h)
      PROVE  StepsTo(c)
  <2>1. h < MaxHops => [r EXCEPT !.hold = k, !.hops = h, !.pc = "chain"] \in Call
    <3>1. h < MaxHops => h \in 0..MaxHops
      BY ConstantsAssumption
    <3>2. QED
      BY <1>1, <3>1 DEF Call, Steps
  <2>2. QED
    BY <1>3, <1>5, <1>6, <2>1 DEF Follow
<1>7. ASSUME NEW a \in Actions, NEW i \in Issues, NEW k \in 0..ncards, Start(c, a, i, k)
      PROVE  StepsTo(c)
  <2>1. UnreleasedHolds(a, clock) \in SUBSET CardIds
    BY DEF UnreleasedHolds
  <2>2. clock \in Nat /\ k \in CardIds \cup {NoCard}
    BY ConstantsAssumption DEF TypeOK, CardIds, NoCard
  <2>3. [Idle EXCEPT !.action = a, !.issue = i, !.now = clock, !.hold = k,
                     !.pc = IF k # NoCard THEN "named" ELSE "live",
                     !.barred = UnreleasedHolds(a, clock)] \in Call
    BY <2>1, <2>2, Constants DEF Call, Steps
  <2>4. QED
    BY <1>3, <1>7, <2>3 DEF Start
<1>8. CASE FindNamed(c)
  BY <1>4, <1>6, <1>8 DEF FindNamed, Kept
<1>9. CASE FollowChain(c)
  <2>1. r.hops + 1 \in Nat
    BY <1>1, ConstantsAssumption DEF Call
  <2>2. CASE Kept(holds[r.hold].superseded)
    BY <1>6, <1>9, <2>1, <2>2 DEF FollowChain, Kept
  <2>3. CASE ~Kept(holds[r.hold].superseded)
    BY <1>9, <2>3, <1>1, <1>2, <1>3, <1>4 DEF FollowChain, Call, Steps, AfterNamed
  <2>4. QED
    BY <2>2, <2>3
<1>10. CASE FindLive(c)
  BY <1>1, <1>3, <1>10 DEF Call, Steps, FindLive
<1>11. CASE ReadCard(c)
  BY <1>1, <1>11, Constants, ZenonT(40) DEF ReadCard, AcceptedByPerson, ShowsCount, StepsTo, Goto, Return, Call, Steps, NoCard
<1>12. CASE Recount(c)
  <2>1. rows[r.action] \in Nat
    BY <1>1 DEF Call, TypeOK
  <2>2. QED
    BY <1>1, <1>12, <2>1 DEF Recount, StepsTo, Goto, Call, Steps
<1>13. CASE Consume(c)
  BY <1>1, <1>3, <1>4, <1>13 DEF Call, Steps, Consume, Usable
<1>14. CASE CountRows(c)
  <2>1. rows[r.action] \in Nat
    BY <1>1 DEF Call, TypeOK
  <2>2. QED
    BY <1>1, <1>14, <2>1 DEF CountRows, StepsTo, Goto, Call, Steps
<1>15. CASE CheckBarred(c)
  BY <1>1, <1>15 DEF CheckBarred, StepsTo, Goto, Call, Steps
<1>16. CASE AskModel(c)
  BY <1>1, <1>16, ZenonT(40) DEF AskModel, StepsTo, Goto, Call, Steps
<1>17. CASE Raise(c)
  BY <1>1, <1>17 DEF Raise, StepsTo, Goto, Call, Steps
<1>18. CASE RaiseAgain(c)
  BY <1>18, <1>1 DEF RaiseAgain, SameKey, StepsTo, Goto, Call, Steps
<1>19. CASE InsertAgain(c)
  BY <1>1, <1>19 DEF InsertAgain, StepsTo, Goto, Call, Steps
<1>20. CASE Insert(c) \/ Supersede(c) \/ Run(c) \/ Fail(c)
  BY <1>4, <1>20 DEF Insert, Supersede, Run, Fail
<1>21. QED
  BY <1>7, <1>8, <1>9, <1>10, <1>11, <1>12, <1>13, <1>14, <1>15, <1>16, <1>17,
     <1>18, <1>19, <1>20 DEF Begin, Proceed

\* The type invariant is inductive by itself.
LEMMA TypeInductive ==
    ASSUME TypeOK, [Next]_vars
    PROVE  TypeOK'
<1> USE DEF world, core
<1>1. CASE UNCHANGED vars
  BY <1>1 DEF vars, TypeOK
<1>2. ASSUME NEW c \in Callers, Begin(c) \/ Proceed(c) \/ Fail(c)
      PROVE  TypeOK'
  <2> DEFINE r == call[c]
  <2>1. call' \in [Callers -> Call]
    BY <1>2, CallType DEF StepsTo, TypeOK
  <2>2. r \in Call /\ ncards + 1 \in Nat
    BY ConstantsAssumption DEF TypeOK
  <2>3. CASE \/ Begin(c) \/ FindNamed(c) \/ FollowChain(c) \/ FindLive(c) \/ ReadCard(c)
             \/ Recount(c) \/ CountRows(c) \/ CheckBarred(c) \/ AskModel(c) \/ Fail(c)
    BY <2>1, <2>3
       DEF TypeOK, Begin, Start, FindNamed, FollowChain, FindLive, ReadCard, AcceptedByPerson, ShowsCount, Recount,
           CountRows, CheckBarred, AskModel, Fail
  <2>4. CASE Consume(c)
    <3>1. ASSUME NEW k \in CardIds
          PROVE  [holds[k] EXCEPT !.consumed = TRUE] \in Hold
      BY DEF TypeOK, Hold
    <3>2. holds' \in [CardIds -> Hold]
      BY <2>4, <3>1 DEF Consume, Usable, TypeOK
    <3>3. QED
      BY <2>1, <2>4, <3>2 DEF Consume, Usable, TypeOK
  <2>5. ASSUME NEW p \in CardIds \cup {NoCard}
        PROVE  NewCard(c, p) \in Card
    BY <2>2 DEF NewCard, Card, Call, CardStatus
  <2>6. ASSUME NEW k \in CardIds, NEW n \in Nat \cup {NoCount}
        PROVE  WithHold(k, n) \in [CardIds -> Hold]
    <3>1. clock + TTL \in Nat /\ Births + 1 \in Nat
      <4>1. IsFiniteSet(CardIds)
        BY ConstantsAssumption, FS_Interval DEF CardIds
      <4>2. Births \in Nat
        BY <4>1, FS_Subset, FS_CardinalityType DEF Births
      <4>3. QED
        BY <4>2, ConstantsAssumption DEF TypeOK
    <3>2. [NoHold EXCEPT !.status = "kept", !.shown = n,
                         !.expires = clock + TTL, !.born = Births + 1] \in Hold
      BY <3>1, Constants DEF Hold
    <3>3. QED
      BY <3>2 DEF WithHold, TypeOK
  <2>7. CASE Raise(c)
    BY <2>1, <2>2, <2>5, <2>7 DEF Raise, TypeOK, CardIds
  <2>8. CASE RaiseAgain(c)
    <3>1. r.hold \in CardIds \cup {NoCard}
      BY <2>2 DEF Call
    <3>2. ASSUME NEW k \in CardIds, NEW n \in Card
          PROVE  [cards EXCEPT ![k] = n] \in [CardIds -> Card]
      BY DEF TypeOK
    <3>3. NewCard(c, r.hold) \in Card
      BY <2>5, <3>1
    <3>4. UNCHANGED core \/ /\ ncards + 1 \in CardIds /\ ncards' = ncards + 1
                            /\ cards' = [cards EXCEPT ![ncards + 1] = NewCard(c, r.hold)]
      BY <2>8 DEF RaiseAgain
    <3>5. cards' \in [CardIds -> Card] /\ ncards' \in 0..MaxCards
      BY <3>2, <3>3, <3>4 DEF TypeOK, CardIds
    <3>6. QED
      BY <2>1, <2>8, <3>5 DEF RaiseAgain, TypeOK
  <2>9. CASE Insert(c)
    BY <2>2, <2>1, <2>6, <2>9 DEF Call, Insert, TypeOK, WithHold
  <2>10. CASE InsertAgain(c)
    BY <2>2, <2>1, <2>6, <2>10 DEF Call, InsertAgain, TypeOK, WithHold
  <2>11. CASE Supersede(c)
    <3>1. ASSUME NEW k \in CardIds, NEW s \in CardIds \cup {NoCard}
          PROVE  [holds[k] EXCEPT !.superseded = s] \in Hold
      BY DEF TypeOK, Hold
    <3>2. r.card \in CardIds \cup {NoCard}
      BY <2>2 DEF Call
    <3>3. holds' \in [CardIds -> Hold]
      BY <2>11, <3>1, <3>2 DEF Supersede, TypeOK
    <3>4. QED
      BY <2>1, <2>11, <3>3 DEF Supersede, TypeOK
  <2>12. CASE Run(c)
    <3>1. ASSUME NEW k
          PROVE  [released EXCEPT ![k] = @ + 1] \in [CardIds -> Nat]
      <4>1. released \in [CardIds -> Nat]
        BY DEF TypeOK
      <4>2. k \in CardIds => released[k] + 1 \in Nat
        BY <4>1
      <4>3. QED
        BY <4>1, <4>2
    <3>2. released' \in [CardIds -> Nat]
      BY <2>12, <3>1 DEF Run, TypeOK
    <3>3. QED
      BY <2>1, <2>12, <3>2 DEF Run, TypeOK
  <2>13. QED
    BY <1>2, <2>3, <2>4, <2>7, <2>8, <2>9, <2>10, <2>11, <2>12 DEF Proceed
<1>3. ASSUME NEW k \in CardIds, NEW s \in {"accepted", "rejected", "closed"},
             NEW by \in {"nobody", "person", "agent"}, Resolve(k, s, by)
      PROVE  TypeOK'
  <2>1. [cards[k] EXCEPT !.status = s, !.by = by] \in Card
    BY DEF TypeOK, Card, CardStatus
  <2>2. cards' \in [CardIds -> Card]
    BY <1>3, <2>1 DEF Resolve, TypeOK
  <2>3. QED
    BY <1>3, <2>2 DEF Resolve, TypeOK
<1>4. ASSUME NEW a \in Actions, NEW n \in 0..MaxRows, SetRows(a, n)
      PROVE  TypeOK'
  BY <1>4 DEF SetRows, TypeOK
<1>5. CASE Tick
  BY <1>5, ConstantsAssumption DEF Tick, TypeOK
<1>6. CASE Purge
  BY <1>6 DEF TypeOK, Hold, Purge, Purgeable
<1>7. QED
  BY <1>1, <1>2, <1>3, <1>4, <1>5, <1>6 DEF Next, Environment

-----------------------------------------------------------------------------
LEMMA Fields ==
    ASSUME TypeOK, NEW k \in CardIds
    PROVE  /\ cards[k].parent \in CardIds \cup {NoCard} /\ cards[k].rows \in Int
           /\ holds[k].superseded \in CardIds \cup {NoCard}
           /\ holds[k].shown \in Int /\ holds[k].expires \in Nat /\ k \in Nat
BY ConstantsAssumption, SMTT(20) DEF TypeOK, Card, Hold, NoCount, CardIds

\* What no step takes back: a card keeps its call, its count and a person's
\* yes; a hold keeps its life and its count, and once closed stays closed.
Grows ==
    \A k \in CardIds :
        /\ Raised(k) =>
              /\ Raised(k)'
              /\ cards'[k].action = cards[k].action /\ cards'[k].issue = cards[k].issue
              /\ cards'[k].parent = cards[k].parent /\ cards'[k].rows = cards[k].rows
        /\ Accepted(k) => Accepted(k)'
        /\ Stored(k) =>
              /\ Stored(k)'
              /\ holds'[k].expires = holds[k].expires /\ holds'[k].shown = holds[k].shown
              /\ ~Open(k) => ~Open(k)'
        /\ holds[k].superseded # NoCard => holds'[k].superseded = holds[k].superseded
        /\ holds[k].consumed => holds'[k].consumed

\* What a step must leave alone for a call it does not advance.
Untouched(r) ==
    /\ r.pc = "insert" => holds'[r.card].status = "none"
    /\ Person(r) => released'[r.hold] = 0
    /\ r.pc # "idle" => clock <= clock' /\ clock' <= r.now + 1

LEMMA CallFrame ==
    ASSUME TypeOK, TypeOK', HoldsOK, NEW r \in Call, CallOK(r), Grows, Untouched(r)
    PROVE  CallOK(r)'
<1>1. r.hold \in CardIds \cup {NoCard} /\ r.card \in CardIds \cup {NoCard}
      /\ r.barred \in SUBSET CardIds /\ r.now \in Nat
  BY DEF Call
<1>2. clock \in Nat /\ clock' \in Nat
  BY ConstantsAssumption DEF TypeOK
<1>3. Prompt(r)'
  BY <1>1, <1>2 DEF CallOK, Prompt, Untouched
<1>4. SettlesOK(r)'
  <2> DEFINE h == r.hold
  <2>1. ASSUME r.pc \in {"chain", "card"} \cup Settling \/ Person(r)
        PROVE  /\ h \in CardIds /\ Stored(h)' /\ cards'[h].action = r.action
               /\ cards'[h].issue = r.issue /\ holds'[h].shown = holds[h].shown
               /\ holds'[h].expires = holds[h].expires
    BY <1>1, <2>1 DEF CallOK, SettlesOK, HoldsOK, HoldOK, Grows
  <2>2. r.pc \in Settling \/ Person(r) => Accepted(h)'
    BY <2>1 DEF CallOK, SettlesOK, Grows
  <2>3. r.pc = "chain" => holds'[h].superseded # NoCard
    BY <2>1 DEF CallOK, SettlesOK, Grows
  <2>4. Person(r) => holds'[h].consumed /\ released'[h] = 0
    BY <2>1 DEF CallOK, SettlesOK, Grows, Untouched
  <2>5. QED
    BY <2>1, <2>2, <2>3, <2>4 DEF CallOK, SettlesOK, Settling, Person
<1>5. RaisesOK(r)'
  BY <1>1 DEF CallOK, RaisesOK, Grows, Untouched, Stored
<1>6. BarredOK(r)'
  BY <1>1 DEF CallOK, BarredOK, HoldsOK, HoldOK, Grows
<1>7. QED
  BY <1>3, <1>4, <1>5, <1>6 DEF CallOK

\* A step of one call: the others keep what they rely on.
LEMMA StepFrame ==
    ASSUME TypeOK, TypeOK', HoldsOK, CallsOK,
           NEW c \in Callers, NEW s \in Call, call' = [call EXCEPT ![c] = s],
           Grows, \A d \in Callers \ {c} : Untouched(call[d]), CallOK(s)'
    PROVE  CallsOK'
<1> SUFFICES ASSUME NEW d \in Callers
             PROVE  CallOK(call[d])'
  BY DEF CallsOK
<1>1. CASE d = c
  <2>1. call'[d] = s
    BY <1>1 DEF TypeOK
  <2>2. QED
    BY <2>1 DEF CallOK, Prompt, SettlesOK, RaisesOK, BarredOK, Person, Settling
<1>2. CASE d # c
  <2>1. PICK r \in Call : r = call[d]
    BY DEF TypeOK
  <2>2. call'[d] = r
    BY <1>2, <2>1 DEF TypeOK
  <2>3. CallOK(r)'
    BY <1>2, <2>1, CallFrame DEF CallsOK
  <2>4. QED
    BY <2>2, <2>3 DEF CallOK, Prompt, SettlesOK, RaisesOK, BarredOK, Person, Settling
<1>3. QED
  BY <1>1, <1>2

\* A step that only reads: nothing but the call's own locals changes.
LEMMA QuietStep ==
    ASSUME IInv, TypeOK', NEW c \in Callers, NEW s \in Call,
           call' = [call EXCEPT ![c] = s],
           UNCHANGED <<clock, ncards, cards, holds, released>>,
           CallOK(s), s.pc # "insert", ~Person(s)
    PROVE  IInv'
<1> USE DEF IInv
<1>1. CardsOK' /\ HoldsOK' /\ ReleasedOK'
  BY DEF CardsOK, CardOK, HoldsOK, HoldOK, ReleasedOK, Raised, Stored, SameCall, Accepted
<1>2. Grows
  BY DEF Grows, Raised, Stored, Accepted, Open, Kept
<1>3. CallOK(s)'
  BY DEF CallOK, Prompt, SettlesOK, RaisesOK, BarredOK, Raised, Stored, Accepted, Person,
         Settling, Open, Kept
<1>4. ASSUME NEW d \in Callers
      PROVE  Untouched(call[d])
  <2>1. CallOK(call[d]) /\ clock \in Nat
    BY ConstantsAssumption DEF CallsOK, TypeOK
  <2>2. call[d].pc = "insert" => holds'[call[d].card].status = "none"
    BY <2>1 DEF CallOK, RaisesOK, Stored, Raised
  <2>3. Person(call[d]) => released'[call[d].hold] = 0
    BY <2>1 DEF CallOK, SettlesOK, Settling, Person
  <2>4. call[d].pc # "idle" => clock <= clock' /\ clock' <= call[d].now + 1
    BY <2>1 DEF CallOK, Prompt
  <2>5. QED
    BY <2>2, <2>3, <2>4 DEF Untouched
<1>5. CallsOK'
  BY <1>2, <1>3, <1>4, StepFrame
<1>6. CallsApart'
  BY DEF CallsApart, TypeOK, Person
<1>7. QED
  BY <1>1, <1>5, <1>6

\* The steps that only read: finding the hold, reading its card, counting,
\* asking the model, and giving up.
LEMMA Reads ==
    ASSUME IInv, TypeOK', NEW c \in Callers,
           \/ Begin(c) \/ FindNamed(c) \/ FollowChain(c) \/ FindLive(c) \/ ReadCard(c)
           \/ Recount(c) \/ CountRows(c) \/ CheckBarred(c) \/ AskModel(c) \/ Fail(c)
    PROVE  IInv'
<1> DEFINE r == call[c]
<1> USE DEF CardIds, NoCard, NoCount
<1>1. /\ r \in Call /\ CallOK(r) /\ CardsOK /\ HoldsOK /\ call \in [Callers -> Call]
      /\ clock \in Nat /\ holds \in [CardIds -> Hold] /\ cards \in [CardIds -> Card]
      /\ \A a \in Actions : rows[a] \in Nat
      /\ MaxCards \in Nat /\ Grace \in Nat
  BY ConstantsAssumption DEF IInv, TypeOK, CallsOK
<1>2. UNCHANGED <<clock, ncards, cards, holds, released>>
  BY DEF world, core, Begin, Start, FindNamed, FollowChain, FindLive, ReadCard, AcceptedByPerson, ShowsCount, Recount,
         CountRows, CheckBarred, AskModel, Fail
<1>3. PICK s \in Call : call' = [call EXCEPT ![c] = s]
  BY CallType DEF Proceed, StepsTo, IInv
<1>4. SUFFICES CallOK(s) /\ s.pc # "insert" /\ ~Person(s)
  BY <1>2, <1>3, QuietStep
<1>5. ASSUME NEW t, Goto(c, t)
      PROVE  s = t
  BY <1>1, <1>3, <1>5 DEF Goto
<1>6. CallOK(Idle) /\ Idle.pc # "insert" /\ ~Person(Idle)
  BY DEF Idle, CallOK, Prompt, SettlesOK, RaisesOK, BarredOK, Person, Settling
<1>7. ASSUME Return(c)
      PROVE  CallOK(s) /\ s.pc # "insert" /\ ~Person(s)
  BY <1>5, <1>6, <1>7 DEF Return
<1> HIDE DEF r
<1>8. ASSUME NEW k \in CardIds, Stored(k), cards[k].action = r.action, cards[k].issue = r.issue,
             r.pc \in {"named", "chain"}, AfterNamed(c, k)
      PROVE  CallOK(s) /\ s.pc # "insert" /\ ~Person(s)
  <2>1. CASE holds[k].expires > r.now
    <3>1. s = [r EXCEPT !.hold = k, !.named = k, !.hops = 0, !.pc = "card"]
          \/ Return(c)
      BY <1>5, <1>8 DEF AfterNamed, r
    <3>2. CASE s = [r EXCEPT !.hold = k, !.named = k, !.hops = 0, !.pc = "card"]
      <4>1. /\ s.pc = "card" /\ s.hold = k /\ s.now = r.now /\ s.action = r.action
            /\ s.issue = r.issue /\ s.barred = r.barred
        BY <1>1, <3>2 DEF Call
      <4>2. QED
        BY <1>1, <1>8, <2>1, <4>1
           DEF CallOK, Prompt, SettlesOK, RaisesOK, BarredOK, Person, Settling, Kept, Stored
    <3>3. QED
      BY <1>7, <3>1, <3>2
  <2>2. CASE ~(holds[k].expires > r.now)
    BY <1>1, <1>8, <2>2, <1>7 DEF Hold, Call, AfterNamed, r
  <2>3. QED
    BY <2>1, <2>2
<1>9. ASSUME NEW k \in CardIds, NEW h, Stored(k), cards[k].action = r.action,
             cards[k].issue = r.issue, r.pc \in {"named", "chain"}, Follow(c, k, h)
      PROVE  CallOK(s) /\ s.pc # "insert" /\ ~Person(s)
  <2>1. CASE holds[k].superseded # NoCard /\ h < MaxHops
    <3>1. s = [r EXCEPT !.hold = k, !.hops = h, !.pc = "chain"]
      BY <1>5, <1>9, <2>1 DEF Follow, r
    <3>2. /\ s.pc = "chain" /\ s.hold = k /\ s.now = r.now /\ s.action = r.action
          /\ s.issue = r.issue /\ s.barred = r.barred
      BY <1>1, <3>1 DEF Call
    <3>3. QED
      BY <1>1, <1>9, <2>1, <3>2
         DEF CallOK, Prompt, SettlesOK, RaisesOK, BarredOK, Person, Settling, Kept, Stored
  <2>2. CASE ~(holds[k].superseded # NoCard /\ h < MaxHops)
    BY <1>8, <1>9, <2>2 DEF Follow
  <2>3. QED
    BY <2>1, <2>2
<1>10. ASSUME NEW a \in Actions, NEW i \in Issues, NEW k \in 0..ncards, Start(c, a, i, k)
       PROVE  CallOK(s) /\ s.pc # "insert" /\ ~Person(s)
  <2>1. s = [Idle EXCEPT !.action = a, !.issue = i, !.now = clock, !.hold = k,
                         !.pc = IF k # NoCard THEN "named" ELSE "live",
                         !.barred = UnreleasedHolds(a, clock)]
    BY <1>5, <1>10 DEF Start
  <2>2. /\ s.pc = IF k # NoCard THEN "named" ELSE "live"
        /\ s.hold = k /\ s.now = clock /\ s.action = a /\ s.barred = UnreleasedHolds(a, clock)
    BY <2>1 DEF Idle
  <2>3. \A j \in s.barred : Stored(j) /\ cards[j].action = a /\ holds[j].expires > clock - Grace
    BY <2>2 DEF UnreleasedHolds, Open, Kept, Stored
  <2>4. QED
    BY <1>1, <2>2, <2>3 DEF CallOK, Prompt, SettlesOK, RaisesOK, BarredOK, Person, Settling
<1>11. CASE FindNamed(c)
  BY <1>9, <1>11, <1>7 DEF FindNamed, Kept, Stored, At, r
<1>12. CASE FollowChain(c)
  <2> DEFINE next == holds[r.hold].superseded
  <2>1. r.pc = "chain"
    BY <1>12 DEF FollowChain, At, r
  <2>2. /\ r.hold \in CardIds /\ Stored(r.hold) /\ next # NoCard
        /\ cards[r.hold].action = r.action /\ cards[r.hold].issue = r.issue
    BY <1>1, <2>1 DEF CallOK, SettlesOK, Call
  <2>3. CASE Kept(next)
    <3>1. next \in CardIds /\ Stored(next)
      BY <2>3 DEF Kept, Stored
    <3>2. cards[next].parent = r.hold /\ Raised(next)
      BY <1>1, <2>2, <3>1 DEF HoldsOK, HoldOK
    <3>3. cards[next].action = r.action /\ cards[next].issue = r.issue
      BY <1>1, <2>2, <3>1, <3>2 DEF CardsOK, CardOK, SameCall
    <3>4. Follow(c, next, r.hops + 1)
      BY <1>12, <2>3 DEF FollowChain, r
    <3>5. QED
      BY <1>9, <2>1, <3>1, <3>3, <3>4
  <2>4. CASE ~Kept(next)
    BY <1>8, <1>12, <2>1, <2>2, <2>4 DEF FollowChain, r
  <2>5. QED
    BY <2>3, <2>4
<1>13. CASE FindLive(c)
  <2>1. CASE s = [r EXCEPT !.hold = NoCard, !.named = NoCard, !.pc = "count"]
    <3>1. s.pc = "count" /\ s.now = r.now /\ s.action = r.action /\ s.barred = r.barred
      BY <1>1, <2>1 DEF Call
    <3>2. r.pc # "idle"
      BY <1>13 DEF FindLive, At, r
    <3>3. QED
      BY <1>1, <3>1, <3>2 DEF CallOK, Prompt, SettlesOK, RaisesOK, BarredOK, Person, Settling
  <2>2. ASSUME NEW k \in CardIds, k \in LiveHolds(r.action, r.issue, r.now),
               s = [r EXCEPT !.hold = k, !.named = NoCard, !.pc = "card"]
        PROVE  CallOK(s) /\ s.pc # "insert" /\ ~Person(s)
    <3>1. /\ s.pc = "card" /\ s.hold = k /\ s.now = r.now /\ s.action = r.action
          /\ s.issue = r.issue /\ s.barred = r.barred
      BY <1>1, <2>2 DEF Call
    <3>2. r.pc # "idle"
      BY <1>13 DEF FindLive, At, r
    <3>3. Stored(k) /\ cards[k].action = r.action /\ cards[k].issue = r.issue /\ holds[k].expires > r.now
      BY <2>2 DEF LiveHolds, Open, Kept, Stored
    <3>4. QED
      BY <1>1, <3>1, <3>2, <3>3
         DEF CallOK, Prompt, SettlesOK, RaisesOK, BarredOK, Person, Settling
  <2>3. QED
    BY <1>5, <1>13, <2>1, <2>2 DEF FindLive, IsNewest, r
<1>14. CASE ReadCard(c)
  <2>1. /\ r.pc = "card" /\ r.hold \in CardIds /\ Stored(r.hold)
        /\ cards[r.hold].action = r.action /\ cards[r.hold].issue = r.issue
        /\ holds[r.hold].expires > r.now
    BY <1>1, <1>14 DEF ReadCard, AcceptedByPerson, ShowsCount, At, CallOK, SettlesOK, Call, r
  <2>2. CASE Return(c)
    BY <1>7, <2>2
  <2>3. CASE /\ Accepted(r.hold)
             /\ s = [r EXCEPT !.pc = IF holds[r.hold].shown # NoCount /\ r.action \in Counted
                                     THEN "recount" ELSE "consume"]
    <3>1. /\ s.hold = r.hold /\ s.now = r.now /\ s.action = r.action /\ s.issue = r.issue
          /\ s.barred = r.barred /\ s.rows = r.rows
          /\ s.pc = IF holds[r.hold].shown # NoCount /\ r.action \in Counted
                    THEN "recount" ELSE "consume"
      BY <1>1, <2>3 DEF Call
    <3>2. Raised(r.hold) /\ (holds[r.hold].shown = NoCount <=> r.action \notin Counted)
      BY <1>1, <2>1 DEF HoldsOK, HoldOK, CardsOK, CardOK
    <3>3. QED
      BY <1>1, <2>1, <2>3, <3>1, <3>2
         DEF CallOK, Prompt, SettlesOK, RaisesOK, BarredOK, Person, Settling
  <2>4. CASE s = [r EXCEPT !.hold = NoCard, !.pc = IF r.named # NoCard THEN "live" ELSE "count"]
    <3>1. /\ s.pc = IF r.named # NoCard THEN "live" ELSE "count"
          /\ s.now = r.now /\ s.action = r.action /\ s.barred = r.barred
      BY <1>1, <2>4 DEF Call
    <3>2. QED
      BY <1>1, <2>1, <3>1 DEF CallOK, Prompt, SettlesOK, RaisesOK, BarredOK, Person, Settling
  <2>5. QED
    BY <1>5, <1>14, <2>2, <2>3, <2>4 DEF ReadCard, AcceptedByPerson, ShowsCount, Accepted, r
<1>15. CASE Recount(c)
  <2>1. /\ r.pc = "recount" /\ r.hold \in CardIds /\ Stored(r.hold) /\ r.action \in Counted
    BY <1>1, <1>15 DEF Recount, At, CallOK, SettlesOK, Settling, Call, r
  <2>2. s = [r EXCEPT !.rows = rows[r.action],
               !.pc = IF rows[r.action] > holds[r.hold].shown THEN "raiseAgain" ELSE "consume"]
    BY <1>5, <1>15 DEF Recount, r
  <2>3. /\ s.hold = r.hold /\ s.now = r.now /\ s.action = r.action /\ s.issue = r.issue
        /\ s.barred = r.barred /\ s.rows = rows[r.action]
        /\ s.pc = IF rows[r.action] > holds[r.hold].shown THEN "raiseAgain" ELSE "consume"
    BY <1>1, <2>2 DEF Call
  <2>4. holds[r.hold].shown \in Int /\ rows[r.action] \in Nat
    BY <1>1, <2>1 DEF Hold, Call
  <2>5. QED
    BY <1>1, <2>1, <2>3, <2>4
       DEF CallOK, Prompt, SettlesOK, RaisesOK, BarredOK, Person, Settling
<1>16. CASE CountRows(c)
  <2>1. s = [r EXCEPT !.pc = "barred",
               !.rows = IF r.action \in Counted THEN rows[r.action] ELSE NoCount]
    BY <1>5, <1>16 DEF CountRows, r
  <2>2. /\ s.pc = "barred" /\ s.now = r.now /\ s.action = r.action /\ s.barred = r.barred
        /\ s.rows = IF r.action \in Counted THEN rows[r.action] ELSE NoCount
    BY <1>1, <2>1 DEF Call
  <2>3. r.pc # "idle" /\ rows[r.action] # NoCount
    BY SMTT(20), <1>1, <1>16 DEF CountRows, At, Call, r
  <2>4. QED
    BY <1>1, <2>2, <2>3 DEF CallOK, Prompt, SettlesOK, RaisesOK, BarredOK, Person, Settling
<1>17. CASE CheckBarred(c)
  <2>1. s = [r EXCEPT !.pc = IF UnreleasedHolds(r.action, r.now) # {} THEN "raise" ELSE "ask"]
    BY <1>5, <1>17 DEF CheckBarred, r
  <2>2. /\ s.pc = (IF UnreleasedHolds(r.action, r.now) # {} THEN "raise" ELSE "ask")
        /\ s.now = r.now /\ s.action = r.action /\ s.barred = r.barred /\ s.rows = r.rows
    BY <1>1, <2>1 DEF Call
  <2>3. r.pc = "barred"
    BY <1>17 DEF CheckBarred, At, r
  <2>4. s.pc = "ask" => \A j \in r.barred : ~Open(j)
    BY <1>1, <2>3, <2>2 DEF CallOK, BarredOK, UnreleasedHolds, Call
  <2>5. QED
    BY <1>1, <2>2, <2>3, <2>4 DEF CallOK, Prompt, SettlesOK, RaisesOK, BarredOK, Person, Settling
<1>18. CASE AskModel(c)
  <2>1. s = [r EXCEPT !.pc = "run", !.how = "model"] \/ s = [r EXCEPT !.pc = "raise"]
    BY <1>5, <1>18 DEF AskModel, r
  <2>2. /\ (s.pc = "run" /\ s.how = "model") \/ s.pc = "raise"
        /\ s.now = r.now /\ s.action = r.action /\ s.barred = r.barred /\ s.rows = r.rows
    BY <1>1, <2>1 DEF Call
  <2>3. r.pc = "ask"
    BY <1>18 DEF AskModel, At, r
  <2>4. QED
    BY <1>1, <2>2, <2>3 DEF CallOK, Prompt, SettlesOK, RaisesOK, BarredOK, Person, Settling
<1>19. CASE Fail(c)
  BY <1>7, <1>19 DEF Fail
<1>20. CASE Begin(c)
  BY <1>10, <1>20 DEF Begin
<1>21. QED
  BY <1>11, <1>12, <1>13, <1>14, <1>15, <1>16, <1>17, <1>18, <1>19, <1>20

\* Using a hold up: only an open one, on a person's yes, and for one caller.
LEMMA Consumes ==
    ASSUME IInv, TypeOK', NEW c \in Callers, Consume(c)
    PROVE  IInv'
<1> DEFINE r == call[c]
           k == r.hold
<1> USE DEF CardIds, NoCard, NoCount
<1>1. /\ r \in Call /\ CallOK(r) /\ CardsOK /\ HoldsOK /\ ReleasedOK /\ CallsOK /\ TypeOK
      /\ call \in [Callers -> Call] /\ holds \in [CardIds -> Hold] /\ clock \in Nat
      /\ released \in [CardIds -> Nat]
  BY ConstantsAssumption DEF IInv, TypeOK, CallsOK
<1>2. UNCHANGED <<clock, ncards, cards, released>> /\ r.pc = "consume"
  BY DEF Consume, Usable, world, core, At
<1>3. k \in CardIds /\ Stored(k) /\ Accepted(k) /\ cards[k].action = r.action /\ cards[k].issue = r.issue
  BY <1>1, <1>2 DEF CallOK, SettlesOK, Settling, Call
<1>4. CASE ~(Open(k) /\ holds[k].expires > r.now)
  <2>1. call' = [call EXCEPT ![c] = Idle] /\ holds' = holds
    BY <1>4 DEF Consume, Usable, Return, Goto
  <2>2. CallOK(Idle) /\ Idle.pc # "insert" /\ ~Person(Idle)
    BY DEF Idle, CallOK, Prompt, SettlesOK, RaisesOK, BarredOK, Person, Settling
  <2>3. QED
    BY <1>2, <2>1, <2>2, Constants, QuietStep
<1>5. CASE Open(k)
  <2>1. CASE ~(holds[k].expires > r.now)
    BY <1>4, <2>1
  <2>2. SUFFICES ASSUME holds[k].expires > r.now
                 PROVE  IInv'
    BY <2>1
  <2>3. holds' = [holds EXCEPT ![k].consumed = TRUE]
    BY <1>5, <2>2 DEF Consume, Usable
  <2>4. PICK s \in Call : call' = [call EXCEPT ![c] = s] /\ s = [r EXCEPT !.pc = "run", !.how = "person"]
    BY <1>1, <1>5, <2>2 DEF Call, Steps, Consume, Usable, Goto
  <2>5. /\ s.pc = "run" /\ s.how = "person" /\ s.hold = k /\ s.now = r.now /\ s.action = r.action
        /\ s.issue = r.issue /\ s.barred = r.barred /\ s.rows = r.rows
    BY <1>1, <2>4 DEF Call
  <2>6. /\ \A j \in CardIds : j # k => holds'[j] = holds[j]
        /\ holds'[k].consumed /\ holds'[k].status = holds[k].status
        /\ holds'[k].shown = holds[k].shown /\ holds'[k].expires = holds[k].expires
        /\ holds'[k].superseded = holds[k].superseded
    BY <1>1, <1>3, <2>3 DEF Hold
  <2>7. Grows
    BY <1>2, <1>3, <2>6 DEF Grows, Raised, Stored, Accepted, Open, Kept
  <2>8. ~holds[k].consumed /\ released[k] = 0
    BY <1>1, <1>3, <1>5 DEF Open, ReleasedOK
  <2>9. \A d \in Callers \ {c} : Untouched(call[d])
    <3> TAKE d \in Callers \ {c}
    <3>1. CallOK(call[d]) /\ call[d] \in Call
      BY <1>1 DEF CallsOK
    <3>2. call[d].pc = "insert" => holds'[call[d].card].status = "none"
      BY <1>3, <2>6, <3>1 DEF CallOK, RaisesOK, Stored, Call
    <3>3. Person(call[d]) => released'[call[d].hold] = 0
      BY <1>2, <3>1 DEF CallOK, SettlesOK
    <3>4. call[d].pc # "idle" => clock <= clock' /\ clock' <= call[d].now + 1
      BY <1>1, <1>2, <3>1 DEF CallOK, Prompt
    <3>5. QED
      BY <3>2, <3>3, <3>4 DEF Untouched
  <2>10. CallOK(s)'
    <3>1. Prompt(s)'
      BY <1>1, <1>2, <2>5 DEF CallOK, Prompt
    <3>2. SettlesOK(s)'
      BY <1>1, <1>2, <1>3, <2>5, <2>6, <2>8
         DEF CallOK, SettlesOK, Stored, Accepted, Settling, Person
    <3>3. RaisesOK(s)'
      BY <2>5 DEF RaisesOK
    <3>4. BarredOK(s)'
      BY <1>1, <1>2, <2>6, <2>5 DEF CallOK, Call, BarredOK, Stored
    <3>5. QED
      BY <3>1, <3>2, <3>3, <3>4 DEF CallOK
  <2>11. CallsOK'
    BY <1>1, <2>4, <2>7, <2>9, <2>10, StepFrame
  <2>12. CardsOK' /\ HoldsOK' /\ ReleasedOK'
    <3> DEFINE Same(j) == /\ holds'[j].status = holds[j].status
                          /\ holds'[j].shown = holds[j].shown
                          /\ holds'[j].expires = holds[j].expires
                          /\ holds'[j].superseded = holds[j].superseded
                          /\ j # k => holds'[j].consumed = holds[j].consumed
    <3>4. \A j \in CardIds : Same(j)
      BY <2>6
    <3> HIDE DEF k
    <3>1. CardsOK'
      BY <1>1, <1>2, <3>4, Fields DEF CardsOK, CardOK, Raised, Stored, SameCall
    <3>2. HoldsOK'
      <4> SUFFICES ASSUME NEW j \in CardIds
                   PROVE  HoldOK(j)'
        BY DEF HoldsOK
      <4>1. Same(j) /\ cards[j].parent \in CardIds \cup {NoCard}
            /\ holds[j].superseded \in CardIds \cup {NoCard}
        BY <1>1, <3>4, Fields
      <4>2. cards[j].parent # NoCard => Same(cards[j].parent)
        BY <3>4, <4>1
      <4>3. holds[j].superseded # NoCard => Same(holds[j].superseded)
        BY <3>4, <4>1
      <4>4. QED
        BY <1>1, <1>2, <1>3, <4>1, <4>2, <4>3 DEF HoldsOK, HoldOK, Raised, Stored
    <3>3. ReleasedOK'
      BY <1>1, <1>2, <1>3, <2>6 DEF ReleasedOK, Accepted
    <3>5. QED
      BY <3>1, <3>2, <3>3
  <2>13. CallsApart'
    BY <1>1, <1>3, <2>8, <2>4, <2>5 DEF CallsOK, CallOK, SettlesOK, CallsApart, Person, IInv
  <2>14. QED
    BY <2>11, <2>12, <2>13 DEF IInv
<1>6. QED
  BY <1>4, <1>5

\* A new card: the next id, raised for the caller's own call.
LEMMA NewCardRaised ==
    ASSUME TypeOK, CardsOK, HoldsOK, ReleasedOK, NEW c \in Callers,
           NEW p \in CardIds \cup {NoCard},
           ncards + 1 \in CardIds, ncards' = ncards + 1,
           cards' = [cards EXCEPT ![ncards + 1] = NewCard(c, p)],
           UNCHANGED <<clock, holds, released>>,
           call[c].rows = NoCount <=> call[c].action \notin Counted,
           p # NoCard => /\ Stored(p) /\ call[c].rows > holds[p].shown
                         /\ cards[p].action = call[c].action /\ cards[p].issue = call[c].issue
    PROVE  /\ Grows /\ CardsOK' /\ HoldsOK' /\ ReleasedOK'
           /\ ~Raised(ncards + 1) /\ cards'[ncards + 1] = NewCard(c, p)
<1> DEFINE k == ncards + 1
<1>1. /\ cards \in [CardIds -> Card] /\ ncards \in Nat /\ MaxCards \in Nat
      /\ holds \in [CardIds -> Hold] /\ CardIds = 1..MaxCards
  BY ConstantsAssumption DEF TypeOK, CardIds
<1>2. cards'[k] = NewCard(c, p) /\ \A j \in CardIds : j # k => cards'[j] = cards[j]
  BY <1>1
<1>3. ~Raised(k) /\ ~Stored(k)
  BY <1>1 DEF CardsOK, CardOK, HoldsOK, HoldOK
<1>4. \A j \in CardIds : Raised(j) => j # k /\ cards'[j] = cards[j]
  BY <1>2, <1>3
<1>5. Grows
  BY <1>4 DEF Grows, Raised, Stored, Accepted, Open, Kept
<1> HIDE DEF k
<1>6. CardsOK'
  <2> SUFFICES ASSUME NEW j \in CardIds
               PROVE  CardOK(j)'
    BY DEF CardsOK
  <2>1. CASE j = k
    <3>1. /\ cards'[j].status = "pending" /\ cards'[j].action = call[c].action
          /\ cards'[j].issue = call[c].issue /\ cards'[j].parent = p /\ cards'[j].rows = call[c].rows
      BY <1>2, <2>1 DEF NewCard
    <3>2. p # NoCard => /\ p \in CardIds /\ Raised(p) /\ p < k /\ cards'[p] = cards[p]
                        /\ call[c].rows > cards[p].rows
      BY <1>1, <1>4 DEF CardsOK, CardOK, HoldsOK, HoldOK, k
    <3>3. j <= ncards'
      BY <1>1, <2>1 DEF k
    <3>4. QED
      BY <2>1, <3>1, <3>2, <3>3 DEF CardOK, Raised, Stored, SameCall
  <2>2. CASE j # k
    <3>1. cards'[j] = cards[j] /\ CardOK(j) /\ (j <= ncards' <=> j <= ncards)
      BY <1>1, <1>2, <2>2 DEF CardsOK, k
    <3>2. cards[j].parent \in CardIds \cup {NoCard}
      BY Fields
    <3>3. Raised(j) /\ cards[j].parent # NoCard =>
             cards'[cards[j].parent] = cards[cards[j].parent]
      BY <1>4, <3>1, <3>2 DEF CardOK, HoldsOK, HoldOK
    <3>4. QED
      BY <3>1, <3>2, <3>3 DEF CardOK, Raised, Stored, SameCall
  <2>3. QED
    BY <2>1, <2>2
<1>7. HoldsOK'
  <2> SUFFICES ASSUME NEW j \in CardIds
               PROVE  HoldOK(j)'
    BY DEF HoldsOK
  <2>1. HoldOK(j) /\ holds[j].superseded \in CardIds \cup {NoCard}
    BY Fields DEF HoldsOK
  <2>2. Stored(j) => cards'[j] = cards[j]
    BY <1>4, <2>1 DEF HoldOK
  <2>3. holds[j].superseded # NoCard =>
           cards'[holds[j].superseded] = cards[holds[j].superseded]
    BY <1>4, <2>1 DEF HoldsOK, HoldOK
  <2>4. QED
    BY <2>1, <2>2, <2>3 DEF HoldOK, Raised, Stored
<1>8. ReleasedOK'
  BY <1>3, <1>4 DEF ReleasedOK, Accepted, HoldsOK, HoldOK
<1>9. QED
  BY <1>2, <1>3, <1>5, <1>6, <1>7, <1>8 DEF k

LEMMA RaisesCard ==
    ASSUME IInv, TypeOK', NEW c \in Callers, Raise(c) \/ RaiseAgain(c)
    PROVE  IInv'
<1> DEFINE r == call[c]
<1> USE DEF CardIds, NoCard, NoCount
<1>1. /\ r \in Call /\ CallOK(r) /\ CardsOK /\ HoldsOK /\ ReleasedOK /\ CallsOK /\ TypeOK
      /\ call \in [Callers -> Call] /\ clock \in Nat /\ ncards \in Nat /\ MaxCards \in Nat
      /\ cards \in [CardIds -> Card]
  BY ConstantsAssumption, SMTT(20) DEF IInv, TypeOK, CallsOK
<1>2. UNCHANGED <<clock, holds, released>>
  BY DEF Raise, RaiseAgain, world
<1>3. ASSUME NEW d \in Callers
      PROVE  Untouched(call[d])
  BY <1>1, <1>2 DEF CallsOK, CallOK, RaisesOK, Stored, SettlesOK, Prompt, Untouched
<1>4. CASE Raise(c)
  <2> DEFINE k == ncards + 1
  <2>1. /\ r.pc = "raise" /\ k \in CardIds /\ ncards' = k
        /\ cards' = [cards EXCEPT ![k] = NewCard(c, NoCard)]
    BY <1>4 DEF Raise, At
  <2>2. r.rows = NoCount <=> r.action \notin Counted
    BY <1>1, <2>1 DEF CallOK, RaisesOK
  <2>3. Grows /\ CardsOK' /\ HoldsOK' /\ ReleasedOK' /\ ~Raised(k) /\ cards'[k] = NewCard(c, NoCard)
    BY <1>1, <1>2, <2>1, <2>2, NewCardRaised
  <2>4. PICK s \in Call : call' = [call EXCEPT ![c] = s] /\ s = [r EXCEPT !.pc = "insert", !.card = k]
    BY <1>1, <2>1, <1>4 DEF Call, Steps, Raise, Goto
  <2>5. /\ s.pc = "insert" /\ s.card = k /\ s.now = r.now /\ s.action = r.action
        /\ s.barred = r.barred /\ s.rows = r.rows
    BY <1>1, <2>4 DEF Call
  <2>6. CallOK(s)'
    <3>1. Prompt(s)'
      BY <1>1, <1>2, <2>1, <2>5 DEF CallOK, Prompt
    <3>2. SettlesOK(s)'
      BY <2>5 DEF SettlesOK, Settling, Person
    <3>3. RaisesOK(s)'
      BY <1>1, <2>1, <2>3, <1>2, <2>2, <2>5 DEF HoldsOK, HoldOK, NewCard, RaisesOK, Raised,
         Stored
    <3>4. BarredOK(s)'
      BY <1>1, <2>1, <2>3, <1>2, <2>5 DEF CallOK, BarredOK, Call, Grows, HoldsOK, HoldOK,
         Stored
    <3>5. QED
      BY <3>1, <3>2, <3>3, <3>4 DEF CallOK
  <2>7. CallsOK'
    BY <1>1, <1>3, <2>3, <2>4, <2>6, StepFrame
  <2>8. CallsApart'
    BY <1>1, <2>3, <2>4, <2>5 DEF CallsOK, CallOK, RaisesOK, CallsApart, Person, IInv
  <2>9. QED
    BY <2>3, <2>7, <2>8 DEF IInv
<1>5. CASE RaiseAgain(c)
  <2>11. PICK h \in CardIds : h = r.hold
    BY <1>1, <1>5 DEF RaiseAgain, At, CallOK, SettlesOK, Settling, Call
  <2>1. /\ r.pc = "raiseAgain" /\ h \in CardIds /\ Stored(h) /\ Accepted(h)
        /\ cards[h].action = r.action /\ cards[h].issue = r.issue /\ holds[h].expires > r.now
        /\ r.rows > holds[h].shown /\ r.action \in Counted
    BY <1>1, <1>5, <2>11 DEF RaiseAgain, At, CallOK, SettlesOK, Settling
  <2>2. r.rows \in Int /\ holds[h].shown \in Int /\ r.rows # NoCount
    <3>1. r.rows \in Int
      BY <1>1 DEF Call
    <3>2. holds[h] \in Hold
      BY <1>1 DEF TypeOK
    <3>3. holds[h].shown \in Nat \cup {-1}
      BY <3>2 DEF Hold
    <3>4. QED
      BY <2>1, <3>1, <3>3
  <2>3. PICK k \in CardIds :
           /\ Goto(c, [r EXCEPT !.pc = "insertAgain", !.card = k])
           /\ \/ k \in SameKey(c) /\ UNCHANGED core
              \/ /\ k = ncards + 1 /\ ncards' = k
                 /\ cards' = [cards EXCEPT ![k] = NewCard(c, h)]
    BY <1>5, <2>11 DEF RaiseAgain, SameKey
  <2>4. /\ Grows /\ CardsOK' /\ HoldsOK' /\ ReleasedOK'
        /\ Raised(k)' /\ cards'[k].parent = h /\ cards'[k].rows = r.rows
    <3>1. CASE k \in SameKey(c) /\ UNCHANGED core
      <4>1. CardsOK' /\ HoldsOK' /\ ReleasedOK'
        BY <1>1, <1>2, <3>1
           DEF CardsOK, CardOK, HoldsOK, HoldOK, ReleasedOK, Raised, Stored, SameCall, Accepted, core
      <4>2. Grows
        BY <1>2, <3>1 DEF Grows, Raised, Stored, Accepted, Open, Kept, core
      <4>3. QED
        BY <2>11, <3>1, <4>1, <4>2 DEF SameKey, Raised, core
    <3>2. CASE /\ k = ncards + 1 /\ ncards' = k
               /\ cards' = [cards EXCEPT ![k] = NewCard(c, h)]
      BY <1>1, <1>2, <2>1, <2>2, <3>2, NewCardRaised DEF NewCard, Raised
    <3>3. QED
      BY <2>3, <3>1, <3>2
  <2>5. PICK s \in Call : call' = [call EXCEPT ![c] = s] /\ s = [r EXCEPT !.pc = "insertAgain", !.card = k]
    BY <1>1, <2>3 DEF Call, Steps, Goto
  <2>6. /\ s.pc = "insertAgain" /\ s.card = k /\ s.now = r.now /\ s.action = r.action
        /\ s.barred = r.barred /\ s.rows = r.rows /\ s.hold = h /\ s.issue = r.issue
    BY <1>1, <2>5, <2>11 DEF Call
  <2>7. CallOK(s)'
    <3>1. Prompt(s)'
      BY <1>1, <1>2, <2>1, <2>6 DEF CallOK, Prompt
    <3>2. SettlesOK(s)'
      <4>1. Raised(h)
        BY <1>1, <2>1 DEF HoldsOK, HoldOK
      <4>2. cards'[h].action = r.action /\ cards'[h].issue = r.issue /\ Accepted(h)'
        BY <2>1, <2>4, <4>1 DEF Grows
      <4>3. QED
        BY <1>2, <2>1, <2>6, <4>2 DEF SettlesOK, Settling, Person, Stored, Accepted
    <3>3. RaisesOK(s)'
      BY <1>2, <2>4, <2>6 DEF RaisesOK, Raised
    <3>4. BarredOK(s)'
      BY <1>1, <2>1, <2>4, <1>2, <2>6 DEF CallOK, BarredOK, Call, Grows, HoldsOK, HoldOK,
         Stored
    <3>5. QED
      BY <3>1, <3>2, <3>3, <3>4 DEF CallOK
  <2>8. CallsOK'
    BY <1>1, <1>3, <2>4, <2>5, <2>7, StepFrame
  <2>9. CallsApart'
    BY <1>1, <2>5, <2>6 DEF CallsApart, Person, IInv
  <2>10. QED
    BY <2>4, <2>8, <2>9 DEF IInv
<1>6. QED
  BY <1>4, <1>5

\* Storing a card's hold: it is new, or one that is kept stands.
LEMMA HoldStored ==
    ASSUME TypeOK, TypeOK', CardsOK, HoldsOK, ReleasedOK,
           NEW k \in CardIds, Raised(k), holds[k].status # "purged",
           holds' = WithHold(k, cards[k].rows),
           UNCHANGED <<clock, ncards, cards, released>>
    PROVE  /\ Grows /\ CardsOK' /\ HoldsOK' /\ ReleasedOK' /\ holds'[k].status # "none"
           /\ \A j \in CardIds : j # k => holds'[j] = holds[j]
<1>1. /\ holds \in [CardIds -> Hold] /\ clock \in Nat /\ TTL \in Nat /\ Grace \in Nat
      /\ cards[k].parent \in CardIds \cup {NoCard} /\ released \in [CardIds -> Nat]
  BY ConstantsAssumption, Fields DEF TypeOK
<1>2. CASE holds[k].status = "kept"
  <2>1. holds' = holds
    BY <1>2 DEF WithHold
  <2>2. Grows
    BY <2>1 DEF Grows, Raised, Stored, Accepted, Open, Kept
  <2>3. CardsOK' /\ HoldsOK' /\ ReleasedOK'
    BY <2>1 DEF CardsOK, CardOK, HoldsOK, HoldOK, ReleasedOK, Raised, Stored, SameCall, Accepted
  <2>4. QED
    BY <1>2, <2>1, <2>2, <2>3
<1>3. CASE ~Stored(k)
  <2>1. /\ holds'[k].status = "kept" /\ holds'[k].shown = cards[k].rows
        /\ holds'[k].expires = clock + TTL /\ ~holds'[k].consumed
        /\ holds'[k].superseded = NoCard
        /\ \A j \in CardIds : j # k => holds'[j] = holds[j]
    BY <1>1, <1>3 DEF WithHold, Stored, NoHold
  <2>2. Grows
    BY <1>3, <2>1 DEF Grows, Raised, Stored, Accepted, Open, Kept, HoldsOK, HoldOK
  <2>3. CardsOK'
    <3> SUFFICES ASSUME NEW j \in CardIds
                 PROVE  CardOK(j)'
      BY DEF CardsOK
    <3>1. cards[j].parent \in CardIds \cup {NoCard} /\ CardOK(j)
      BY Fields DEF CardsOK
    <3>2. \A i \in CardIds : Stored(i) => Stored(i)'
      BY <2>2 DEF Grows
    <3>3. QED
      BY <3>1, <3>2 DEF CardOK, Raised, Stored, SameCall
  <2>4. HoldsOK'
    <3> SUFFICES ASSUME NEW j \in CardIds
                 PROVE  HoldOK(j)'
      BY DEF HoldsOK
    <3>1. /\ HoldOK(j) /\ cards[j].parent \in CardIds \cup {NoCard}
          /\ holds[j].superseded \in CardIds \cup {NoCard}
      BY Fields DEF HoldsOK
    <3>2. CASE j = k
      BY <1>1, <1>3, <2>1, <3>2 DEF CardsOK, CardOK, HoldsOK, HoldOK, Stored, Raised
    <3>3. CASE j # k
      BY <2>1, <3>3, <1>3, <3>1 DEF HoldOK, CardsOK, CardOK, Raised, Stored
    <3>4. QED
      BY <3>2, <3>3
  <2>5. ReleasedOK'
    BY <1>3, <2>1 DEF ReleasedOK, Accepted, HoldsOK, HoldOK
  <2>6. QED
    BY <2>1, <2>2, <2>3, <2>4, <2>5
<1>4. holds[k].status \in {"none", "kept"}
  BY <1>1 DEF Hold
<1>5. QED
  BY <1>2, <1>3, <1>4 DEF Stored

\* While a call replaces a live hold, the replacement outlives the call: no
\* request is slow enough for the nightly purge to reach it.
LEMMA ReplacementLives ==
    ASSUME TypeOK, CardsOK, HoldsOK, NEW r \in Call, CallOK(r),
           r.pc \in {"insertAgain", "supersede"}
    PROVE  r.card \in CardIds /\ Raised(r.card) /\ holds[r.card].status # "purged"
<1>1. /\ r.card \in CardIds /\ Raised(r.card) /\ cards[r.card].parent = r.hold
      /\ r.hold \in CardIds /\ holds[r.hold].expires > r.now /\ clock <= r.now + 1
      /\ r.now \in Nat /\ clock \in Nat /\ Grace \in Nat /\ NoCard \notin CardIds
  BY ConstantsAssumption
     DEF CallOK, Prompt, SettlesOK, RaisesOK, Settling, Call, TypeOK, CardIds, NoCard
<1>2. holds[r.card].expires \in Nat /\ holds[r.hold].expires \in Nat
  BY <1>1, Fields
<1>3. ASSUME holds[r.card].status = "purged"
      PROVE  FALSE
  BY <1>1, <1>3, <1>2 DEF HoldsOK, HoldOK, Stored
<1>4. QED
  BY <1>1, <1>3

LEMMA StoresHold ==
    ASSUME IInv, TypeOK', NEW c \in Callers, Insert(c) \/ InsertAgain(c)
    PROVE  IInv'
<1> DEFINE r == call[c]
<1> USE DEF NoCard, NoCount
<1>1. /\ r \in Call /\ CallOK(r) /\ CardsOK /\ HoldsOK /\ ReleasedOK /\ CallsOK /\ TypeOK
      /\ CallsApart /\ call \in [Callers -> Call] /\ clock \in Nat /\ 0 \notin CardIds
  BY ConstantsAssumption, SMTT(20) DEF IInv, TypeOK, CallsOK, CardIds
<1>2. UNCHANGED <<clock, ncards, cards, released>> /\ r.pc \in {"insert", "insertAgain"}
  BY DEF Insert, InsertAgain, world, core, At
<1>3. PICK k \in CardIds : k = r.card /\ Raised(k) /\ holds[k].status # "purged" /\ cards[k].rows = r.rows
  BY <1>1, ReplacementLives, <1>2 DEF CallOK, RaisesOK, Call, Stored
<1>4. holds' = WithHold(k, cards[k].rows)
  BY <1>3 DEF Insert, InsertAgain
<1>5. /\ Grows /\ CardsOK' /\ HoldsOK' /\ ReleasedOK' /\ holds'[k].status # "none"
      /\ \A j \in CardIds : j # k => holds'[j] = holds[j]
  BY <1>1, <1>2, <1>3, <1>4, HoldStored
<1>6. \A d \in Callers \ {c} : Untouched(call[d])
  <2> TAKE d \in Callers \ {c}
  <2>1. CallOK(call[d]) /\ call[d] \in Call
    BY <1>1 DEF CallsOK
  <2>2. call[d].pc = "insert" => holds'[call[d].card].status = "none"
    <3>1. SUFFICES ASSUME call[d].pc = "insert"
                   PROVE  call[d].card \in CardIds /\ call[d].card # k /\ ~Stored(call[d].card)
      BY <1>5 DEF Stored
    <3>2. /\ call[d].card \in CardIds /\ ~Stored(call[d].card)
          /\ cards[call[d].card].parent = NoCard
      BY <2>1, <3>1 DEF CallOK, RaisesOK, Call
    <3>3. call[d].card # k
      BY <1>1, <1>3, <3>1, <3>2, <1>2 DEF CallsApart, CallOK, RaisesOK, SettlesOK, Settling
    <3>4. QED
      BY <3>2, <3>3
  <2>3. Person(call[d]) => released'[call[d].hold] = 0
    BY <1>2, <2>1 DEF CallOK, SettlesOK
  <2>4. call[d].pc # "idle" => clock <= clock' /\ clock' <= call[d].now + 1
    BY <1>1, <1>2, <2>1 DEF CallOK, Prompt
  <2>5. QED
    BY <2>2, <2>3, <2>4 DEF Untouched
<1>7. PICK s \in Call : call' = [call EXCEPT ![c] = s] /\ CallOK(s)' /\ s.pc # "insert" /\ ~Person(s)
  <2>1. CASE r.pc = "insert"
    <3>1. call' = [call EXCEPT ![c] = Idle]
      BY <2>1 DEF Insert, InsertAgain, Return, Goto, At
    <3>2. CallOK(Idle)'
      BY DEF Idle, CallOK, Prompt, SettlesOK, RaisesOK, BarredOK, Person, Settling
    <3>3. Idle.pc # "insert" /\ ~Person(Idle)
      BY DEF Idle, Person
    <3>4. QED
      BY <3>1, <3>2, <3>3, Constants
  <2>2. CASE r.pc = "insertAgain"
    <3>1. PICK s \in Call : call' = [call EXCEPT ![c] = s] /\ s = [r EXCEPT !.pc = "supersede"]
      BY <1>1, <2>2 DEF Call, Steps, Insert, InsertAgain, Goto, At
    <3>2. /\ s.pc = "supersede" /\ s.card = k /\ s.now = r.now /\ s.action = r.action
          /\ s.barred = r.barred /\ s.rows = r.rows /\ s.hold = r.hold /\ s.issue = r.issue
      BY <1>1, <1>3, <3>1 DEF Call
    <3>3. Prompt(s)'
      BY <1>1, <1>2, <2>2, <3>2 DEF CallOK, Prompt
    <3>4. SettlesOK(s)'
      <4>1. PICK h \in CardIds : /\ h = r.hold /\ Stored(h) /\ Accepted(h) /\ cards[h].action = r.action
                                 /\ cards[h].issue = r.issue /\ holds[h].expires > r.now
        BY <1>1, <2>2 DEF CallOK, SettlesOK, Settling, Call
      <4>2. Stored(h)' /\ holds'[h].expires > r.now
        BY <1>5, <4>1 DEF Grows
      <4>3. QED
        BY <1>1, <1>2, <3>2, <4>1, <4>2 DEF SettlesOK, Settling, Person, Stored, Accepted
    <3>5. RaisesOK(s)'
      BY <1>1, <1>2, <1>3, <1>5, <2>2, <3>2 DEF CallOK, RaisesOK, Raised, Stored
    <3>6. BarredOK(s)'
      BY <1>1, <2>2, <1>5, <1>2, <3>2 DEF CallOK, BarredOK, Call, Grows, Stored
    <3>7. CallOK(s)' /\ s.pc # "insert" /\ ~Person(s)
      BY <3>2, <3>3, <3>4, <3>5, <3>6 DEF CallOK, Person
    <3>8. QED
      BY <3>1, <3>7
  <2>3. QED
    BY <1>2, <2>1, <2>2
<1>8. CallsOK'
  BY <1>1, <1>5, <1>6, <1>7, StepFrame
<1>9. CallsApart'
  BY <1>1, <1>7 DEF CallsApart, Person
<1>10. QED
  BY <1>5, <1>8, <1>9 DEF IInv

\* Handing an open hold over to the card that replaces it.
LEMMA Supersedes ==
    ASSUME IInv, TypeOK', NEW c \in Callers, Supersede(c)
    PROVE  IInv'
<1> DEFINE r == call[c]
<1> USE DEF NoCard
<1>1. /\ r \in Call /\ CallOK(r) /\ CardsOK /\ HoldsOK /\ ReleasedOK /\ CallsOK /\ TypeOK
      /\ CallsApart /\ call \in [Callers -> Call] /\ clock \in Nat /\ 0 \notin CardIds
      /\ holds \in [CardIds -> Hold]
  BY ConstantsAssumption, SMTT(20) DEF IInv, TypeOK, CallsOK, CardIds
<1>2. /\ UNCHANGED <<clock, ncards, cards, released>> /\ r.pc = "supersede"
      /\ call' = [call EXCEPT ![c] = Idle]
  BY DEF Supersede, world, core, At, Return, Goto
<1>3. PICK h \in CardIds, k \in CardIds :
         h = r.hold /\ k = r.card /\ Stored(h) /\ Stored(k) /\ cards[k].parent = h
  BY <1>1, <1>2 DEF CallOK, SettlesOK, RaisesOK, Settling, Call
<1>4. /\ \A j \in CardIds : j # h => holds'[j] = holds[j]
      /\ holds'[h].status = holds[h].status /\ holds'[h].shown = holds[h].shown
      /\ holds'[h].expires = holds[h].expires /\ holds'[h].consumed = holds[h].consumed
      /\ \/ holds'[h].superseded = holds[h].superseded
         \/ Open(h) /\ holds'[h].superseded = k
  BY <1>1, <1>3 DEF Supersede, Hold
<1>5. /\ \A j \in CardIds : /\ holds'[j].status = holds[j].status
                            /\ holds'[j].shown = holds[j].shown
                            /\ holds'[j].expires = holds[j].expires
                            /\ holds'[j].consumed = holds[j].consumed
                            /\ \/ holds'[j].superseded = holds[j].superseded
                               \/ j = h /\ Open(h) /\ holds'[j].superseded = k
  BY <1>4
<1>6. Grows
  BY <1>1, <1>2, <1>5 DEF Grows, Raised, Stored, Accepted, Open, Kept
<1>7. CardsOK'
  <2> SUFFICES ASSUME NEW j \in CardIds
               PROVE  CardOK(j)'
    BY DEF CardsOK
  <2>1. CardOK(j) /\ cards[j].parent \in CardIds \cup {NoCard}
    BY <1>1, Fields DEF CardsOK
  <2>2. QED
    BY <1>2, <1>5, <2>1 DEF CardOK, Raised, Stored, SameCall
<1>8. HoldsOK'
  <2> SUFFICES ASSUME NEW j \in CardIds
               PROVE  HoldOK(j)'
    BY DEF HoldsOK
  <2>1. /\ HoldOK(j) /\ cards[j].parent \in CardIds \cup {NoCard}
        /\ holds[j].superseded \in CardIds \cup {NoCard}
    BY <1>1, Fields DEF HoldsOK
  <2>2. CASE holds'[j].superseded = holds[j].superseded
    BY <1>2, <1>5, <2>1, <2>2 DEF HoldOK, Raised, Stored
  <2>3. CASE j = h /\ holds'[j].superseded = k
    BY <1>2, <1>3, <1>5, <2>1, <2>3 DEF HoldOK, Raised, Stored
  <2>4. QED
    BY <1>5, <2>2, <2>3
<1>9. ReleasedOK'
  BY <1>1, <1>2, <1>5 DEF ReleasedOK, Accepted
<1>10. \A d \in Callers \ {c} : Untouched(call[d])
  <2> TAKE d \in Callers \ {c}
  <2>1. CallOK(call[d]) /\ call[d] \in Call
    BY <1>1 DEF CallsOK
  <2>2. call[d].pc = "insert" => holds'[call[d].card].status = "none"
    BY <1>5, <2>1 DEF CallOK, RaisesOK, Call, Stored
  <2>3. Person(call[d]) => released'[call[d].hold] = 0
    BY <1>2, <2>1 DEF CallOK, SettlesOK
  <2>4. call[d].pc # "idle" => clock <= clock' /\ clock' <= call[d].now + 1
    BY <1>1, <1>2, <2>1 DEF CallOK, Prompt
  <2>5. QED
    BY <2>2, <2>3, <2>4 DEF Untouched
<1>11. PICK s \in Call : s = Idle /\ CallOK(s)'
  BY Constants DEF Idle, CallOK, Prompt, SettlesOK, RaisesOK, BarredOK, Person, Settling
<1>12. CallsOK'
  BY <1>1, <1>2, <1>6, <1>10, <1>11, StepFrame
<1>13. CallsApart'
  BY <1>1, <1>2 DEF CallsApart, Person, Idle
<1>14. QED
  BY <1>7, <1>8, <1>9, <1>12, <1>13 DEF IInv

\* The change goes ahead: the answer it ran on is spent, and no other call
\* stands past `check` on it.
LEMMA Runs ==
    ASSUME IInv, TypeOK', NEW c \in Callers, Run(c)
    PROVE  IInv'
<1> DEFINE r == call[c]
<1>1. /\ r \in Call /\ CallOK(r) /\ CardsOK /\ HoldsOK /\ ReleasedOK /\ CallsOK /\ TypeOK
      /\ CallsApart /\ call \in [Callers -> Call] /\ clock \in Nat
      /\ released \in [CardIds -> Nat]
  BY ConstantsAssumption DEF IInv, TypeOK, CallsOK
<1>2. /\ UNCHANGED <<clock, ncards, cards, holds>> /\ r.pc = "run"
      /\ call' = [call EXCEPT ![c] = Idle]
  BY DEF Run, world, core, At, Return, Goto
<1>3. Grows
  BY <1>2 DEF Grows, Raised, Stored, Accepted, Open, Kept
<1>4. CardsOK' /\ HoldsOK'
  BY <1>1, <1>2 DEF CardsOK, CardOK, HoldsOK, HoldOK, Raised, Stored, SameCall
<1>5. ReleasedOK' /\ \A d \in Callers \ {c} : Person(call[d]) => released'[call[d].hold] = 0
  <2>1. \A d \in Callers : Person(call[d]) => released[call[d].hold] = 0
    BY <1>1 DEF CallsOK, CallOK, SettlesOK
  <2>2. CASE r.how = "person"
    <3>1. PICK k \in CardIds : k = r.hold /\ holds[k].consumed /\ released[k] = 0
      BY <1>1, <1>2, <2>2 DEF CallOK, SettlesOK, Person, Call, NoCard
    <3>2. \A j \in CardIds : released'[j] = IF j = k THEN 1 ELSE released[j]
      BY <1>1, <2>2, <3>1 DEF Run
    <3>3. ReleasedOK'
      BY <1>1, <1>2, <3>1, <3>2 DEF ReleasedOK, Accepted
    <3>4. ASSUME NEW d \in Callers \ {c}, Person(call[d])
          PROVE  released'[call[d].hold] = 0
      BY <1>1, <3>4, <1>2, <2>2, <3>1, <2>1, <3>2 DEF CallsOK, CallOK, SettlesOK, Call,
         CallsApart, Person
    <3>5. QED
      BY <3>3, <3>4
  <2>3. CASE r.how # "person"
    BY <2>3, <1>1, <1>2, <2>1 DEF Run, ReleasedOK, Accepted
  <2>4. QED
    BY <2>2, <2>3
<1>6. \A d \in Callers \ {c} : Untouched(call[d])
  <2> TAKE d \in Callers \ {c}
  <2>1. CallOK(call[d])
    BY <1>1 DEF CallsOK
  <2>2. call[d].pc = "insert" => holds'[call[d].card].status = "none"
    BY <1>2, <2>1 DEF CallOK, RaisesOK, Stored
  <2>3. call[d].pc # "idle" => clock <= clock' /\ clock' <= call[d].now + 1
    BY <1>1, <1>2, <2>1 DEF CallOK, Prompt
  <2>4. QED
    BY <1>5, <2>2, <2>3 DEF Untouched
<1>7. PICK s \in Call : s = Idle /\ CallOK(s)'
  BY Constants DEF Idle, CallOK, Prompt, SettlesOK, RaisesOK, BarredOK, Person, Settling
<1>8. CallsOK'
  BY <1>1, <1>2, <1>3, <1>6, <1>7, StepFrame
<1>9. CallsApart'
  BY <1>1, <1>2 DEF CallsApart, Person, Idle
<1>10. QED
  BY <1>4, <1>5, <1>8, <1>9 DEF IInv

\* The rest of the world: answers, rows, the clock and the purge.
LEMMA World ==
    ASSUME IInv, TypeOK', Environment
    PROVE  IInv'
<1>1. /\ CardsOK /\ HoldsOK /\ ReleasedOK /\ CallsOK /\ TypeOK /\ CallsApart
      /\ holds \in [CardIds -> Hold] /\ cards \in [CardIds -> Card]
      /\ clock \in Nat /\ TTL \in Nat /\ Grace \in Nat
  BY ConstantsAssumption DEF IInv, TypeOK
<1>2. call' = call /\ released' = released /\ ncards' = ncards
  BY DEF Environment, Resolve, SetRows, Tick, Purge, Purgeable, world, core
<1>3. CallsApart'
  BY <1>1, <1>2 DEF CallsApart, Person
<1>4. /\ clock' \in Nat /\ clock <= clock'
      /\ \A d \in Callers : call[d].pc # "idle" => clock' <= call[d].now + 1
  <2>1. CASE Tick
    BY <1>1, <2>1 DEF Tick, At
  <2>2. CASE ~Tick
    <3>1. clock' = clock
      BY <2>2 DEF Environment, Resolve, SetRows, Purge, Purgeable, world
    <3>2. QED
      BY <1>1, <3>1 DEF CallsOK, CallOK, Prompt
  <2>3. QED
    BY <2>1, <2>2
<1>5. \A k \in CardIds : /\ cards'[k].action = cards[k].action /\ cards'[k].issue = cards[k].issue
                         /\ cards'[k].parent = cards[k].parent /\ cards'[k].rows = cards[k].rows
                         /\ Raised(k) <=> cards'[k].status # "none"
                         /\ Accepted(k) => cards'[k].status = "accepted" /\ cards'[k].by = "person"
  <2>1. CASE cards' = cards
    BY <2>1 DEF Raised, Accepted
  <2>2. CASE \E i \in CardIds, st \in {"accepted", "rejected", "closed"},
                by \in {"nobody", "person", "agent"} : Resolve(i, st, by)
    BY <2>2, <1>1 DEF Resolve, Card, Raised, Accepted
  <2>3. QED
    BY <2>1, <2>2 DEF Environment, SetRows, Tick, Purge, Purgeable, core
<1>6. \A k \in CardIds : /\ holds'[k].shown = holds[k].shown /\ holds'[k].expires = holds[k].expires
                         /\ holds'[k].consumed = holds[k].consumed
                         /\ holds'[k].superseded = holds[k].superseded
                         /\ \/ holds'[k].status = holds[k].status
                            \/ /\ Kept(k) /\ holds'[k].status = "purged"
                               /\ holds[k].expires < clock' - Grace
  <2>1. CASE Purge
    BY <1>1, <2>1 DEF Purge, Purgeable, Hold, world
  <2>2. CASE holds' = holds
    BY <2>2
  <2>3. QED
    BY <2>1, <2>2 DEF Environment, Resolve, SetRows, Tick
<1>7. Grows
  BY <1>5, <1>6 DEF Grows, Raised, Stored, Accepted, Open, Kept
<1>8. CardsOK'
  <2> SUFFICES ASSUME NEW j \in CardIds
               PROVE  CardOK(j)'
    BY DEF CardsOK
  <2>1. CardOK(j) /\ cards[j].parent \in CardIds \cup {NoCard}
    BY <1>1, Fields DEF CardsOK
  <2>2. QED
    BY <1>2, <1>5, <1>6, <2>1 DEF CardOK, Raised, Stored, SameCall
<1>9. HoldsOK'
  <2> SUFFICES ASSUME NEW j \in CardIds
               PROVE  HoldOK(j)'
    BY DEF HoldsOK
  <2>1. /\ HoldOK(j) /\ cards[j].parent \in CardIds \cup {NoCard}
        /\ holds[j].superseded \in CardIds \cup {NoCard} /\ holds[j].expires \in Nat
    BY <1>1, Fields DEF HoldsOK
  <2>2. Stored(j) <=> Stored(j)'
    BY <1>6 DEF Stored, Kept
  <2>3. (holds[j].status = "purged" => holds[j].expires < clock - Grace)'
    BY <1>1, <1>4, <1>6, <2>1 DEF HoldOK
  <2>4. Stored(j) => holds'[j].expires <= clock' + TTL
    BY <1>1, <1>4, <1>6, <2>1 DEF HoldOK
  <2>5. holds[j].superseded # NoCard => Stored(holds[j].superseded)'
    BY <1>6, <2>1 DEF HoldOK, Stored
  <2>6. QED
    BY <1>5, <1>6, <2>1, <2>2, <2>3, <2>4, <2>5 DEF HoldOK, Raised, Stored
<1>10. ReleasedOK'
  BY <1>1, <1>2, <1>5, <1>6 DEF ReleasedOK, Accepted
<1>11. CallsOK'
  <2> SUFFICES ASSUME NEW d \in Callers
               PROVE  CallOK(call[d])'
    BY DEF CallsOK
  <2>1. PICK r \in Call : r = call[d] /\ CallOK(r)
    BY <1>1 DEF TypeOK, CallsOK
  <2>2. r.pc = "insert" => holds'[r.card].status = "none"
    BY <1>6, <2>1 DEF CallOK, RaisesOK, Stored, Kept, Call
  <2>3. Untouched(r)
    BY <1>2, <1>4, <2>1, <2>2 DEF Untouched, CallOK, SettlesOK
  <2>4. CallOK(r)'
    BY <1>1, <1>7, <2>1, <2>3, CallFrame
  <2>5. QED
    BY <1>2, <2>1, <2>4 DEF CallOK, Prompt, SettlesOK, RaisesOK, BarredOK, Person, Settling
<1>12. QED
  BY <1>3, <1>8, <1>9, <1>10, <1>11 DEF IInv

LEMMA Initially ==
    ASSUME Init
    PROVE  IInv
<1> USE Constants DEF Init
<1>1. TypeOK
  BY ConstantsAssumption DEF TypeOK
<1>2. CardsOK /\ HoldsOK /\ ReleasedOK
  BY ConstantsAssumption
     DEF CardsOK, CardOK, HoldsOK, HoldOK, ReleasedOK, Raised, Stored, Accepted,
         NoCardYet, NoHold, CardIds, NoCard, NoCount
<1>3. CallsOK /\ CallsApart
  BY DEF CallsOK, CallOK, Prompt, SettlesOK, RaisesOK, BarredOK, CallsApart, Person, Settling, Idle
<1>4. QED
  BY <1>1, <1>2, <1>3 DEF IInv

LEMMA Inductive ==
    ASSUME IInv, [Next]_vars
    PROVE  IInv'
<1>1. TypeOK'
  BY TypeInductive DEF IInv
<1>2. CASE UNCHANGED vars
  BY <1>1, <1>2
     DEF vars, IInv, CardsOK, CardOK, HoldsOK, HoldOK, ReleasedOK, CallsOK, CallsApart, Raised,
         Stored, Accepted, SameCall, CallOK, Prompt, SettlesOK, RaisesOK, BarredOK, Person,
         Settling, Open, Kept
<1>3. ASSUME NEW c \in Callers, Begin(c) \/ Proceed(c) \/ Fail(c)
      PROVE  IInv'
  BY <1>1, <1>3, Reads, Consumes, RaisesCard, StoresHold, Supersedes, Runs DEF Proceed
<1>4. CASE Environment
  BY <1>1, <1>4, World
<1>5. QED
  BY <1>2, <1>3, <1>4 DEF Next

\* Every reachable state satisfies the inductive invariant.
THEOREM Invariance == Spec => []IInv
<1>1. Init => IInv
  BY Initially
<1>2. IInv /\ [Next]_vars => IInv'
  BY Inductive
<1>3. QED
  BY <1>1, <1>2, PTL DEF Spec

\* Every variable keeps the type of the code's records and columns.
THEOREM TypeCorrect == Spec => []TypeOK
<1>1. IInv => TypeOK
  BY DEF IInv
<1>2. QED
  BY <1>1, Invariance, PTL

\* consumeHold is the only way past a person's card, and it lets one call
\* through, whatever retries race for it: an answer runs its action once.
THEOREM ApprovalRunsOnce == Spec => []OneRunPerApproval
<1>1. IInv => OneRunPerApproval
  <2> SUFFICES ASSUME IInv, NEW k \in CardIds
               PROVE  /\ released[k] <= 1
                      /\ \A c \in Callers : RunsOn(c, k) =>
                            /\ released[k] = 0
                            /\ \A d \in Callers : RunsOn(d, k) => d = c
    BY DEF OneRunPerApproval
  <2>1. released[k] <= 1
    BY DEF IInv, ReleasedOK
  <2>2. \A c \in Callers : RunsOn(c, k) => released[k] = 0
    BY DEF IInv, CallsOK, CallOK, SettlesOK, RunsOn, At, Person
  <2>3. \A c, d \in Callers : RunsOn(c, k) /\ RunsOn(d, k) => d = c
    BY DEF IInv, CallsApart, RunsOn, At, Person
  <2>4. QED
    BY <2>1, <2>2, <2>3
<1>2. QED
  BY <1>1, Invariance, PTL

\* Nothing runs on a card no person accepted, and only the card's own call
\* runs on it.
THEOREM OnlyAllowedCallsRun == Spec => []RunsWhatAPersonAllowed
<1>1. IInv => RunsWhatAPersonAllowed
  BY DEF IInv, ReleasedOK, CallsOK, CallOK, SettlesOK, RunsWhatAPersonAllowed, RunsOn, At,
         Person, Accepted
<1>2. QED
  BY <1>1, Invariance, PTL

\* An allowed call runs only after it has counted no more rows than the card
\* showed.
THEOREM NoMoreRowsThanShown == Spec => []RunsNoMoreRowsThanShown
<1>1. IInv => RunsNoMoreRowsThanShown
  BY DEF IInv, CallsOK, CallOK, SettlesOK, RunsNoMoreRowsThanShown, RunsOn, At, Person
<1>2. QED
  BY <1>1, Invariance, PTL

\* What was held when a call began is not released by the model.
THEOREM ModelNeverReleasesHeld == Spec => []ModelReleasesNothingHeld
<1>1. IInv => ModelReleasesNothingHeld
  BY DEF IInv, CallsOK, CallOK, BarredOK, ModelReleasesNothingHeld, At
<1>2. QED
  BY <1>1, Invariance, PTL

\* No replaced hold outlives its replacement: the purge takes the older first.
ChainOK ==
    \A k \in CardIds : Kept(k) /\ holds[k].superseded # NoCard => Kept(holds[k].superseded)

LEMMA ChainInductive ==
    ASSUME IInv, ChainOK, [Next]_vars
    PROVE  ChainOK'
<1>1. /\ TypeOK /\ CardsOK /\ HoldsOK /\ CallsOK /\ call \in [Callers -> Call]
      /\ holds \in [CardIds -> Hold] /\ clock \in Nat /\ Grace \in Nat /\ NoCard \notin CardIds
  BY ConstantsAssumption DEF IInv, TypeOK, CardIds, NoCard
<1>2. SUFFICES ASSUME NEW k \in CardIds, Kept(k)', holds'[k].superseded # NoCard
               PROVE  Kept(holds[k].superseded)'
  BY DEF ChainOK
<1>3. CASE holds' = holds
  BY <1>1, <1>2, <1>3 DEF ChainOK, Kept
<1>4. ASSUME NEW c \in Callers, Consume(c)
      PROVE  Kept(holds[k].superseded)'
  BY <1>1, <1>2, <1>4 DEF Consume, Usable, ChainOK, Kept, Hold
<1>5. ASSUME NEW c \in Callers, Insert(c) \/ InsertAgain(c)
      PROVE  Kept(holds[k].superseded)'
  BY <1>1, <1>5, <1>2 DEF Insert, InsertAgain, WithHold, Kept, NoHold, NoCard, ChainOK
<1>6. ASSUME NEW c \in Callers, Supersede(c)
      PROVE  Kept(holds[k].superseded)'
  <2>1. PICK j \in CardIds : j = call[c].card /\ holds[j].status = "kept"
    BY <1>1, <1>6, ReplacementLives DEF Supersede, At, CallsOK, CallOK, RaisesOK, Stored,
       Hold
  <2>2. \A i \in CardIds : holds'[i].status = holds[i].status
    BY <1>1, <1>6 DEF Supersede, Hold
  <2>3. holds'[k].superseded = holds[k].superseded \/ holds'[k].superseded = j
    BY <1>1, <1>6, <2>1 DEF Supersede, Hold
  <2>4. QED
    BY <1>2, <2>1, <2>2, <2>3 DEF ChainOK, Kept
<1>7. CASE Purge
  <2> DEFINE s == holds[k].superseded
  <2>1. holds'[k] = holds[k] /\ Kept(k) /\ ~(holds[k].expires < clock - Grace)
    BY <1>1, <1>2, <1>7 DEF Purge, Purgeable, Kept, Hold
  <2>2. Kept(s) /\ s \in CardIds /\ cards[s].parent = k
    BY <1>1, <1>2, <2>1 DEF ChainOK, Kept, HoldsOK, HoldOK
  <2>3. holds[s].expires >= holds[k].expires
    BY <1>1, <2>2 DEF HoldsOK, HoldOK, Stored, Kept
  <2>4. holds[s].expires \in Nat /\ holds[k].expires \in Nat
    BY <1>1, <2>2, Fields
  <2>5. ~(holds[s].expires < clock - Grace)
    BY <1>1, <2>1, <2>3, <2>4
  <2>6. holds'[s] = holds[s]
    BY <1>1, <1>7, <2>2, <2>5 DEF Purge, Purgeable
  <2>7. QED
    BY <2>1, <2>2, <2>6 DEF Kept
<1>8. QED
  BY <1>3, <1>4, <1>5, <1>6, <1>7
     DEF Next, Environment, Begin, Proceed, Start, FindNamed, FollowChain, FindLive, ReadCard, AcceptedByPerson, ShowsCount,
         Recount, CountRows, CheckBarred, AskModel, Raise, RaiseAgain, Run, Fail, Resolve,
         SetRows, Tick, vars

\* An old confirmationId leads to a hold that is still there.
THEOREM ReplacementsStay == Spec => []ReplacementIsKept
<1>1. IInv /\ ChainOK => ReplacementIsKept
  <2> SUFFICES ASSUME IInv, ChainOK, NEW k \in CardIds, Kept(k), holds[k].superseded # NoCard
               PROVE  LET s == holds[k].superseded IN
                      /\ s > k /\ Kept(s)
                      /\ cards[s].action = cards[k].action /\ cards[s].issue = cards[k].issue
                      /\ holds[s].shown > holds[k].shown
    BY DEF ReplacementIsKept
  <2>1. PICK s \in CardIds : s = holds[k].superseded /\ Stored(s) /\ cards[s].parent = k
    BY Fields DEF IInv, HoldsOK, HoldOK
  <2>2. Raised(s) /\ Stored(k) /\ k # NoCard
    BY <2>1, ConstantsAssumption DEF IInv, HoldsOK, HoldOK, Kept, Stored, CardIds, NoCard
  <2>3. /\ k < s /\ SameCall(s, k) /\ cards[s].rows > cards[k].rows
    BY <2>1, <2>2 DEF IInv, CardsOK, CardOK
  <2>4. holds[s].shown = cards[s].rows /\ holds[k].shown = cards[k].rows
        /\ holds[s].expires >= holds[k].expires
    BY <2>1, <2>2 DEF IInv, HoldsOK, HoldOK
  <2>5. s \in Nat /\ k \in Nat
    BY ConstantsAssumption DEF CardIds
  <2>6. QED
    BY <2>1, <2>3, <2>4, <2>5 DEF SameCall, ChainOK
<1>2. Init => ChainOK
  BY DEF Init, ChainOK, Kept, NoHold
<1>3. IInv /\ ChainOK /\ [Next]_vars => ChainOK'
  BY ChainInductive
<1>4. QED
  BY <1>1, <1>2, <1>3, Invariance, PTL DEF Spec

-----------------------------------------------------------------------------
\* A hold is born after all that are stored; no two have the same birth.
BornOK ==
    /\ \A k \in CardIds : Stored(k) => holds[k].born <= Births
    /\ \A j, k \in CardIds : Stored(j) /\ Stored(k) /\ holds[j].born = holds[k].born => j = k

\* k is a hold on the call r whose card still waits for a person.
Awaits(k, r) ==
    /\ Open(k) /\ cards[k].status = "pending"
    /\ cards[k].issue = r.issue /\ holds[k].expires > r.now

\* A newer hold on the call r exists.
Outranked(k, r) ==
    \E j \in CardIds : /\ Stored(j) /\ holds[j].born > holds[k].born
                       /\ cards[j].action = r.action /\ cards[j].issue = r.issue

\* What a call has seen of the holds that await when it began.
SeenOK(r) ==
    /\ r.pc = "card" /\ r.named # NoCard => r.named = r.hold
    /\ r.pc = "card" /\ r.named = NoCard =>
          \A k \in r.barred : Awaits(k, r) => holds[k].born <= holds[r.hold].born
    /\ r.pc = "live" /\ r.named # NoCard =>
          /\ Stored(r.named) /\ cards[r.named].status = "closed"
          /\ cards[r.named].action = r.action /\ cards[r.named].issue = r.issue
    /\ r.pc \in {"count", "barred", "ask", "raise"} =>
          \A k \in r.barred : Awaits(k, r) => Outranked(k, r)

SeenInv == BornOK /\ \A c \in Callers : SeenOK(call[c])

\* What no step changes of a stored hold and of a raised card, as far as a retry
\* depends on it: an answer stands, and a closed hold stays closed.
Steady ==
    \A k \in CardIds :
        /\ Raised(k) =>
              /\ cards'[k].action = cards[k].action /\ cards'[k].issue = cards[k].issue
              /\ cards'[k].status = "pending" => cards[k].status = "pending"
              /\ cards[k].status = "closed" => cards'[k].status = "closed"
        /\ Stored(k) =>
              /\ Stored(k)' /\ holds'[k].born = holds[k].born
              /\ holds'[k].expires = holds[k].expires
              /\ Open(k)' => Open(k)

\* A step stores no hold, or one that is born after all others.
NoneBorn == \A k \in CardIds : (Stored(k)' <=> Stored(k)) /\ holds'[k].born = holds[k].born
OneBorn ==
    \E k \in CardIds : /\ ~Stored(k) /\ Stored(k)' /\ holds'[k].born = Births + 1
                       /\ \A j \in CardIds \ {k} : holds'[j] = holds[j]

LEMMA StoringBears ==
    ASSUME TypeOK, NEW k \in CardIds, NEW n, holds[k].status # "purged", holds' = WithHold(k, n)
    PROVE  /\ NoneBorn \/ OneBorn
           /\ \A j \in CardIds : Stored(j) => holds'[j] = holds[j]
<1>1. holds \in [CardIds -> Hold] /\ holds[k] \in Hold
  BY DEF TypeOK
<1>2. CASE holds[k].status = "kept"
  BY <1>2 DEF WithHold, NoneBorn, Stored
<1>3. CASE holds[k].status = "none"
  <2> DEFINE new == [NoHold EXCEPT !.status = "kept", !.shown = n,
                                  !.expires = clock + TTL, !.born = Births + 1]
  <2>1. new.status = "kept" /\ new.born = Births + 1
    BY DEF NoHold
  <2> HIDE DEF new
  <2>2. holds' = [holds EXCEPT ![k] = new]
    BY <1>3 DEF WithHold, new
  <2>3. holds'[k] = new /\ \A j \in CardIds \ {k} : holds'[j] = holds[j]
    BY <1>1, <2>2
  <2>4. ~Stored(k) /\ Stored(k)'
    BY <1>3, <2>1, <2>3 DEF Stored
  <2>5. OneBorn
    BY <2>1, <2>3, <2>4 DEF OneBorn
  <2>6. QED
    BY <2>3, <2>4, <2>5
<1>4. QED
  BY <1>1, <1>2, <1>3 DEF Hold

\* What the steps do to the holds.
LEMMA HoldsGrow ==
    ASSUME IInv, [Next]_vars
    PROVE  /\ NoneBorn \/ OneBorn
           /\ \A k \in CardIds : Stored(k) =>
                 /\ Stored(k)' /\ holds'[k].born = holds[k].born
                 /\ holds'[k].expires = holds[k].expires
                 /\ Open(k)' => Open(k)
<1>1. /\ TypeOK /\ CallsOK /\ CardsOK /\ HoldsOK /\ call \in [Callers -> Call]
      /\ holds \in [CardIds -> Hold]
  BY DEF IInv, TypeOK
<1>2. CASE holds' = holds
  BY <1>2 DEF NoneBorn, Stored, Open, Kept
<1>3. ASSUME NEW c \in Callers, Consume(c)
      PROVE  \A k \in CardIds : /\ holds'[k].status = holds[k].status
                                /\ holds'[k].born = holds[k].born
                                /\ holds'[k].expires = holds[k].expires
                                /\ holds'[k].superseded = holds[k].superseded
                                /\ holds[k].consumed => holds'[k].consumed
  BY <1>1, <1>3 DEF Consume, Usable, Hold
<1>4. ASSUME NEW c \in Callers, Supersede(c)
      PROVE  \A k \in CardIds : /\ holds'[k].status = holds[k].status
                                /\ holds'[k].born = holds[k].born
                                /\ holds'[k].expires = holds[k].expires
                                /\ holds'[k].consumed = holds[k].consumed
                                /\ holds[k].superseded # NoCard => holds'[k].superseded = holds[k].superseded
  BY <1>1, <1>4 DEF Supersede, Open, Hold
<1>5. CASE Purge
  BY <1>1, <1>5 DEF Purge, Purgeable, Kept, Hold, NoneBorn, Stored, Open
<1>6. ASSUME NEW c \in Callers, Insert(c) \/ InsertAgain(c)
      PROVE  \E k \in CardIds, n \in Int : holds[k].status # "purged" /\ holds' = WithHold(k, n)
  <2>1. call[c] \in Call /\ CallOK(call[c]) /\ holds' = WithHold(call[c].card, call[c].rows)
    BY <1>1, <1>6 DEF CallsOK, Insert, InsertAgain
  <2>2. call[c].card \in CardIds /\ holds[call[c].card].status # "purged"
    BY <2>1, <1>1, ReplacementLives, <1>6 DEF Insert, At, CallOK, RaisesOK, Stored, Call,
       InsertAgain
  <2>3. call[c].rows \in Int
    BY <2>1 DEF Call, NoCount
  <2>4. QED
    BY <2>1, <2>2, <2>3
<1>7. ASSUME NEW c \in Callers, Insert(c) \/ InsertAgain(c)
      PROVE  /\ NoneBorn \/ OneBorn
             /\ \A j \in CardIds : Stored(j) => holds'[j] = holds[j]
  BY <1>1, <1>6, <1>7, StoringBears
<1>8. QED
  BY <1>2, <1>3, <1>4, <1>5, <1>7
     DEF Next, Environment, Begin, Proceed, Start, FindNamed, FollowChain, FindLive, ReadCard,
         Recount, CountRows, CheckBarred, AskModel, Raise, RaiseAgain, Run, Fail, Resolve,
         SetRows, Tick, vars, NoneBorn, Stored, Open, Kept

LEMMA StepsAreSteady ==
    ASSUME IInv, [Next]_vars
    PROVE  Steady
<1>1. /\ TypeOK /\ CardsOK /\ cards \in [CardIds -> Card] /\ ncards \in Nat
  BY ConstantsAssumption DEF IInv, TypeOK
<1> DEFINE Kind == \A k \in CardIds : Raised(k) =>
              /\ cards'[k].action = cards[k].action /\ cards'[k].issue = cards[k].issue
              /\ cards'[k].status = "pending" => cards[k].status = "pending"
              /\ cards[k].status = "closed" => cards'[k].status = "closed"
<1>2. cards' = cards => Kind
  OBVIOUS
<1>3. ASSUME NEW c \in Callers, Raise(c) \/ RaiseAgain(c)
      PROVE  Kind
  <2>1. \/ cards' = cards
        \/ \A k \in CardIds \ {ncards + 1} : cards'[k] = cards[k]
    BY <1>1, <1>3 DEF Raise, RaiseAgain, core
  <2>2. ncards + 1 \in CardIds => ~Raised(ncards + 1)
    BY <1>1 DEF CardsOK, CardOK
  <2>3. QED
    BY <2>1, <2>2
<1>4. ASSUME NEW k \in CardIds, NEW st \in {"accepted", "rejected", "closed"},
             NEW by \in {"nobody", "person", "agent"}, Resolve(k, st, by)
      PROVE  Kind
  BY <1>1, <1>4 DEF Resolve, Card
<1>5. Kind
  BY <1>2, <1>3, <1>4
     DEF Next, Environment, Begin, Proceed, Start, FindNamed, FollowChain, FindLive, ReadCard,
         Recount, Consume, CountRows, CheckBarred, AskModel, Insert, InsertAgain, Supersede, Run,
         Fail, SetRows, Tick, Purge, vars, core
<1>6. \A k \in CardIds : Stored(k) =>
         /\ Stored(k)' /\ holds'[k].born = holds[k].born
         /\ holds'[k].expires = holds[k].expires
         /\ Open(k)' => Open(k)
  BY HoldsGrow
<1>7. QED
  <2> SUFFICES ASSUME NEW k \in CardIds
               PROVE  /\ Raised(k) =>
                            /\ cards'[k].action = cards[k].action /\ cards'[k].issue = cards[k].issue
                            /\ cards'[k].status = "pending" => cards[k].status = "pending"
                            /\ cards[k].status = "closed" => cards'[k].status = "closed"
                      /\ Stored(k) =>
                            /\ Stored(k)' /\ holds'[k].born = holds[k].born
                            /\ holds'[k].expires = holds[k].expires
                            /\ Open(k)' => Open(k)
    BY DEF Steady
  <2>1. QED
    BY <1>5, <1>6

LEMMA BornKept ==
    ASSUME IInv, BornOK, [Next]_vars
    PROVE  BornOK'
<1> DEFINE S == {k \in CardIds : holds[k].status # "none"}
<1>1. IsFiniteSet(S) /\ Cardinality(S) \in Nat /\ Births = Cardinality(S)
  <2>1. IsFiniteSet(CardIds)
    BY ConstantsAssumption, FS_Interval DEF CardIds
  <2>2. IsFiniteSet(S)
    BY <2>1, FS_Subset
  <2>3. QED
    BY <2>2, FS_CardinalityType DEF Births
<1>2. \A k \in CardIds : holds[k].born \in Nat
  BY DEF IInv, TypeOK, Hold
<1>3. CASE NoneBorn
  BY <1>3 DEF NoneBorn, Stored, Births, BornOK
<1>4. CASE OneBorn
  <2>1. PICK k \in CardIds : /\ ~Stored(k) /\ Stored(k)' /\ holds'[k].born = Births + 1
                             /\ \A j \in CardIds \ {k} : holds'[j] = holds[j]
    BY <1>4 DEF OneBorn
  <2>2. S' = S \cup {k} /\ k \notin S
    BY <2>1 DEF Stored
  <2>3. Cardinality(S \cup {k}) = Cardinality(S) + 1
    BY <1>1, <2>2, FS_AddElement
  <2>4. Births' = Births + 1
    BY <1>1, <2>2, <2>3 DEF Births
  <2>5. \A j \in CardIds \ {k} : (Stored(j)' <=> Stored(j)) /\ holds'[j].born = holds[j].born
    BY <2>1 DEF Stored
  <2>6. \A j \in CardIds \ {k} : Stored(j) => holds[j].born < Births + 1
    BY <1>1, <1>2 DEF BornOK
  <2>7. ASSUME NEW j \in CardIds, Stored(j)'
        PROVE  holds'[j].born <= Births'
    BY <1>1, <2>1, <2>4, <1>2, <2>5, <2>6, <2>7
  <2>8. ASSUME NEW i \in CardIds, NEW j \in CardIds, Stored(i)', Stored(j)',
               holds'[i].born = holds'[j].born
        PROVE  i = j
    BY <1>1, <1>2, <2>1, <2>5, <2>6, <2>8 DEF BornOK
  <2>9. QED
    BY <2>7, <2>8 DEF BornOK
<1>5. QED
  BY <1>3, <1>4, HoldsGrow

LEMMA SeenFrame ==
    ASSUME IInv, Steady, NEW r \in Call, CallOK(r), SeenOK(r)
    PROVE  SeenOK(r)'
<1>1. /\ r.barred \in SUBSET CardIds /\ r.hold \in CardIds \cup {NoCard}
      /\ r.named \in CardIds \cup {NoCard}
  BY DEF Call
<1>2. \A k \in CardIds : Stored(k) => Raised(k)
  BY DEF IInv, HoldsOK, HoldOK
<1>3. ASSUME NEW k \in r.barred, r.pc # "idle", Awaits(k, r)'
      PROVE  Stored(k) /\ Awaits(k, r) /\ k \in CardIds
  BY <1>1, <1>3, <1>2 DEF CallOK, BarredOK, Steady, Awaits
<1>4. ASSUME NEW k \in CardIds, Stored(k), Outranked(k, r)
      PROVE  Outranked(k, r)'
  BY <1>2, <1>4 DEF Outranked, Steady
<1>5. r.pc = "card" => r.hold \in CardIds /\ Stored(r.hold)
  BY <1>1 DEF CallOK, SettlesOK
<1>6. (r.pc = "card" /\ r.named = NoCard =>
          \A k \in r.barred : Awaits(k, r) => holds[k].born <= holds[r.hold].born)'
  BY <1>3, <1>5 DEF SeenOK, Steady
<1>7. (r.pc = "live" /\ r.named # NoCard =>
          /\ Stored(r.named) /\ cards[r.named].status = "closed"
          /\ cards[r.named].action = r.action /\ cards[r.named].issue = r.issue)'
  BY <1>1, <1>2 DEF SeenOK, Steady
<1>8. (r.pc \in {"count", "barred", "ask", "raise"} =>
          \A k \in r.barred : Awaits(k, r) => Outranked(k, r))'
  BY <1>3, <1>4 DEF SeenOK
<1>9. QED
  BY <1>6, <1>7, <1>8 DEF SeenOK

\* What the call that moves has seen.  A look at the newest live hold sees, of those
\* that await, the newest or none; what that one's card says then decides.
LEMMA SeenByStep ==
    ASSUME IInv, BornOK, NEW c \in Callers, SeenOK(call[c]),
           Begin(c) \/ Proceed(c) \/ Fail(c)
    PROVE  \E s \in Call : call' = [call EXCEPT ![c] = s] /\ SeenOK(s)'
<1> DEFINE r == call[c]
<1>1. /\ r \in Call /\ CallOK(r) /\ TypeOK /\ HoldsOK /\ r.barred \in SUBSET CardIds
      /\ r.hold \in CardIds \cup {NoCard} /\ r.named \in CardIds \cup {NoCard}
      /\ call \in [Callers -> Call] /\ NoCard \notin CardIds
      /\ \A k \in CardIds : holds[k].born \in Nat
  <2>1. r \in Call /\ CallOK(r) /\ TypeOK /\ HoldsOK /\ call \in [Callers -> Call]
    BY DEF IInv, TypeOK, CallsOK
  <2>2. \A k \in CardIds : holds[k].born \in Nat
    BY <2>1 DEF TypeOK, Hold
  <2>3. NoCard \notin CardIds
    BY DEF NoCard, CardIds
  <2>4. QED
    BY <2>1, <2>2, <2>3 DEF Call
<1>2. PICK s \in Call : call' = [call EXCEPT ![c] = s]
  BY <1>1, CallType DEF StepsTo
<1>3. \A v : Goto(c, v) => s = v
  BY <1>1, <1>2 DEF Goto
<1>4. SUFFICES SeenOK(s)'
  BY <1>2
<1>5. CASE s.pc \notin {"card", "live", "count", "barred", "ask", "raise"}
  BY <1>5 DEF SeenOK
<1>6. CASE Begin(c)
  <2>1. s.named = NoCard /\ s.pc \in {"named", "live"}
    <3>1. PICK a \in Actions, i \in Issues, k \in 0..ncards : Start(c, a, i, k)
      BY <1>6 DEF Begin
    <3>2. s = [Idle EXCEPT !.action = a, !.issue = i, !.now = clock, !.hold = k,
                           !.pc = IF k # NoCard THEN "named" ELSE "live",
                           !.barred = UnreleasedHolds(a, clock)]
      BY <1>3, <3>1 DEF Start
    <3>3. QED
      BY <3>2 DEF Idle
  <2>2. QED
    BY <2>1 DEF SeenOK
<1>7. CASE FindNamed(c) \/ FollowChain(c)
  <2>1. s.pc \in {"idle", "chain"} \/ (s.pc = "card" /\ s.named = s.hold)
    <3>1. s = Idle => s.pc = "idle"
      BY DEF Idle
    <3>2. ASSUME NEW k, s = [r EXCEPT !.hold = k, !.named = k, !.hops = 0, !.pc = "card"]
          PROVE  s.pc = "card" /\ s.named = s.hold
      BY <1>1, <3>2 DEF Call
    <3>3. ASSUME NEW k, NEW n, s = [r EXCEPT !.hold = k, !.hops = n, !.pc = "chain"]
          PROVE  s.pc = "chain"
      BY <1>1, <3>3 DEF Call
    <3>4. QED
      BY <1>3, <1>7, <3>1, <3>2, <3>3 DEF FindNamed, FollowChain, Follow, AfterNamed, Return
  <2>2. CASE s.pc = "card" /\ s.named = s.hold
    <3>1. s.named # NoCard
      <4>1. ASSUME NEW k \in CardIds, AfterNamed(c, k)
            PROVE  s.named # NoCard
        <5>1. s = Idle \/ s = [r EXCEPT !.hold = k, !.named = k, !.hops = 0, !.pc = "card"]
          BY <1>3, <4>1 DEF AfterNamed, Return
        <5>2. s # Idle
          BY <2>2 DEF Idle
        <5>3. QED
          BY <1>1, <5>1, <5>2 DEF Call
      <4>2. ASSUME NEW k, NEW n, Goto(c, [r EXCEPT !.hold = k, !.hops = n, !.pc = "chain"])
            PROVE  FALSE
        BY <1>1, <1>3, <2>2, <4>2 DEF Call
      <4>3. ~Return(c)
        BY <1>3, <2>2 DEF Return, Idle
      <4>4. CASE FindNamed(c)
        BY <4>3, <4>4, <4>1, <4>2 DEF FindNamed, Kept, Follow
      <4>5. CASE FollowChain(c)
        BY <1>1, <4>5, <4>1, <4>2 DEF FollowChain, At, CallOK, SettlesOK, Kept, Follow
      <4>6. QED
        BY <1>7, <4>4, <4>5
    <3>2. QED
      BY <2>2, <3>1 DEF SeenOK
  <2>3. QED
    BY <1>5, <2>1, <2>2
<1>8. CASE FindLive(c)
  <2> DEFINE L == LiveHolds(r.action, r.issue, r.now)
  <2>1. cards' = cards /\ holds' = holds /\ r.pc = "live"
    BY <1>8 DEF FindLive, core, At
  <2>2. \A k \in r.barred : Awaits(k, r) => k \in L
    BY <1>1, <2>1 DEF CallOK, BarredOK, Awaits, LiveHolds
  <2>3. CASE /\ L = {} \/ IsNewest(r.named, L)
             /\ Goto(c, [r EXCEPT !.hold = NoCard, !.named = NoCard, !.pc = "count"])
    <3>1. s.pc = "count" /\ s.barred = r.barred /\ s.action = r.action /\ s.issue = r.issue /\ s.now = r.now
      <4>1. s = [r EXCEPT !.hold = NoCard, !.named = NoCard, !.pc = "count"]
        BY <1>3, <2>3
      <4>2. QED
        BY <1>1, <4>1 DEF Call
    <3>2. ASSUME NEW k \in r.barred, Awaits(k, r)
          PROVE  Outranked(k, r)
      <4>1. k \in L /\ k \in CardIds /\ Stored(k) /\ cards[k].status = "pending"
        BY <1>1, <2>1, <2>2, <3>2 DEF CallOK, BarredOK, Awaits
      <4>2. IsNewest(r.named, L) /\ r.named \in CardIds
        BY <2>3, <4>1 DEF IsNewest, LiveHolds
      <4>3. /\ Stored(r.named) /\ cards[r.named].status = "closed"
            /\ cards[r.named].action = r.action /\ cards[r.named].issue = r.issue
        BY <1>1, <2>1, <4>2 DEF SeenOK
      <4>4. holds[k].born <= holds[r.named].born /\ k # r.named
        BY <4>1, <4>2, <4>3 DEF IsNewest
      <4>5. holds[k].born # holds[r.named].born
        BY <4>1, <4>2, <4>3, <4>4 DEF BornOK
      <4>6. holds[r.named].born > holds[k].born
        BY <1>1, <4>1, <4>2, <4>4, <4>5
      <4>7. QED
        BY <4>2, <4>3, <4>6 DEF Outranked
    <3>3. SeenOK(s)
      BY <3>1, <3>2 DEF SeenOK, Awaits, Outranked
    <3>4. QED
      BY <2>1, <3>3 DEF SeenOK, Awaits, Outranked, Open, Kept, Stored
  <2>4. ASSUME NEW j \in CardIds, IsNewest(j, L),
               Goto(c, [r EXCEPT !.hold = j, !.named = NoCard, !.pc = "card"])
        PROVE  SeenOK(s)'
    <3>1. /\ s.pc = "card" /\ s.barred = r.barred /\ s.action = r.action /\ s.issue = r.issue
          /\ s.now = r.now /\ s.hold = j /\ s.named = NoCard
      <4>1. s = [r EXCEPT !.hold = j, !.named = NoCard, !.pc = "card"]
        BY <1>3, <2>4
      <4>2. QED
        BY <1>1, <4>1 DEF Call
    <3>2. \A k \in r.barred : Awaits(k, r) => holds[k].born <= holds[j].born
      BY <2>2, <2>4 DEF IsNewest
    <3>3. SeenOK(s)
      BY <3>1, <3>2 DEF SeenOK, Awaits
    <3>4. QED
      BY <2>1, <3>3 DEF SeenOK, Awaits, Outranked, Open, Kept, Stored
  <2>5. QED
    BY <1>8, <2>3, <2>4 DEF FindLive
<1>9. CASE ReadCard(c)
  <2> DEFINE h == r.hold
  <2>1. cards' = cards /\ holds' = holds /\ r.pc = "card"
    BY <1>9 DEF ReadCard, core, At
  <2>2. h \in CardIds /\ Stored(h) /\ cards[h].action = r.action /\ cards[h].issue = r.issue
    BY <1>1, <2>1 DEF CallOK, SettlesOK
  <2>3. CASE s.pc \in {"live", "count"}
    <3>1. /\ cards[h].status = "closed" /\ s.barred = r.barred /\ s.action = r.action
          /\ s.issue = r.issue /\ s.now = r.now /\ s.named = r.named
          /\ s.pc = IF r.named # NoCard THEN "live" ELSE "count"
      <4>1. s # Idle
        BY <2>3 DEF Idle
      <4>2. s = [r EXCEPT !.pc = IF ShowsCount(h) /\ r.action \in Counted
                                 THEN "recount" ELSE "consume"] => s.pc \notin {"live", "count"}
        BY <1>1 DEF Call
      <4>3. /\ cards[h].status = "closed"
            /\ s = [r EXCEPT !.hold = NoCard, !.pc = IF r.named # NoCard THEN "live" ELSE "count"]
        BY <1>3, <1>9, <2>3, <4>1, <4>2 DEF ReadCard, Return
      <4>4. QED
        BY <1>1, <4>3 DEF Call
    <3>2. CASE r.named # NoCard
      BY <2>1, <3>1, <3>2, <2>2 DEF SeenOK, Awaits, Outranked, Open, Kept, Stored
    <3>3. CASE r.named = NoCard
      <4>1. ASSUME NEW k \in r.barred, Awaits(k, r)
            PROVE  Outranked(k, r)
        BY <1>1, <2>1, <3>1, <4>1, <3>3, <2>2 DEF CallOK, BarredOK, Awaits, SeenOK, BornOK,
           Outranked
      <4>2. s.pc = "count"
        BY <3>1, <3>3
      <4>3. SeenOK(s)
        BY <3>1, <4>1, <4>2 DEF SeenOK, Awaits, Outranked
      <4>4. QED
        BY <2>1, <4>3 DEF SeenOK, Awaits, Outranked, Open, Kept, Stored
    <3>4. QED
      BY <3>2, <3>3
  <2>4. s.pc \in {"idle", "recount", "consume", "live", "count"}
    <3>1. \/ s = Idle
          \/ s = [r EXCEPT !.pc = IF ShowsCount(h) /\ r.action \in Counted
                                  THEN "recount" ELSE "consume"]
          \/ s = [r EXCEPT !.hold = NoCard, !.pc = IF r.named # NoCard THEN "live" ELSE "count"]
      BY <1>3, <1>9 DEF ReadCard, Return
    <3>2. \A pc : [r EXCEPT !.pc = pc].pc = pc /\ [r EXCEPT !.hold = NoCard, !.pc = pc].pc = pc
      BY <1>1 DEF Call
    <3>3. Idle.pc = "idle"
      BY DEF Idle
    <3>4. QED
      BY <3>1, <3>2, <3>3
  <2>5. QED
    BY <1>5, <2>3, <2>4
<1>10. CASE CountRows(c) \/ CheckBarred(c) \/ AskModel(c)
  <2>1. cards' = cards /\ holds' = holds /\ r.pc \in {"count", "barred", "ask"}
    BY <1>10 DEF CountRows, CheckBarred, AskModel, core, At
  <2>2. /\ s.barred = r.barred /\ s.action = r.action /\ s.issue = r.issue /\ s.now = r.now
        /\ s.pc \in {"barred", "ask", "raise", "run"}
    <3>1. \/ \E n : s = [r EXCEPT !.pc = "barred", !.rows = n]
          \/ \E pc \in {"raise", "ask"} : s = [r EXCEPT !.pc = pc]
          \/ s = [r EXCEPT !.pc = "run", !.how = "model"]
      BY <1>3, <1>10 DEF CountRows, CheckBarred, AskModel
    <3>2. QED
      BY <1>1, <3>1 DEF Call
  <2>3. SeenOK(s)
    BY <2>1, <2>2 DEF SeenOK, Awaits, Outranked
  <2>4. QED
    BY <2>1, <2>3 DEF SeenOK, Awaits, Outranked, Open, Kept, Stored
<1>11. CASE \/ Recount(c) \/ Consume(c) \/ Raise(c) \/ Insert(c) \/ RaiseAgain(c)
            \/ InsertAgain(c) \/ Supersede(c) \/ Run(c) \/ Fail(c)
  <2>1. s.pc \in {"idle", "recount", "raiseAgain", "consume", "run", "insert", "insertAgain", "supersede"}
    <3>1. s = Idle => s.pc = "idle"
      BY DEF Idle
    <3>2. CASE Insert(c) \/ Supersede(c) \/ Run(c) \/ Fail(c)
      BY <1>3, <3>1, <3>2 DEF Insert, Supersede, Run, Fail, Return
    <3>3. CASE Recount(c)
      BY <1>3, <3>3, <1>1 DEF Recount, Call
    <3>4. CASE Consume(c)
      BY <1>3, <3>4, <1>1, <3>1 DEF Consume, Return, Call
    <3>5. CASE Raise(c) \/ RaiseAgain(c)
      BY <1>3, <3>5, <1>1 DEF Raise, RaiseAgain, Call
    <3>6. CASE InsertAgain(c)
      BY <1>3, <3>6, <1>1 DEF InsertAgain, Call
    <3>7. QED
      BY <1>11, <3>2, <3>3, <3>4, <3>5, <3>6
  <2>2. QED
    BY <1>5, <2>1
<1>12. QED
  BY <1>6, <1>7, <1>8, <1>9, <1>10, <1>11 DEF Proceed

LEMMA SeenInductive ==
    ASSUME IInv, SeenInv, [Next]_vars
    PROVE  SeenInv'
<1>1. BornOK'
  BY BornKept DEF SeenInv
<1>2. Steady
  BY StepsAreSteady
<1>3. \A c \in Callers : call[c] \in Call /\ CallOK(call[c]) /\ SeenOK(call[c])
  BY DEF IInv, TypeOK, CallsOK, SeenInv
<1>4. call \in [Callers -> Call]
  BY DEF IInv, TypeOK
<1>5. ASSUME NEW d \in Callers, call'[d] = call[d]
      PROVE  SeenOK(call[d])'
  BY <1>3, <1>2, SeenFrame, <1>5 DEF SeenOK, Awaits, Outranked
<1>6. ASSUME NEW c \in Callers, Begin(c) \/ Proceed(c) \/ Fail(c)
      PROVE  \A d \in Callers : SeenOK(call[d])'
  BY <1>3, <1>6, SeenByStep, <1>4, <1>5 DEF SeenInv, SeenOK, Awaits, Outranked
<1>7. call' = call => \A d \in Callers : SeenOK(call[d])'
  BY <1>5
<1>8. \A c \in Callers : SeenOK(call[c])'
  BY <1>6, <1>7 DEF Next, Environment, Resolve, SetRows, Tick, Purge, vars
<1>9. (\A c \in Callers : SeenOK(call[c]))'
  BY <1>8
<1>10. QED
  BY <1>1, <1>9 DEF SeenInv

\* A retry of a held call finds the card that waits, or one a race has raised after it
\* (liveHold, settle): it raises no second card.
THEOREM RetriesRaiseNoCard == Spec => []RetryRaisesNoSecondCard
<1>1. Init => SeenInv
  BY DEF Init, SeenInv, BornOK, SeenOK, Stored, NoHold, Idle
<1>2. IInv /\ SeenInv /\ [Next]_vars => SeenInv'
  BY SeenInductive
<1>3. SeenInv => RetryRaisesNoSecondCard
  BY DEF SeenInv, SeenOK, Awaits, Outranked, RetryRaisesNoSecondCard, At
<1>4. QED
  BY <1>1, <1>2, <1>3, Invariance, PTL DEF Spec

\* The guardrail keeps the promise of a confirmation card: a person allows
\* it, and it lets one action through.
THEOREM KeepsApprovals == Spec => ImplementsApprovals
<1> DEFINE raised  == {k \in CardIds : cards[k].status # "none"}
           allowed == {k \in CardIds : AcceptedByPerson(k)}
           spent   == released
<1> USE DEF AcceptedByPerson
<1>1. Init => Gate!Init
  BY DEF Init, Gate!Init, NoCardYet
<1>2. ASSUME IInv, [Next]_vars
      PROVE  [Gate!Next]_<<raised, allowed, spent>>
  <2>1. /\ TypeOK /\ CardsOK /\ HoldsOK /\ ReleasedOK /\ CallsOK
        /\ cards \in [CardIds -> Card] /\ released \in [CardIds -> Nat]
    BY <1>2 DEF IInv, TypeOK
  <2>2. CASE cards' = cards /\ released' = released
    BY <2>2
  <2>3. ASSUME NEW c \in Callers, NEW k \in CardIds, NEW p, k = ncards + 1,
               cards' = [cards EXCEPT ![k] = NewCard(c, p)], released' = released
        PROVE  [Gate!Next]_<<raised, allowed, spent>>
    <3>1. k \notin raised
      BY <2>1, <2>3, ConstantsAssumption DEF CardsOK, CardOK, Raised, TypeOK, CardIds
    <3>2. cards'[k].status = "pending" /\ \A j \in CardIds : j # k => cards'[j] = cards[j]
      BY <2>1, <2>3 DEF NewCard
    <3>3. raised' = raised \cup {k} /\ allowed' = allowed /\ spent' = spent
      BY <2>3, <3>1, <3>2
    <3>4. QED
      BY <3>1, <3>3 DEF Gate!Next, Gate!Ask
  <2>4. ASSUME NEW c \in Callers, Raise(c) \/ RaiseAgain(c)
        PROVE  [Gate!Next]_<<raised, allowed, spent>>
    BY <2>2, <2>3, <2>4 DEF Raise, RaiseAgain, core
  <2>5. ASSUME NEW k \in CardIds, NEW st \in {"accepted", "rejected", "closed"},
               NEW by \in {"nobody", "person", "agent"}, Resolve(k, st, by)
        PROVE  [Gate!Next]_<<raised, allowed, spent>>
    BY <2>1, <2>5 DEF Resolve, Card, Gate!Next, Gate!Allow
  <2>6. ASSUME NEW c \in Callers, Run(c)
        PROVE  [Gate!Next]_<<raised, allowed, spent>>
    <3>1. cards' = cards
      BY <2>6 DEF Run, core
    <3>2. CASE call[c].how # "person"
      BY <2>2, <2>6, <3>1, <3>2 DEF Run
    <3>3. CASE call[c].how = "person"
      <4>1. PICK k \in CardIds : k = call[c].hold /\ Accepted(k) /\ released[k] = 0
        BY <2>1, <2>6, <3>3
           DEF Run, At, CallsOK, CallOK, SettlesOK, Person, TypeOK, Call, NoCard
      <4>2. k \in allowed /\ spent[k] = 0 /\ spent' = [spent EXCEPT ![k] = 1]
        BY <2>1, <2>6, <3>3, <4>1 DEF Accepted, Run
      <4>3. raised' = raised /\ allowed' = allowed
        BY <3>1
      <4>4. QED
        BY <4>2, <4>3 DEF Gate!Next, Gate!Spend
    <3>4. QED
      BY <3>2, <3>3
  <2>7. QED
    BY <1>2, <2>2, <2>4, <2>5, <2>6
       DEF Next, Environment, Begin, Proceed, Start, FindNamed, FollowChain, FindLive, ReadCard,
           Recount, Consume, CountRows, CheckBarred, AskModel, Insert, InsertAgain, Supersede,
           Fail, SetRows, Tick, Purge, core, vars
<1>3. QED
  BY <1>1, <1>2, Invariance, PTL DEF Spec, Gate!Spec, ImplementsApprovals

-----------------------------------------------------------------------------
(* Access to data                                                          *)


Both     == {"person", "agent"}
Listing  == {"asked", "read"}
Deciding == {"count", "create", "replace", "set"}
Chosen   == {"read", "levels"} \cup Deciding
SetLevels == {"read", "write", "schema"}

Ask == [at: {"idle", "joined", "default"} \cup Listing \cup Chosen,
        kind: {"row", "schema", "save", "grant", "agent"}, waited: 0..ListTimeout, role: Roles,
        by: Askers \cup {Nobodys}, roles: SUBSET Roles, levels: SUBSET Levels,
        moved: SUBSET {"role", "groups", "own", "default"}]
Cache == [kind: {"none", "pending", "entry"}, age: 0..CacheMs, role: Roles, by: Askers \cup {Nobodys}]
Team  == {NoTeam} \cup [level: GroupLevels, members: SUBSET Both]
Pass  == [at: {"idle", "own", "people", "agents"}, keep: SUBSET Both, gone: SUBSET Both,
          set: SUBSET (Teams \X Both)]

AccessTypes ==
    /\ topic \in {"person", "agent", "groups"} /\ standing \in Standings /\ agentThere \in BOOLEAN
    /\ sinceHeld \in [Roles -> 0..Recent] /\ roleCache \in Cache /\ asking \in [Askers -> Ask]
    /\ teams \in [Teams -> Team] /\ granted \in [own: Levels \cup {Unset}, default: Levels]
    /\ pruning \in Pass /\ asked \in 0..MaxAsked /\ moves \in 0..MaxMoves

\* A cached role was the person's when its listing was read; others may join one under way.
RolesOK ==
    /\ sinceHeld[RoleNow] = 0
    /\ roleCache.kind = "entry" => sinceHeld[roleCache.role] <= roleCache.age + ListTimeout
    /\ roleCache.kind = "pending" => roleCache.by \in Askers /\ asking[roleCache.by].at \in Listing

\* k is the record of a call.
KindOK(k) ==
    /\ k.at \in Listing \cup Chosen => k.kind # "agent"
    /\ k.at = "levels" => k.kind \in {"row", "schema"}
    /\ k.at = "joined" => k.kind = "row"
    /\ k.at = "default" => k.kind = "agent"

\* The role that a call has read was the person's at a moment that counts.
RoleOK(k) ==
    /\ k.at # "idle" /\ k.kind # "agent" => RoleNow \in k.roles
    /\ k.at \in Chosen => k.role \in k.roles
    /\ k.at \in Deciding => k.role = "admin"
    /\ k.at = "read" => sinceHeld[k.role] <= k.waited
    /\ k.at \notin Chosen => k.role = "none"

\* Of the two things a level is made of, one that has not changed is as the call has it.
LevelOK(k) ==
    /\ k.at # "idle" => LevelNow(k.kind) \in k.levels
    /\ k.at \in {"read", "levels"} /\ k.kind = "schema" =>
          /\ "role" \notin k.moved => k.role = RoleNow
          /\ "groups" \notin k.moved => PersonLevel(k.role, TeamLevels) \in k.levels
    /\ k.at = "default" =>
          /\ "own" \notin k.moved => granted.own = Unset
          /\ "default" \notin k.moved => granted.default \in k.levels

\* A joined call gets the role of a listing that was read when it counts for it too.
JoinOK(k) ==
    k.at = "joined" =>
        /\ k.by \in Askers /\ asking[k.by].at \in Listing
        /\ asking[k.by].at = "read" => asking[k.by].role \in k.roles

\* A pass keeps whom it was listed; of the others, whoever is in a group came there since.
PassOK ==
    /\ pruning.at # "idle" => "agent" \in pruning.keep \cup pruning.gone
    /\ pruning.at = "people" =>
          \/ "person" \in pruning.keep \cup pruning.gone
          \/ \A t \in Teams : "person" \in teams[t].members => <<t, "person">> \in pruning.set

Creating == {c \in Askers : asking[c].at = "create"}
GroupsOK ==
    /\ IsFiniteSet(Existing)
    /\ Cardinality(Existing) + Cardinality(Creating) <= MaxGroups - 1 + Cardinality(Askers)

AccessInv ==
    /\ AccessTypes /\ RolesOK /\ PassOK /\ GroupsOK /\ wrongs = {}
    /\ \A c \in Askers : KindOK(asking[c]) /\ RoleOK(asking[c]) /\ LevelOK(asking[c]) /\ JoinOK(asking[c])

-----------------------------------------------------------------------------
(* Roles and levels                                                        *)

LEMMA Numbers ==
    /\ CacheMs \in Nat /\ CacheMs > 0 /\ ListTimeout \in Nat /\ MaxGroups \in Nat
    /\ MaxAsked \in Nat /\ MaxMoves \in Nat
    /\ Recent \in Nat /\ Recent = CacheMs + ListTimeout /\ Recent > ListTimeout /\ Recent > 0
    /\ Cardinality(Askers) \in Nat /\ Cardinality(Askers) >= 1
BY DataAccessAssumption, FS_CardinalityType, FS_EmptySet DEF Recent

LEMMA HighestOf ==
    ASSUME NEW s \in SUBSET SetLevels, s # {}
    PROVE  Highest(s) \in s
<1>1. \E l \in s : \A k \in s : Rank[k] <= Rank[l]
  <2>1. CASE "schema" \in s
    BY <2>1 DEF SetLevels, Rank
  <2>2. CASE "schema" \notin s /\ "write" \in s
    BY <2>2 DEF SetLevels, Rank
  <2>3. CASE s = {"read"}
    BY <2>3 DEF Rank
  <2>4. QED
    BY <2>1, <2>2, <2>3 DEF SetLevels
<1>2. QED
  BY <1>1 DEF Highest

LEMMA PersonLevelIs ==
    ASSUME NEW r \in Roles, NEW s \in SUBSET SetLevels
    PROVE  /\ PersonLevel(r, s) \in Levels
           /\ r = "viewer" => PersonLevel(r, s) = "read"
<1>1. RoleLevel[r] \in Levels
  BY DEF Roles, RoleLevel, Levels
<1>2. CASE r # "member" \/ s = {}
  BY <1>1, <1>2 DEF PersonLevel, RoleLevel, Roles
<1>3. CASE r = "member" /\ s # {}
  BY <1>3, HighestOf DEF PersonLevel, SetLevels, Levels
<1>4. QED
  BY <1>2, <1>3

WhatCounts == /\ standing \in Standings /\ teams \in [Teams -> Team]
              /\ granted \in [own: Levels \cup {Unset}, default: Levels]
InRange == /\ RoleNow \in Roles /\ TeamLevels \in SUBSET SetLevels
                /\ AgentLevel \in Levels /\ \A k : LevelNow(k) \in Levels

LEMMA RolesAndLevels == WhatCounts => InRange
<1> SUFFICES ASSUME WhatCounts PROVE InRange
  OBVIOUS
<1>1. RoleNow \in Roles
  BY DEF WhatCounts, RoleNow, Standings, Roles
<1>2. TeamLevels \in SUBSET SetLevels
  BY DEF WhatCounts, Existing, Team, GroupLevels, SetLevels, Unset, TeamLevels
<1>3. AgentLevel \in Levels
  BY DEF WhatCounts, AgentLevel
<1>4. QED
  BY <1>1, <1>2, <1>3, PersonLevelIs DEF LevelNow, InRange

LEMMA IdleAsk ==
    /\ NoAsk \in Ask /\ NoAsk.at = "idle"
    /\ KindOK(NoAsk) /\ RoleOK(NoAsk) /\ LevelOK(NoAsk) /\ JoinOK(NoAsk)
<1>1. NoAsk \in Ask /\ NoAsk.at = "idle" /\ NoAsk.role = "none"
  BY Numbers DEF NoAsk, Ask, Roles, Listing, Chosen, Deciding
<1>2. QED
  BY <1>1 DEF KindOK, RoleOK, LevelOK, JoinOK, Listing, Chosen, Deciding

LEMMA AccessKnows ==
    ASSUME AccessInv
    PROVE  /\ AccessTypes /\ RolesOK /\ PassOK /\ GroupsOK /\ wrongs = {}
           /\ RoleNow \in Roles /\ TeamLevels \in SUBSET SetLevels
           /\ \A c \in Askers : /\ asking[c] \in Ask /\ KindOK(asking[c]) /\ RoleOK(asking[c])
                                /\ LevelOK(asking[c]) /\ JoinOK(asking[c])
BY RolesAndLevels DEF AccessInv, AccessTypes, WhatCounts, InRange

-----------------------------------------------------------------------------
(* One call moves                                                          *)

LEMMA GroupsCounted ==
    ASSUME GroupsOK, Existing' \subseteq Existing, Creating' \subseteq Creating
    PROVE  GroupsOK'
BY DataAccessAssumption, FS_Subset, FS_CardinalityType, Numbers DEF Creating, GroupsOK

LEMMA GroupsBegun ==
    ASSUME GroupsOK, Existing' = Existing, Cardinality(Existing) < MaxGroups
    PROVE  GroupsOK'
BY DataAccessAssumption, FS_Subset, FS_CardinalityType, Numbers DEF Creating, GroupsOK

LEMMA SameRoles ==
    ASSUME UNCHANGED <<standing, sinceHeld, teams, granted>>
    PROVE  /\ RoleNow' = RoleNow /\ TeamLevels' = TeamLevels /\ Existing' = Existing
           /\ \A k : KindOK(k)' <=> KindOK(k)
           /\ \A k : RoleOK(k)' <=> RoleOK(k)
           /\ \A k : LevelOK(k)' <=> LevelOK(k)
<1>1. RoleNow' = RoleNow /\ Existing' = Existing /\ AgentLevel' = AgentLevel
  BY DEF RoleNow, Existing, AgentLevel
<1>2. TeamLevels' = TeamLevels
  BY <1>1 DEF TeamLevels
<1>3. \A k : LevelNow(k)' = LevelNow(k)
  BY <1>1, <1>2 DEF LevelNow
<1>4. QED
  BY <1>1, <1>2, <1>3 DEF KindOK, RoleOK, LevelOK

\* A call goes on; what the others know does not depend on it, unless they wait for its listing.
LEMMA CallMoves ==
    ASSUME AccessInv, NEW c \in Askers, NEW e \in Ask, asking' = [asking EXCEPT ![c] = e],
           UNCHANGED <<topic, standing, sinceHeld, teams, granted, agentThere, pruning, moves>>,
           asked' \in 0..MaxAsked, wrongs' = {}, roleCache' \in Cache,
           roleCache' = roleCache \/ RolesOK',
           KindOK(e), RoleOK(e), LevelOK(e), JoinOK(e)',
           asking[c].at \in Listing => e.at = "read" /\ e.role = RoleNow,
           e.at = "create" => asking[c].at = "create" \/ Cardinality(Existing) < MaxGroups
    PROVE  AccessInv'
<1>1. /\ AccessTypes /\ RolesOK /\ PassOK /\ GroupsOK /\ asking \in [Askers -> Ask]
      /\ \A d \in Askers : /\ asking[d] \in Ask /\ KindOK(asking[d]) /\ RoleOK(asking[d])
                           /\ LevelOK(asking[d]) /\ JoinOK(asking[d])
  BY AccessKnows DEF AccessTypes
<1>2. /\ asking' \in [Askers -> Ask] /\ asking'[c] = e
      /\ \A d \in Askers : d # c => asking'[d] = asking[d]
  BY <1>1
<1>3. AccessTypes'
  BY <1>1, <1>2 DEF AccessTypes
<1>4. ASSUME NEW d \in Askers
      PROVE  /\ KindOK(asking'[d]) /\ RoleOK(asking'[d]) /\ LevelOK(asking'[d])
             /\ JoinOK(asking[d])'
  BY <1>2, <1>1 DEF JoinOK, KindOK, RoleOK, Listing
<1>5. RolesOK'
  BY <1>1, <1>2, SameRoles DEF RolesOK, Listing
<1>6. PassOK'
  BY <1>1 DEF PassOK
<1>7. GroupsOK'
  BY <1>1, GroupsBegun, SameRoles, <1>2, GroupsCounted DEF Creating
<1>8. \A d \in Askers : (KindOK(asking[d]) /\ RoleOK(asking[d]) /\ LevelOK(asking[d]) /\ JoinOK(asking[d]))'
  BY SameRoles, <1>4 DEF AgentLevel, LevelNow, KindOK, RoleOK, LevelOK, JoinOK
<1>9. QED
  BY <1>3, <1>5, <1>6, <1>7, <1>8 DEF AccessInv

LEMMA BegunIs ==
    ASSUME AccessInv, NEW kind \in {"row", "schema", "save", "grant", "agent"}
    PROVE  /\ Begun(kind) \in Ask
           /\ Begun(kind).at = "idle" /\ Begun(kind).kind = kind /\ Begun(kind).role = "none"
           /\ Begun(kind).levels = {LevelNow(kind)} /\ Begun(kind).moved = {}
           /\ Begun(kind).waited = 0 /\ RoleNow \in Begun(kind).roles
           /\ kind = "row" => \A r \in Roles : sinceHeld[r] < Recent => r \in Begun(kind).roles
<1> DEFINE held == IF kind = "row" THEN {r \in Roles : sinceHeld[r] < Recent} ELSE {RoleNow}
           l == LevelNow(kind)
<1>1. RoleNow \in Roles /\ sinceHeld[RoleNow] = 0 /\ l \in Levels
  BY AccessKnows, RolesAndLevels DEF RolesOK, AccessTypes, WhatCounts, InRange
<1>2. /\ held \in SUBSET Roles /\ RoleNow \in held
      /\ kind = "row" => \A r \in Roles : sinceHeld[r] < Recent => r \in held
  BY <1>1, Numbers
<1>3. Begun(kind) = [NoAsk EXCEPT !.kind = kind, !.levels = {l}, !.roles = held]
  BY DEF Begun
<1> HIDE DEF held, l
<1>4. /\ Begun(kind) \in Ask
      /\ Begun(kind).at = "idle" /\ Begun(kind).kind = kind /\ Begun(kind).role = "none"
      /\ Begun(kind).levels = {l} /\ Begun(kind).moved = {}
      /\ Begun(kind).waited = 0 /\ Begun(kind).roles = held
  <2>1. /\ NoAsk \in Ask /\ NoAsk.at = "idle" /\ NoAsk.role = "none" /\ NoAsk.moved = {}
        /\ NoAsk.waited = 0
    BY IdleAsk DEF NoAsk
  <2>2. {l} \in SUBSET Levels
    BY <1>1
  <2>3. QED
    BY <1>2, <1>3, <2>1, <2>2 DEF Ask
<1>5. QED
  BY <1>2, <1>4 DEF l

\* A call of its own listing.
LEMMA AsksIs ==
    ASSUME AccessInv, NEW kind \in {"row", "schema", "save", "grant"}
    PROVE  \E e \in Ask : /\ e = Asks(kind) /\ e.at = "asked"
                          /\ KindOK(e) /\ RoleOK(e) /\ LevelOK(e)
<1>1. PICK b \in Ask : b = Begun(kind)
  BY BegunIs
<1>2. PICK e \in Ask : e = [b EXCEPT !.at = "asked"]
  BY <1>1 DEF Ask, Listing
<1>3. /\ e.at = "asked" /\ e.kind = kind /\ e.role = "none" /\ e.levels = {LevelNow(kind)}
      /\ RoleNow \in e.roles
  BY <1>1, <1>2, BegunIs DEF Ask
<1>4. KindOK(e) /\ RoleOK(e) /\ LevelOK(e)
  BY <1>3 DEF KindOK, RoleOK, LevelOK, Listing, Chosen, Deciding
<1>5. QED
  BY <1>1, <1>2, <1>3, <1>4 DEF Asks

LEMMA BeginsRowKeeps ==
    ASSUME AccessInv, NEW c \in Askers, BeginsRow(c)
    PROVE  AccessInv'
<1>1. /\ asking[c].at = "idle" /\ asked < MaxAsked /\ asked' = asked + 1
      /\ UNCHANGED <<topic, standing, sinceHeld, teams, granted, agentThere, pruning, moves>>
      /\ wrongs' = {} /\ asked' \in 0..MaxAsked
      /\ AccessTypes /\ RolesOK /\ roleCache \in Cache /\ asking \in [Askers -> Ask]
      /\ sinceHeld \in [Roles -> 0..Recent]
  BY AccessKnows, Numbers DEF BeginsRow, AccessTypes
<1>2. PICK b \in Ask : b = Begun("row")
  BY BegunIs
<1>3. /\ b.at = "idle" /\ b.kind = "row" /\ b.role = "none" /\ b.levels = {LevelNow("row")}
      /\ RoleNow \in b.roles /\ \A r \in Roles : sinceHeld[r] < Recent => r \in b.roles
  BY <1>2, BegunIs
<1>4. CASE /\ StillServes /\ UNCHANGED roleCache
           /\ asking' = [asking EXCEPT ![c] = [Begun("row") EXCEPT !.at = "levels", !.role = roleCache.role]]
  <2>1. roleCache.role \in Roles /\ roleCache.role \in b.roles
    BY <1>1, <1>3, <1>4, Numbers DEF StillServes, RolesOK, Cache
  <2>2. PICK e \in Ask : e = [b EXCEPT !.at = "levels", !.role = roleCache.role]
    BY <2>1 DEF Ask, Chosen
  <2>3. /\ e.at = "levels" /\ e.kind = "row" /\ e.role = roleCache.role /\ e.levels = b.levels
        /\ e.roles = b.roles
    BY <1>3, <2>2 DEF Ask
  <2>4. KindOK(e) /\ RoleOK(e) /\ LevelOK(e)
    BY <1>3, <2>1, <2>3 DEF KindOK, RoleOK, LevelOK, Chosen, Deciding
  <2>5. JoinOK(e)'
    BY <2>3 DEF JoinOK
  <2>6. asking' = [asking EXCEPT ![c] = e]
    BY <1>2, <1>4, <2>2
  <2>7. QED
    BY <1>1, <1>4, <2>3, <2>4, <2>5, <2>6, CallMoves DEF Listing
<1>5. CASE /\ roleCache.kind = "pending" /\ UNCHANGED roleCache
           /\ asking' = [asking EXCEPT ![c] = [Begun("row") EXCEPT !.at = "joined", !.by = roleCache.by]]
  <2> DEFINE d == roleCache.by
  <2>1. d \in Askers /\ asking[d].at \in Listing /\ d # c
    BY <1>1, <1>5 DEF RolesOK, Listing
  <2>2. asking[d].at = "read" => asking[d].role \in b.roles
    BY <2>1, AccessKnows, <1>1, <1>3, Numbers DEF Ask, RoleOK
  <2> HIDE DEF d
  <2>3. PICK e \in Ask : e = [b EXCEPT !.at = "joined", !.by = d]
    BY <2>1 DEF Ask
  <2>4. /\ e.at = "joined" /\ e.kind = "row" /\ e.by = d /\ e.role = "none" /\ e.levels = b.levels
        /\ e.roles = b.roles
    BY <1>3, <2>3 DEF Ask
  <2>5. KindOK(e) /\ RoleOK(e) /\ LevelOK(e)
    BY <1>3, <2>4 DEF KindOK, RoleOK, LevelOK, Chosen, Deciding, Listing
  <2>6. asking' = [asking EXCEPT ![c] = e]
    BY <1>2, <1>5, <2>3 DEF d
  <2>7. asking'[d] = asking[d]
    BY <1>1, <2>1, <2>6
  <2>8. JoinOK(e)'
    BY <2>1, <2>2, <2>4, <2>7 DEF JoinOK
  <2>9. QED
    BY <1>1, <1>5, <2>4, <2>5, <2>6, <2>8, CallMoves DEF Listing
<1>6. CASE /\ ~StillServes /\ asking' = [asking EXCEPT ![c] = Asks("row")]
           /\ roleCache' = [NotCached EXCEPT !.kind = "pending", !.by = c]
  <2>1. PICK e \in Ask : /\ e = Asks("row") /\ e.at = "asked"
                         /\ KindOK(e) /\ RoleOK(e) /\ LevelOK(e)
    BY AsksIs
  <2>2. JoinOK(e)'
    BY <2>1 DEF JoinOK
  <2>3. asking' = [asking EXCEPT ![c] = e] /\ asking'[c] = e
    BY <1>1, <1>6, <2>1
  <2>4. roleCache' \in Cache /\ roleCache'.kind = "pending" /\ roleCache'.by = c
    <3>1. NotCached \in Cache
      BY Numbers DEF NotCached, Cache, Roles
    <3>2. QED
      BY <1>6, <3>1 DEF Cache
  <2>5. RolesOK'
    BY <1>1, <2>1, <2>3, <2>4, SameRoles DEF RolesOK, Listing
  <2>6. QED
    BY <1>1, <2>1, <2>2, <2>3, <2>4, <2>5, CallMoves DEF Listing
<1>7. QED
  BY <1>4, <1>5, <1>6 DEF BeginsRow

LEMMA BeginsFreshKeeps ==
    ASSUME AccessInv, NEW c \in Askers, BeginsFresh(c)
    PROVE  AccessInv'
<1>1. /\ asking[c].at = "idle" /\ asked < MaxAsked /\ asked' = asked + 1
      /\ UNCHANGED <<topic, standing, sinceHeld, teams, granted, agentThere, pruning, moves, roleCache>>
      /\ wrongs' = {} /\ asked' \in 0..MaxAsked /\ roleCache' \in Cache
      /\ topic \in {"person", "agent", "groups"}
  BY AccessKnows, Numbers DEF BeginsFresh, AccessTypes
<1>2. PICK kind \in {"row", "schema", "save", "grant"} : asking' = [asking EXCEPT ![c] = Asks(kind)]
  <2>1. KindsOf[topic] \subseteq {"row", "schema", "save", "grant"}
    BY <1>1 DEF KindsOf
  <2>2. QED
    BY <2>1 DEF BeginsFresh
<1>3. PICK e \in Ask : /\ e = Asks(kind) /\ e.at = "asked"
                       /\ KindOK(e) /\ RoleOK(e) /\ LevelOK(e)
  BY AsksIs
<1>4. JoinOK(e)'
  BY <1>3 DEF JoinOK
<1>5. QED
  BY <1>1, <1>2, <1>3, <1>4, CallMoves DEF Listing

LEMMA ListingReadKeeps ==
    ASSUME AccessInv, NEW c \in Askers, ListingRead(c)
    PROVE  AccessInv'
<1>1. /\ asking[c].at = "asked" /\ UNCHANGED roleCache
      /\ UNCHANGED <<topic, standing, sinceHeld, teams, granted, agentThere, pruning, moves>>
      /\ wrongs' = {} /\ asked' \in 0..MaxAsked /\ roleCache' \in Cache
      /\ asking' = [asking EXCEPT ![c].at = "read", ![c].role = RoleNow]
  BY AccessKnows DEF ListingRead, AccessTypes
<1>2. /\ asking[c] \in Ask /\ KindOK(asking[c]) /\ RoleOK(asking[c]) /\ LevelOK(asking[c])
      /\ RoleNow \in Roles /\ sinceHeld[RoleNow] = 0 /\ asking \in [Askers -> Ask]
  BY AccessKnows DEF RolesOK, AccessTypes
<1>3. PICK e \in Ask : e = [asking[c] EXCEPT !.at = "read", !.role = RoleNow]
  BY <1>2 DEF Ask, Chosen
<1>4. /\ e.at = "read" /\ e.role = RoleNow /\ e.kind = asking[c].kind /\ e.roles = asking[c].roles
      /\ e.levels = asking[c].levels /\ e.waited = asking[c].waited /\ e.waited \in Nat
  BY <1>2, <1>3, Numbers DEF Ask
<1>5. /\ asking[c].kind # "agent" /\ RoleNow \in asking[c].roles
      /\ LevelNow(asking[c].kind) \in asking[c].levels
  BY <1>1, <1>2 DEF KindOK, RoleOK, LevelOK, Listing
<1>6. KindOK(e) /\ RoleOK(e)
  BY <1>2, <1>4, <1>5 DEF KindOK, RoleOK, Chosen, Deciding
<1>7. LevelOK(e)
  BY <1>4, <1>5 DEF LevelOK, LevelNow
<1>8. JoinOK(e)'
  BY <1>4 DEF JoinOK
<1>9. asking' = [asking EXCEPT ![c] = e]
  BY <1>1, <1>2, <1>3
<1>10. QED
  BY <1>1, <1>4, <1>6, <1>7, <1>8, <1>9, CallMoves

-----------------------------------------------------------------------------
(* A listing is over                                                       *)

LEMMA GoneOn ==
    ASSUME NEW k \in Ask, NEW role \in Roles, KindOK(k), k.at \in {"read", "joined"}
    PROVE  \E e \in Ask :
             /\ e = GoesOn(k, role)
             /\ \/ e = NoAsk
                \/ /\ e.role = role /\ e.kind = k.kind /\ e.roles = k.roles /\ e.levels = k.levels
                   /\ e.moved = k.moved /\ e.at \in {"levels", "count", "set"}
                   /\ e.at = "levels" <=> k.kind \in {"row", "schema"}
                   /\ k.kind \notin {"row", "schema"} => role = "admin"
<1> DEFINE to == IF k.kind \in {"row", "schema"} THEN "levels" ELSE IF k.kind = "save" THEN "count" ELSE "set"
<1>1. to \in {"levels", "count", "set"} /\ (to = "levels" <=> k.kind \in {"row", "schema"})
  OBVIOUS
<1>2. CASE k.kind \notin {"row", "schema"} /\ role # "admin"
  BY <1>2, IdleAsk DEF GoesOn
<1>3. CASE k.kind \in {"row", "schema"} \/ role = "admin"
  <2>1. GoesOn(k, role) = [k EXCEPT !.role = role, !.waited = 0, !.by = Nobodys, !.at = to]
    BY <1>3 DEF GoesOn
  <2> HIDE DEF to
  <2>2. PICK e \in Ask : e = [k EXCEPT !.role = role, !.waited = 0, !.by = Nobodys, !.at = to]
    <3>1. 0 \in 0..ListTimeout /\ Nobodys \in Askers \cup {Nobodys}
      BY Numbers
    <3>2. to \in {"idle", "joined", "default"} \cup Listing \cup Chosen
      BY <1>1 DEF Chosen, Deciding
    <3>3. QED
      BY <3>1, <3>2 DEF Ask
  <2>3. /\ e.role = role /\ e.kind = k.kind /\ e.roles = k.roles /\ e.levels = k.levels
        /\ e.moved = k.moved /\ e.at = to
    BY <2>2 DEF Ask
  <2>4. QED
    BY <1>1, <1>3, <2>1, <2>2, <2>3
<1>4. QED
  BY <1>2, <1>3

\* The calls that the listing of c serves move; those that wait for another one do not.
LEMMA ServedMove ==
    ASSUME AccessInv, NEW c \in Askers, asking[c].at \in Listing,
           UNCHANGED <<topic, standing, sinceHeld, teams, granted, agentThere, pruning, asked, moves>>,
           wrongs' = {}, asking' \in [Askers -> Ask],
           roleCache' \in Cache, roleCache'.kind # "pending",
           roleCache'.kind = "entry" => sinceHeld[roleCache'.role] <= roleCache'.age + ListTimeout,
           \A d \in Askers \ Served(c) : asking'[d] = asking[d],
           \A d \in Served(c) : /\ KindOK(asking'[d]) /\ RoleOK(asking'[d]) /\ LevelOK(asking'[d])
                                /\ asking'[d].at \notin {"joined", "create"}
    PROVE  AccessInv'
<1>1. /\ AccessTypes /\ RolesOK /\ PassOK /\ GroupsOK
      /\ \A d \in Askers : /\ asking[d] \in Ask /\ KindOK(asking[d]) /\ RoleOK(asking[d])
                           /\ LevelOK(asking[d]) /\ JoinOK(asking[d])
  BY AccessKnows
<1>2. Served(c) \subseteq Askers /\ \A d \in Served(c) : d = c \/ (asking[d].at = "joined" /\ asking[d].by = c)
  BY DEF Served
<1>3. AccessTypes'
  BY <1>1 DEF AccessTypes
<1>4. ASSUME NEW d \in Askers
      PROVE  KindOK(asking'[d]) /\ RoleOK(asking'[d]) /\ LevelOK(asking'[d]) /\ JoinOK(asking[d])'
  BY <1>1, <1>2 DEF JoinOK, Listing, Served
<1>5. RolesOK'
  BY <1>1, SameRoles DEF RolesOK
<1>6. PassOK'
  BY <1>1 DEF PassOK
<1>7. GroupsOK'
  BY <1>1, GroupsCounted, SameRoles DEF Creating
<1>8. \A d \in Askers : (KindOK(asking[d]) /\ RoleOK(asking[d]) /\ LevelOK(asking[d]) /\ JoinOK(asking[d]))'
  BY SameRoles, <1>4 DEF AgentLevel, LevelNow, KindOK, RoleOK, LevelOK
<1>9. QED
  BY <1>3, <1>5, <1>6, <1>7, <1>8 DEF AccessInv

LEMMA ListingArrivesKeeps ==
    ASSUME AccessInv, NEW c \in Askers, ListingArrives(c)
    PROVE  AccessInv'
<1>1. /\ asking[c].at = "read" /\ asking[c].at \in Listing
      /\ UNCHANGED <<topic, standing, sinceHeld, teams, granted, agentThere, pruning, asked, moves>>
      /\ wrongs' = {}
      /\ roleCache' = [NotCached EXCEPT !.kind = "entry", !.role = asking[c].role]
      /\ asking' = [d \in Askers |-> IF d \in Served(c) THEN GoesOn(asking[d], asking[c].role) ELSE asking[d]]
  BY AccessKnows DEF ListingArrives, Listing
<1>2. \A d \in Askers : /\ asking[d] \in Ask /\ KindOK(asking[d]) /\ RoleOK(asking[d])
                        /\ LevelOK(asking[d]) /\ JoinOK(asking[d])
  BY AccessKnows
<1>3. /\ asking[c].role \in Roles /\ asking[c].waited \in 0..ListTimeout
      /\ sinceHeld[asking[c].role] <= asking[c].waited
  BY <1>1, <1>2 DEF Ask, RoleOK
<1>4. /\ roleCache' \in Cache /\ roleCache'.kind = "entry" /\ roleCache'.role = asking[c].role
      /\ roleCache'.age = 0
  <2>1. NotCached \in Cache /\ NotCached.age = 0
    BY Numbers DEF NotCached, Cache, Roles
  <2>2. QED
    BY <1>1, <1>3, <2>1 DEF Cache
<1>5. sinceHeld[roleCache'.role] <= roleCache'.age + ListTimeout
  BY <1>3, AccessKnows, <1>4, Numbers DEF AccessTypes
<1>6. ASSUME NEW d \in Served(c)
      PROVE  /\ asking'[d] \in Ask /\ KindOK(asking'[d]) /\ RoleOK(asking'[d]) /\ LevelOK(asking'[d])
             /\ asking'[d].at \notin {"joined", "create"}
  <2>1. d \in Askers /\ (d = c \/ (asking[d].at = "joined" /\ asking[d].by = c))
    BY DEF Served
  <2>2. asking[d].at \in {"read", "joined"} /\ asking[d] \in Ask /\ KindOK(asking[d])
    BY <1>1, <1>2, <2>1
  <2>3. PICK e \in Ask :
             /\ e = GoesOn(asking[d], asking[c].role)
             /\ \/ e = NoAsk
                \/ /\ e.role = asking[c].role /\ e.kind = asking[d].kind /\ e.roles = asking[d].roles
                   /\ e.levels = asking[d].levels
                   /\ e.moved = asking[d].moved /\ e.at \in {"levels", "count", "set"}
                   /\ e.at = "levels" <=> asking[d].kind \in {"row", "schema"}
                   /\ asking[d].kind \notin {"row", "schema"} => asking[c].role = "admin"
    BY <1>3, <2>2, GoneOn
  <2>4. asking'[d] = e
    BY <1>1, <2>1, <2>3
  <2>5. CASE e = NoAsk
    BY <2>3, <2>4, <2>5, IdleAsk
  <2>6. CASE e # NoAsk
    <3>1. /\ asking[d].kind # "agent"
          /\ asking[d].at = "joined" => asking[d].kind = "row"
      BY <2>2 DEF KindOK, Listing, Chosen
    <3>2. asking[c].role \in asking[d].roles
      BY <1>1, <1>2, <2>1 DEF RoleOK, Chosen, JoinOK
    <3>3. RoleNow \in asking[d].roles /\ LevelNow(asking[d].kind) \in asking[d].levels
      BY <1>2, <2>1, <2>2, <3>1 DEF RoleOK, LevelOK
    <3>4. KindOK(e)
      BY <2>3, <2>6, <3>1 DEF KindOK
    <3>5. RoleOK(e)
      BY <2>3, <2>6, <3>2, <3>3 DEF RoleOK, Chosen, Deciding
    <3>6. LevelOK(e)
      <4>1. CASE asking[d].kind = "schema"
        BY <2>1, <3>1, <4>1, <1>1, <1>2, <2>3, <2>6, <3>3 DEF LevelOK
      <4>2. CASE asking[d].kind # "schema"
        BY <2>3, <2>6, <3>3, <4>2 DEF LevelOK
      <4>3. QED
        BY <4>1, <4>2
    <3>7. QED
      BY <2>3, <2>4, <2>6, <3>4, <3>5, <3>6
  <2>7. QED
    BY <2>5, <2>6
<1>7. asking' \in [Askers -> Ask] /\ \A d \in Askers \ Served(c) : asking'[d] = asking[d]
  BY <1>1, <1>2, <1>6
<1>8. QED
  BY <1>1, <1>4, <1>5, <1>6, <1>7, ServedMove

LEMMA ListingFailsKeeps ==
    ASSUME AccessInv, NEW c \in Askers, ListingFails(c)
    PROVE  AccessInv'
BY AccessKnows, Numbers, IdleAsk, ServedMove DEF ListingFails, Listing, AccessTypes,
   NotCached, Cache, Roles, Served

-----------------------------------------------------------------------------
(* A call is decided                                                       *)

\* A call is over: the way of all that decide, refuse or fail.
LEMMA CallEnds ==
    ASSUME AccessInv, NEW c \in Askers, asking[c].at \notin Listing,
           asking' = [asking EXCEPT ![c] = NoAsk], wrongs' = {}, asked' \in 0..MaxAsked,
           UNCHANGED <<topic, standing, sinceHeld, teams, granted, agentThere, pruning, moves, roleCache>>
    PROVE  AccessInv'
BY AccessKnows, IdleAsk, CallMoves DEF AccessTypes, JoinOK

LEMMA DecidesLevelKeeps ==
    ASSUME AccessInv, NEW c \in Askers, DecidesLevel(c)
    PROVE  AccessInv'
<1> DEFINE level == PersonLevel(asking[c].role, TeamLevels)
<1>1. /\ asking[c].at = "levels" /\ asking[c] \in Ask /\ wrongs = {} /\ asked' \in 0..MaxAsked
      /\ KindOK(asking[c]) /\ RoleOK(asking[c]) /\ LevelOK(asking[c])
      /\ UNCHANGED <<topic, standing, sinceHeld, teams, granted, agentThere, pruning, moves, roleCache>>
      /\ Decided(c, asking[c], level)
  BY AccessKnows DEF DecidesLevel, AccessTypes
<1>2. asking[c].kind = "schema" => level \in asking[c].levels \/ {"role", "groups"} \subseteq asking[c].moved
  BY <1>1 DEF LevelOK, LevelNow
<1>3. asking[c].kind # "agent" /\ asking[c].role \in asking[c].roles
  BY <1>1 DEF KindOK, RoleOK, Chosen
<1>4. asking[c].role = "viewer" => Rank[level] <= Rank["read"]
  BY <1>1, AccessKnows, PersonLevelIs DEF Ask, Rank
<1>5. Right(asking[c], level)
  BY <1>2, <1>3, <1>4 DEF Right
<1> HIDE DEF level
<1>6. wrongs' = {} /\ asking' = [asking EXCEPT ![c] = NoAsk]
  BY <1>1, <1>5 DEF Decided
<1>7. QED
  BY <1>1, <1>6, CallEnds DEF Listing

LEMMA BeginsAgentKeeps ==
    ASSUME AccessInv, NEW c \in Askers, BeginsAgent(c)
    PROVE  AccessInv'
<1>1. /\ asking[c].at = "idle" /\ wrongs = {} /\ asked' \in 0..MaxAsked /\ roleCache' \in Cache
      /\ UNCHANGED <<topic, standing, sinceHeld, teams, granted, agentThere, pruning, moves, roleCache>>
      /\ granted \in [own: Levels \cup {Unset}, default: Levels]
  BY AccessKnows, Numbers DEF BeginsAgent, AccessTypes
<1>2. PICK b \in Ask : b = Begun("agent")
  BY BegunIs
<1>3. /\ b.at = "idle" /\ b.kind = "agent" /\ b.role = "none" /\ b.levels = {AgentLevel}
      /\ b.moved = {}
  BY <1>2, BegunIs DEF LevelNow
<1>4. CASE granted.own # Unset /\ Decided(c, Begun("agent"), granted.own)
  BY <1>3, <1>4, <1>2, <1>1, CallEnds DEF AgentLevel, Right, Decided, Listing
<1>5. CASE /\ granted.own = Unset /\ UNCHANGED wrongs
           /\ asking' = [asking EXCEPT ![c] = [Begun("agent") EXCEPT !.at = "default"]]
  <2>1. PICK e \in Ask : e = [b EXCEPT !.at = "default"]
    BY DEF Ask
  <2>2. /\ e.at = "default" /\ e.kind = "agent" /\ e.role = "none" /\ e.levels = {AgentLevel}
        /\ e.moved = {}
    BY <1>3, <2>1 DEF Ask
  <2>3. granted.default = AgentLevel
    BY <1>5 DEF AgentLevel
  <2>4. KindOK(e) /\ RoleOK(e)
    BY <2>2 DEF KindOK, RoleOK, Chosen, Deciding, Listing
  <2>5. LevelOK(e)
    BY <1>5, <2>2, <2>3 DEF LevelOK, LevelNow
  <2>6. JoinOK(e)'
    BY <2>2 DEF JoinOK
  <2>7. asking' = [asking EXCEPT ![c] = e]
    BY <1>2, <1>5, <2>1
  <2>8. QED
    BY <1>1, <1>5, <2>2, <2>4, <2>5, <2>6, <2>7, CallMoves DEF Listing
<1>6. QED
  BY <1>4, <1>5 DEF BeginsAgent

LEMMA ReadsDefaultKeeps ==
    ASSUME AccessInv, NEW c \in Askers, ReadsDefault(c)
    PROVE  AccessInv'
<1>1. /\ asking[c].at = "default" /\ asking[c] \in Ask /\ wrongs = {} /\ asked' \in 0..MaxAsked
      /\ KindOK(asking[c]) /\ RoleOK(asking[c]) /\ LevelOK(asking[c])
      /\ UNCHANGED <<topic, standing, sinceHeld, teams, granted, agentThere, pruning, moves, roleCache>>
      /\ Decided(c, asking[c], granted.default)
  BY AccessKnows DEF ReadsDefault, AccessTypes
<1>2. asking[c].kind = "agent" /\ asking[c].role = "none"
  BY <1>1 DEF KindOK, RoleOK, Chosen, Deciding
<1>3. granted.default \in asking[c].levels \/ {"own", "default"} \subseteq asking[c].moved
  BY <1>1, <1>2 DEF LevelOK, LevelNow, AgentLevel
<1>4. Right(asking[c], granted.default)
  BY <1>2, <1>3 DEF Right
<1>5. wrongs' = {} /\ asking' = [asking EXCEPT ![c] = NoAsk]
  BY <1>1, <1>4 DEF Decided
<1>6. QED
  BY <1>1, <1>5, CallEnds DEF Listing

LEMMA CountsGroupsKeeps ==
    ASSUME AccessInv, NEW c \in Askers, CountsGroups(c)
    PROVE  AccessInv'
<1>1. /\ asking[c].at = "count" /\ asking[c] \in Ask /\ wrongs' = {} /\ asked' \in 0..MaxAsked
      /\ roleCache' \in Cache /\ asking \in [Askers -> Ask]
      /\ KindOK(asking[c]) /\ RoleOK(asking[c]) /\ LevelOK(asking[c])
      /\ UNCHANGED <<topic, standing, sinceHeld, teams, granted, agentThere, pruning, moves, roleCache>>
  BY AccessKnows DEF CountsGroups, AccessTypes
<1>2. ASSUME NEW to \in {"create", "replace"}, asking' = [asking EXCEPT ![c] = [asking[c] EXCEPT !.at = to]],
             to = "create" => Cardinality(Existing) < MaxGroups
      PROVE  AccessInv'
  <2>1. PICK e \in Ask : e = [asking[c] EXCEPT !.at = to]
    BY <1>1 DEF Ask, Chosen, Deciding
  <2>2. /\ e.at = to /\ e.kind = asking[c].kind /\ e.role = asking[c].role /\ e.roles = asking[c].roles
        /\ e.levels = asking[c].levels
    BY <1>1, <2>1 DEF Ask
  <2>3. KindOK(e) /\ RoleOK(e)
    BY <1>1, <2>2 DEF KindOK, RoleOK, Chosen, Deciding
  <2>4. LevelOK(e)
    BY <1>1, <2>2 DEF LevelOK
  <2>5. JoinOK(e)'
    BY <2>2 DEF JoinOK
  <2>6. asking' = [asking EXCEPT ![c] = e]
    BY <1>2, <2>1
  <2>7. QED
    BY <1>1, <1>2, <2>2, <2>3, <2>4, <2>5, <2>6, CallMoves DEF Listing
<1>3. CASE asking' = [asking EXCEPT ![c].at = "replace"]
  BY <1>3, <1>2
<1>4. CASE asking' = [asking EXCEPT ![c] = IF FullNow(Cardinality(Existing)) THEN NoAsk
                                           ELSE [@ EXCEPT !.at = "create"]]
  <2>1. CASE FullNow(Cardinality(Existing))
    BY <1>1, <1>4, <2>1, CallEnds DEF Listing
  <2>2. CASE ~FullNow(Cardinality(Existing))
    BY AccessKnows, FS_CardinalityType, <2>2, Numbers, <1>1, <1>4, <1>2 DEF GroupsOK,
       FullNow
  <2>3. QED
    BY <2>1, <2>2
<1>5. QED
  BY <1>3, <1>4 DEF CountsGroups

-----------------------------------------------------------------------------
(* Something changes under the calls                                       *)

MovedBy == {"role", "groups", "own", "default"}

\* What a change notes of a call under way: the role, the level, and what has changed.
LEMMA NotedCall ==
    ASSUME NEW calls \in [Askers -> Ask], NEW what \in MovedBy, NEW d \in Askers,
           asking' = Noted(calls, what)
    PROVE  /\ asking'[d].at = calls[d].at /\ asking'[d].kind = calls[d].kind
           /\ asking'[d].waited = calls[d].waited /\ asking'[d].role = calls[d].role
           /\ asking'[d].by = calls[d].by
           /\ calls[d].roles \subseteq asking'[d].roles /\ calls[d].levels \subseteq asking'[d].levels
           /\ calls[d].moved \subseteq asking'[d].moved
           /\ calls[d].at # "idle" => /\ RoleNow' \in asking'[d].roles /\ what \in asking'[d].moved
                                     /\ LevelNow(calls[d].kind)' \in asking'[d].levels
<1> DEFINE now == IF calls[d].kind = "agent" THEN AgentLevel' ELSE PersonLevel(RoleNow, TeamLevels)'
           role == RoleNow'
<1>1. calls[d] \in Ask
  OBVIOUS
<1>2. LevelNow(calls[d].kind)' = now
  BY DEF LevelNow
<1>3. asking'[d] = IF calls[d].at = "idle" THEN calls[d]
                   ELSE [calls[d] EXCEPT !.roles = @ \cup {role}, !.moved = @ \cup {what}, !.levels = @ \cup {now}]
  BY DEF Noted
<1> HIDE DEF now, role
<1>4. CASE calls[d].at = "idle"
  BY <1>3, <1>4
<1>5. CASE calls[d].at # "idle"
  BY <1>3, <1>5, <1>1, <1>2 DEF Ask, role
<1>6. QED
  BY <1>4, <1>5

LEMMA TypedThen == WhatCounts' => InRange'
BY RolesAndLevels, PTL

\* Calls that are under way, or end now, stay right when something changes that is noted.
LEMMA NotedStay ==
    ASSUME AccessInv, NEW calls \in [Askers -> Ask], NEW what \in MovedBy,
           \A d \in Askers : calls[d] = asking[d] \/ (calls[d] = NoAsk /\ asking[d].at \notin Listing),
           asking' = Noted(calls, what), WhatCounts',
           UNCHANGED <<topic, roleCache, asked>>, agentThere' \in BOOLEAN,
           sinceHeld' \in [Roles -> 0..Recent], pruning' \in Pass, moves' \in 0..MaxMoves,
           \A r \in Roles : sinceHeld'[r] <= sinceHeld[r], sinceHeld'[RoleNow'] = 0,
           what = "role" \/ RoleNow' = RoleNow, what = "groups" \/ TeamLevels' = TeamLevels,
           what = "own" \/ granted'.own = granted.own,
           what = "default" \/ granted'.default = granted.default,
           PassOK', GroupsOK', wrongs' = {}
    PROVE  AccessInv'
<1>1. /\ AccessTypes /\ RolesOK
      /\ \A d \in Askers : /\ asking[d] \in Ask /\ KindOK(asking[d]) /\ RoleOK(asking[d])
                           /\ LevelOK(asking[d]) /\ JoinOK(asking[d])
  BY AccessKnows
<1>2. RoleNow' \in Roles /\ AgentLevel' \in Levels /\ \A k : LevelNow(k)' \in Levels
  BY TypedThen DEF InRange
<1>3. ASSUME NEW d \in Askers
      PROVE  /\ asking'[d].at = calls[d].at /\ asking'[d].kind = calls[d].kind
             /\ asking'[d].waited = calls[d].waited /\ asking'[d].role = calls[d].role
             /\ asking'[d].by = calls[d].by
             /\ calls[d].roles \subseteq asking'[d].roles /\ calls[d].levels \subseteq asking'[d].levels
             /\ calls[d].moved \subseteq asking'[d].moved
             /\ calls[d].at # "idle" => /\ RoleNow' \in asking'[d].roles /\ what \in asking'[d].moved
                                       /\ LevelNow(calls[d].kind)' \in asking'[d].levels
  BY NotedCall
<1>4. ASSUME NEW d \in Askers
      PROVE  asking'[d] \in Ask
  <2> DEFINE now == IF calls[d].kind = "agent" THEN AgentLevel' ELSE PersonLevel(RoleNow, TeamLevels)'
             role == RoleNow'
  <2>1. now = LevelNow(calls[d].kind)'
    BY DEF LevelNow
  <2>2. asking'[d] = IF calls[d].at = "idle" THEN calls[d]
                     ELSE [calls[d] EXCEPT !.roles = @ \cup {role}, !.moved = @ \cup {what}, !.levels = @ \cup {now}]
    BY DEF Noted
  <2>3. calls[d] \in Ask /\ now \in Levels /\ role \in Roles
    BY <1>2, <2>1
  <2> HIDE DEF now, role
  <2>4. /\ calls[d].roles \cup {role} \in SUBSET Roles /\ calls[d].levels \cup {now} \in SUBSET Levels
        /\ calls[d].moved \cup {what} \in SUBSET MovedBy
    BY <2>3 DEF Ask, MovedBy
  <2>6. CASE calls[d].at = "idle"
    BY <2>2, <2>3, <2>6
  <2>7. CASE calls[d].at # "idle"
    <3>1. asking'[d] = [calls[d] EXCEPT !.roles = calls[d].roles \cup {role}, !.moved = calls[d].moved \cup {what},
                                        !.levels = calls[d].levels \cup {now}]
      BY <2>2, <2>7
    <3> DEFINE rs == calls[d].roles \cup {role}
               ms == calls[d].moved \cup {what}
               ls == calls[d].levels \cup {now}
    <3>2. rs \in SUBSET Roles /\ ls \in SUBSET Levels /\ ms \in SUBSET MovedBy
      BY <2>4
    <3>3. asking'[d] = [calls[d] EXCEPT !.roles = rs, !.moved = ms, !.levels = ls]
      BY <3>1
    <3> HIDE DEF rs, ms, ls
    <3>4. QED
      BY <2>3, <3>2, <3>3 DEF Ask, MovedBy
  <2>8. QED
    BY <2>6, <2>7
<1>5. AccessTypes'
  BY <1>4, <1>1 DEF Noted, AccessTypes, WhatCounts
<1>6. RolesOK'
  BY <1>1, <1>3, IdleAsk, Numbers DEF RolesOK, AccessTypes, Cache
<1>7. ASSUME NEW d \in Askers
      PROVE  KindOK(asking[d])' /\ RoleOK(asking[d])' /\ LevelOK(asking[d])' /\ JoinOK(asking[d])'
  <2> DEFINE k == calls[d]
  <2>1. k \in Ask /\ KindOK(k) /\ RoleOK(k) /\ LevelOK(k) /\ JoinOK(k)
    BY <1>1, IdleAsk
  <2> HIDE DEF k
  <2>2. /\ asking'[d].at = k.at /\ asking'[d].kind = k.kind /\ asking'[d].waited = k.waited
        /\ asking'[d].role = k.role /\ asking'[d].by = k.by
        /\ k.roles \subseteq asking'[d].roles /\ k.levels \subseteq asking'[d].levels
        /\ k.moved \subseteq asking'[d].moved
        /\ k.at # "idle" => /\ RoleNow' \in asking'[d].roles /\ what \in asking'[d].moved
                            /\ LevelNow(k.kind)' \in asking'[d].levels
    BY <1>3 DEF k
  <2>3. KindOK(asking[d])'
    BY <2>1, <2>2 DEF KindOK
  <2>4. RoleOK(asking[d])'
    BY <2>1, <1>1, Numbers, <2>2 DEF Ask, AccessTypes, RoleOK
  <2>5. LevelOK(asking[d])'
    BY <2>1, <2>2 DEF LevelOK, PersonLevel
  <2>6. JoinOK(asking[d])'
    BY <2>1, <1>3, <2>2 DEF JoinOK
  <2>7. QED
    BY <2>3, <2>4, <2>5, <2>6
<1>8. QED
  BY <1>5, <1>6, <1>7 DEF AccessInv

LEMMA PersonMovesKeeps ==
    ASSUME AccessInv, NEW s \in Standings, PersonMoves(s)
    PROVE  AccessInv'
<1>1. /\ AccessTypes /\ RolesOK /\ PassOK /\ GroupsOK /\ wrongs' = {} /\ moves' \in 0..MaxMoves
      /\ UNCHANGED <<topic, roleCache, teams, granted, agentThere, asked>>
      /\ standing' = s /\ asking' = Noted(asking, "role")
      /\ sinceHeld' = [sinceHeld EXCEPT ![RoleNow] = 0, ![RoleNow'] = 0]
  BY AccessKnows, Numbers DEF PersonMoves, AccessTypes
<1>2. WhatCounts' /\ RoleNow \in Roles
  BY <1>1, AccessKnows DEF AccessTypes, WhatCounts
<1>3. RoleNow' \in Roles
  BY <1>2, TypedThen DEF InRange
<1>4. /\ sinceHeld' \in [Roles -> 0..Recent] /\ sinceHeld'[RoleNow'] = 0
      /\ \A r \in Roles : sinceHeld'[r] <= sinceHeld[r]
  BY <1>1, Numbers, <1>2, <1>3 DEF AccessTypes
<1>5. Existing' = Existing /\ TeamLevels' = TeamLevels
  BY <1>1 DEF Existing, TeamLevels
<1>6. pruning' \in Pass /\ PassOK'
  <2> DEFINE more == IF s = "archived" /\ pruning # NoPass THEN pruning.gone \cup {"person"} ELSE pruning.gone
  <2>1. pruning \in Pass /\ more \in SUBSET Both /\ pruning.gone \subseteq more
    BY <1>1 DEF AccessTypes, Pass, Both
  <2>2. pruning' = [pruning EXCEPT !.gone = more]
    BY <2>1 DEF PersonMoves
  <2> HIDE DEF more
  <2>3. /\ pruning' \in Pass /\ pruning'.at = pruning.at /\ pruning'.keep = pruning.keep
        /\ pruning'.gone = more /\ pruning'.set = pruning.set
    BY <2>1, <2>2 DEF Pass
  <2>4. QED
    BY <1>1, <2>1, <2>3 DEF PassOK
<1>7. GroupsOK'
  BY <1>1, NotedCall, <1>5, GroupsCounted DEF Creating, AccessTypes, MovedBy
<1>8. asking \in [Askers -> Ask] /\ agentThere' \in BOOLEAN /\ "role" \in MovedBy
  BY <1>1 DEF AccessTypes, MovedBy
<1>9. QED
  BY <1>1, <1>2, <1>4, <1>5, <1>6, <1>7, <1>8, NotedStay

LEMMA SetsGrantKeeps ==
    ASSUME AccessInv, NEW c \in Askers, SetsGrant(c)
    PROVE  AccessInv'
<1>1. PICK what \in {"own", "default"}, l \in {"none", "write"} :
         /\ granted' = [granted EXCEPT ![what] = l]
         /\ asking' = Noted([asking EXCEPT ![c] = NoAsk], what)
  BY DEF SetsGrant
<1>2. /\ AccessTypes /\ RolesOK /\ PassOK /\ GroupsOK /\ wrongs' = {} /\ asking[c].at = "set"
      /\ UNCHANGED <<topic, standing, sinceHeld, roleCache, teams, agentThere, pruning, asked, moves>>
  BY AccessKnows DEF SetsGrant
<1>3. PICK calls \in [Askers -> Ask] : calls = [asking EXCEPT ![c] = NoAsk]
  BY <1>2, IdleAsk DEF AccessTypes
<1>4. \A d \in Askers : calls[d] = asking[d] \/ (calls[d] = NoAsk /\ asking[d].at \notin Listing)
  BY <1>2, <1>3 DEF AccessTypes, Listing
<1>5. what \in MovedBy /\ asking' = Noted(calls, what)
  BY <1>1, <1>3 DEF MovedBy
<1>6. /\ WhatCounts'
      /\ what = "own" \/ granted'.own = granted.own
      /\ what = "default" \/ granted'.default = granted.default
  BY <1>1, <1>2 DEF AccessTypes, WhatCounts, Levels
<1>7. RoleNow' = RoleNow /\ Existing' = Existing /\ TeamLevels' = TeamLevels
  BY <1>2 DEF RoleNow, Existing, TeamLevels
<1>8. GroupsOK'
  BY <1>5, NotedCall, <1>4, IdleAsk, <1>2, <1>7, GroupsCounted DEF Creating
<1>9. PassOK'
  BY <1>2 DEF PassOK
<1>10. /\ sinceHeld' \in [Roles -> 0..Recent] /\ \A r \in Roles : sinceHeld'[r] <= sinceHeld[r]
       /\ sinceHeld'[RoleNow'] = 0
  BY <1>2, <1>7, Numbers DEF AccessTypes, RolesOK
<1>11. agentThere' \in BOOLEAN /\ pruning' \in Pass /\ moves' \in 0..MaxMoves
  BY <1>2 DEF AccessTypes
<1>12. QED
  BY <1>2, <1>4, <1>5, <1>6, <1>7, <1>8, <1>9, <1>10, <1>11, NotedStay

\* A save or a removal of a group: only one that has counted adds a group.
LEMMA SetsTeamKeeps ==
    ASSUME AccessInv, NEW c \in Askers, asking[c].at \in Deciding, NEW t \in Teams, NEW team \in Team,
           SetsTeam(c, t, team), asking[c].at = "create" \/ team = NoTeam \/ t \in Existing
    PROVE  AccessInv'
<1>1. /\ AccessTypes /\ RolesOK /\ PassOK /\ GroupsOK /\ wrongs' = {}
      /\ teams' = [teams EXCEPT ![t] = team]
      /\ UNCHANGED <<topic, standing, sinceHeld, roleCache, granted, agentThere, asked, moves>>
  BY AccessKnows DEF SetsTeam
<1>2. PICK calls \in [Askers -> Ask] : calls = [asking EXCEPT ![c] = NoAsk]
  BY <1>1, IdleAsk DEF AccessTypes
<1>3. \A d \in Askers : calls[d] = asking[d] \/ (calls[d] = NoAsk /\ asking[d].at \notin Listing)
  BY <1>1, <1>2 DEF AccessTypes, Listing, Deciding
<1>4. "groups" \in MovedBy /\ asking' = Noted(calls, "groups")
  BY <1>2 DEF MovedBy, SetsTeam
<1>5. WhatCounts' /\ RoleNow' = RoleNow
  BY <1>1 DEF AccessTypes, WhatCounts, RoleNow
<1>6. GroupsOK'
  <2>1. ASSUME NEW d \in Askers PROVE asking'[d].at = calls[d].at
    BY <1>4, NotedCall
  <2>2. Creating' \subseteq Creating \ {c}
    BY <1>2, <1>3, <2>1, IdleAsk DEF Creating, AccessTypes
  <2>3. Existing' \subseteq Existing \cup {t} /\ (team = NoTeam => Existing' \subseteq Existing)
    BY <1>1 DEF Existing, AccessTypes
  <2>4. CASE team = NoTeam \/ t \in Existing
    BY <1>1, <2>2, <2>3, <2>4, GroupsCounted
  <2>5. CASE asking[c].at = "create"
    <3>1. IsFiniteSet(Creating) /\ IsFiniteSet(Existing) /\ c \in Creating
      BY <2>5, <1>1, DataAccessAssumption, FS_Subset DEF Creating, GroupsOK
    <3>2. /\ IsFiniteSet(Creating \ {c}) /\ Cardinality(Creating \ {c}) = Cardinality(Creating) - 1
      BY <3>1, FS_RemoveElement
    <3>3. /\ IsFiniteSet(Existing \cup {t})
          /\ Cardinality(Existing \cup {t}) <= Cardinality(Existing) + 1
      <4>1. Cardinality(Existing) \in Nat
        BY <3>1, FS_CardinalityType
      <4>2. /\ IsFiniteSet(Existing \cup {t})
            /\ \/ Cardinality(Existing \cup {t}) = Cardinality(Existing)
               \/ Cardinality(Existing \cup {t}) = Cardinality(Existing) + 1
        BY <3>1, FS_AddElement
      <4>3. QED
        BY <4>1, <4>2
    <3>4. /\ IsFiniteSet(Creating') /\ IsFiniteSet(Existing')
          /\ Cardinality(Creating') <= Cardinality(Creating \ {c})
          /\ Cardinality(Existing') <= Cardinality(Existing \cup {t})
      BY <2>2, <2>3, <3>2, <3>3, FS_Subset
    <3>5. /\ Cardinality(Creating') \in Nat /\ Cardinality(Existing') \in Nat
          /\ Cardinality(Creating) \in Nat /\ Cardinality(Existing) \in Nat
          /\ Cardinality(Creating \ {c}) \in Nat /\ Cardinality(Existing \cup {t}) \in Nat
      BY <3>1, <3>2, <3>3, <3>4, FS_CardinalityType
    <3>6. QED
      BY <1>1, <3>2, <3>3, <3>4, <3>5, Numbers DEF GroupsOK
  <2>6. QED
    BY <2>4, <2>5
<1>7. pruning' \in Pass /\ PassOK'
  <2> DEFINE more == IF pruning = NoPass THEN pruning.set ELSE pruning.set \cup {<<t, x>> : x \in team.members}
  <2>1. team.members \in SUBSET Both
    BY DEF Team, NoTeam, Both
  <2>2. /\ pruning \in Pass /\ more \in SUBSET (Teams \X Both) /\ pruning.set \subseteq more
        /\ pruning.at # "idle" /\ "person" \in team.members => <<t, "person">> \in more
    BY <1>1, <2>1 DEF AccessTypes, Pass, Both, NoPass
  <2>3. pruning' = [pruning EXCEPT !.set = more]
    BY <2>2 DEF SetsTeam
  <2> HIDE DEF more
  <2>4. /\ pruning' \in Pass /\ pruning'.at = pruning.at /\ pruning'.keep = pruning.keep
        /\ pruning'.gone = pruning.gone /\ pruning'.set = more
    BY <2>2, <2>3 DEF Pass
  <2>5. \A u \in Teams : teams'[u] = IF u = t THEN team ELSE teams[u]
    BY <1>1 DEF AccessTypes
  <2>6. QED
    BY <1>1, <2>2, <2>4, <2>5 DEF PassOK
<1>8. /\ sinceHeld' \in [Roles -> 0..Recent] /\ \A r \in Roles : sinceHeld'[r] <= sinceHeld[r]
      /\ sinceHeld'[RoleNow'] = 0
  BY <1>1, <1>5, Numbers DEF AccessTypes, RolesOK
<1>9. agentThere' \in BOOLEAN /\ moves' \in 0..MaxMoves /\ granted' = granted
  BY <1>1 DEF AccessTypes
<1>10. QED
  BY <1>1, <1>3, <1>4, <1>5, <1>6, <1>7, <1>8, <1>9, NotedStay

LEMMA TeamsMade ==
    \A l \in GroupLevels, m \in SUBSET Both : [level |-> l, members |-> m] \in Team
BY DEF Team

LEMMA CreatesGroupKeeps ==
    ASSUME AccessInv, NEW c \in Askers, CreatesGroup(c)
    PROVE  AccessInv'
BY TeamsMade, SetsTeamKeeps DEF CreatesGroup, GroupLevels, Both, Unset, Deciding

LEMMA ReplacesGroupKeeps ==
    ASSUME AccessInv, NEW c \in Askers, ReplacesGroup(c)
    PROVE  AccessInv'
<1>1. asking[c].at = "replace"
  BY DEF ReplacesGroup
<1>2. ASSUME NEW t \in Existing, NEW l \in {"read", "schema"}, SetsTeam(c, t, [level |-> l, members |-> {"person"}])
      PROVE  AccessInv'
  BY TeamsMade, <1>1, <1>2, SetsTeamKeeps DEF GroupLevels, Both, Existing, Deciding
<1>3. ASSUME NEW t \in Existing, SetsTeam(c, t, NoTeam)
      PROVE  AccessInv'
  BY <1>1, <1>3, SetsTeamKeeps DEF Existing, Team, Deciding
<1>4. CASE /\ asking' = [asking EXCEPT ![c] = NoAsk]
           /\ UNCHANGED <<topic, standing, sinceHeld, roleCache, teams, granted, agentThere, pruning, wrongs, asked, moves>>
  BY <1>4, AccessKnows, <1>1, CallEnds DEF AccessTypes, Listing
<1>5. QED
  BY <1>2, <1>3, <1>4 DEF ReplacesGroup

-----------------------------------------------------------------------------
(* The pass over the groups, and time                                      *)

LEMMA PassMoves ==
    ASSUME AccessInv, UNCHANGED <<topic, standing, sinceHeld, roleCache, asking, teams, granted, wrongs, asked>>,
           agentThere' \in BOOLEAN, moves' \in 0..MaxMoves, pruning' \in Pass, PassOK'
    PROVE  AccessInv'
<1>1. /\ AccessTypes /\ RolesOK /\ GroupsOK /\ wrongs = {}
      /\ \A d \in Askers : KindOK(asking[d]) /\ RoleOK(asking[d]) /\ LevelOK(asking[d]) /\ JoinOK(asking[d])
  BY AccessKnows
<1>2. AccessTypes'
  BY <1>1 DEF AccessTypes
<1>3. RoleNow' = RoleNow /\ TeamLevels' = TeamLevels /\ Existing' = Existing /\ AgentLevel' = AgentLevel
  BY SameRoles DEF AgentLevel
<1>4. \A k : LevelNow(k)' = LevelNow(k)
  BY <1>3 DEF LevelNow
<1>5. RolesOK'
  BY <1>1, <1>3 DEF RolesOK
<1>6. GroupsOK'
  BY <1>1, <1>3, GroupsCounted DEF Creating
<1>7. ASSUME NEW d \in Askers
      PROVE  KindOK(asking[d])' /\ RoleOK(asking[d])' /\ LevelOK(asking[d])' /\ JoinOK(asking[d])'
  BY <1>1, <1>3, <1>4 DEF KindOK, RoleOK, LevelOK, JoinOK
<1>8. QED
  BY <1>1, <1>2, <1>5, <1>6, <1>7 DEF AccessInv

LEMMA AgentMovesKeeps ==
    ASSUME AccessInv, AgentMoves
    PROVE  AccessInv'
<1> DEFINE more == IF pruning = NoPass THEN pruning.gone ELSE pruning.gone \cup {"agent"}
<1>1. /\ pruning \in Pass /\ PassOK /\ more \in SUBSET Both /\ pruning.gone \subseteq more
      /\ agentThere' \in BOOLEAN /\ moves' \in 0..MaxMoves
  BY AccessKnows, Numbers DEF AccessTypes, AgentMoves, Pass, Both
<1>2. pruning' = [pruning EXCEPT !.gone = more]
  BY <1>1 DEF AgentMoves
<1> HIDE DEF more
<1>3. /\ pruning' \in Pass /\ pruning'.at = pruning.at /\ pruning'.keep = pruning.keep
      /\ pruning'.gone = more /\ pruning'.set = pruning.set
  BY <1>1, <1>2 DEF Pass
<1>4. PassOK'
  BY <1>1, <1>3 DEF PassOK, AgentMoves
<1>5. QED
  BY <1>1, <1>3, <1>4, PassMoves DEF AgentMoves

LEMMA PassListsKeeps ==
    ASSUME AccessInv, PassLists
    PROVE  AccessInv'
<1>1. PICK odd \in BOOLEAN :
         pruning' = [NoPass EXCEPT !.at = IF odd \/ "person" \notin Listed THEN "own" ELSE "people",
                                   !.keep = IF odd THEN Listed \ {"person"} ELSE Listed,
                                   !.gone = {"person", "agent"} \ Listed]
  BY DEF PassLists
<1> DEFINE at == IF odd \/ "person" \notin Listed THEN "own" ELSE "people"
           keep == IF odd THEN Listed \ {"person"} ELSE Listed
           gone == {"person", "agent"} \ Listed
<1>2. /\ at \in {"own", "people"} /\ keep \in SUBSET Both /\ gone \in SUBSET Both
      /\ "agent" \in keep \cup gone
      /\ at = "people" => "person" \in keep \cup gone
  BY DEF Listed, Both
<1>3. pruning' = [NoPass EXCEPT !.at = at, !.keep = keep, !.gone = gone]
  BY <1>1
<1> HIDE DEF at, keep, gone
<1>4. /\ pruning' \in Pass /\ pruning'.at = at /\ pruning'.keep = keep /\ pruning'.gone = gone
  BY <1>2, <1>3 DEF NoPass, Pass
<1>5. PassOK'
  BY <1>2, <1>4 DEF PassOK
<1>6. agentThere' \in BOOLEAN /\ moves' \in 0..MaxMoves
  BY AccessKnows DEF PassLists, AccessTypes
<1>7. QED
  BY <1>4, <1>5, <1>6, PassMoves DEF PassLists

LEMMA PassReadsOwnKeeps ==
    ASSUME AccessInv, PassReadsOwn
    PROVE  AccessInv'
<1> DEFINE keep == pruning.keep \cup ({"person"} \cap UNION {teams[t].members : t \in Teams})
<1>1. /\ pruning \in Pass /\ PassOK /\ pruning.at = "own" /\ pruning.keep \in SUBSET Both
      /\ UNCHANGED <<topic, standing, sinceHeld, roleCache, asking, teams, granted, agentThere, wrongs, asked, moves>>
      /\ agentThere' \in BOOLEAN /\ moves' \in 0..MaxMoves
  BY AccessKnows DEF PassReadsOwn, AccessTypes, Pass
<1>2. /\ keep \in SUBSET Both /\ pruning.keep \subseteq keep
      /\ "person" \in keep \/ \A t \in Teams : "person" \notin teams[t].members
  BY <1>1 DEF Both
<1>3. pruning' = [pruning EXCEPT !.at = "people", !.keep = keep]
  BY DEF PassReadsOwn
<1> HIDE DEF keep
<1>4. /\ pruning' \in Pass /\ pruning'.at = "people" /\ pruning'.keep = keep /\ pruning'.gone = pruning.gone
  BY <1>1, <1>2, <1>3 DEF Pass
<1>5. PassOK'
  BY <1>1, <1>2, <1>4 DEF PassOK
<1>6. QED
  BY <1>1, <1>4, <1>5, PassMoves

\* A pass drops some from every group.
LEMMA DropsKeeps ==
    ASSUME AccessInv, NEW who \in SUBSET Both, pruning' \in Pass, PassOK', Drops(who),
           \A e \in Dropped(who) : e[2] \in pruning.gone \/ e \in pruning.set
    PROVE  AccessInv'
<1> DEFINE out == who \ pruning.keep
<1>1. /\ AccessTypes /\ RolesOK /\ GroupsOK /\ wrongs' = {}
      /\ teams' = [t \in Teams |-> [teams[t] EXCEPT !.members = @ \ out]]
      /\ UNCHANGED <<topic, standing, sinceHeld, roleCache, granted, agentThere, asked, moves>>
      /\ asking \in [Askers -> Ask] /\ asking' = Noted(asking, "groups") /\ "groups" \in MovedBy
  BY AccessKnows DEF Drops, AccessTypes, MovedBy
<1> HIDE DEF out
<1>2. ASSUME NEW t \in Teams
      PROVE  teams'[t] \in Team /\ (teams[t] = NoTeam => teams'[t] = NoTeam)
  <2>1. teams[t] \in Team /\ teams'[t] = [teams[t] EXCEPT !.members = @ \ out]
    BY <1>1 DEF AccessTypes
  <2>2. CASE teams[t] = NoTeam
    BY <2>1, <2>2 DEF NoTeam, Team
  <2>3. CASE teams[t] # NoTeam
    BY <2>1, <2>3 DEF Team
  <2>4. QED
    BY <2>2, <2>3
<1>3. WhatCounts' /\ RoleNow' = RoleNow
  BY <1>1, <1>2 DEF AccessTypes, WhatCounts, RoleNow
<1>4. GroupsOK'
  BY <1>1, NotedCall, <1>2, GroupsCounted DEF Creating, Existing
<1>5. /\ sinceHeld' \in [Roles -> 0..Recent] /\ \A r \in Roles : sinceHeld'[r] <= sinceHeld[r]
      /\ sinceHeld'[RoleNow'] = 0
  BY <1>1, <1>3, Numbers DEF AccessTypes, RolesOK
<1>6. agentThere' \in BOOLEAN /\ moves' \in 0..MaxMoves /\ granted' = granted
  BY <1>1 DEF AccessTypes
<1>7. QED
  BY <1>1, <1>3, <1>4, <1>5, <1>6, NotedStay

LEMMA PrunesKeep ==
    ASSUME AccessInv, PrunesPeople \/ PrunesAgents
    PROVE  AccessInv'
<1>1. pruning \in Pass /\ PassOK /\ pruning.keep \in SUBSET Both /\ teams \in [Teams -> Team]
  BY AccessKnows DEF AccessTypes, Pass
<1>2. CASE PrunesPeople
  BY <1>2, <1>1, DropsKeeps DEF PrunesPeople, Pass, PassOK, Dropped, Both
<1>3. CASE PrunesAgents
  BY <1>3, <1>1, DropsKeeps DEF PrunesAgents, Pass, NoPass, PassOK, Dropped, Both
<1>4. QED
  BY <1>2, <1>3

LEMMA HourPassesKeeps ==
    ASSUME AccessInv, HourPasses
    PROVE  AccessInv'
<1>1. /\ AccessTypes /\ RolesOK /\ PassOK /\ GroupsOK /\ wrongs' = {} /\ RoleNow \in Roles
      /\ UNCHANGED <<topic, standing, teams, granted, agentThere, pruning, asked, moves>>
      /\ sinceHeld \in [Roles -> 0..Recent] /\ roleCache \in Cache /\ asking \in [Askers -> Ask]
      /\ \A d \in Askers : KindOK(asking[d]) /\ RoleOK(asking[d]) /\ LevelOK(asking[d]) /\ JoinOK(asking[d])
  BY AccessKnows DEF HourPasses, AccessTypes
<1>2. RoleNow' = RoleNow /\ TeamLevels' = TeamLevels /\ Existing' = Existing /\ AgentLevel' = AgentLevel
  BY <1>1 DEF RoleNow, TeamLevels, Existing, AgentLevel
<1>3. \A k : LevelNow(k)' = LevelNow(k)
  BY <1>2 DEF LevelNow
<1>4. /\ sinceHeld' \in [Roles -> 0..Recent] /\ sinceHeld'[RoleNow] = sinceHeld[RoleNow]
      /\ \A r \in Roles : sinceHeld'[r] <= sinceHeld[r] + 1
  <2>1. sinceHeld' = [r \in Roles |-> IF r = RoleNow \/ sinceHeld[r] = Recent THEN sinceHeld[r] ELSE sinceHeld[r] + 1]
    BY DEF HourPasses
  <2>2. ASSUME NEW r \in Roles
        PROVE  /\ sinceHeld'[r] \in 0..Recent /\ sinceHeld'[r] <= sinceHeld[r] + 1
    BY <1>1, <2>1, Numbers
  <2>3. QED
    BY <1>1, <2>1, <2>2
<1>5. ASSUME NEW d \in Askers
      PROVE  /\ asking'[d] \in Ask
             /\ asking'[d].at = asking[d].at /\ asking'[d].kind = asking[d].kind
             /\ asking'[d].role = asking[d].role /\ asking'[d].by = asking[d].by
             /\ asking'[d].roles = asking[d].roles /\ asking'[d].levels = asking[d].levels
             /\ asking'[d].moved = asking[d].moved
             /\ asking[d].at = "read" => asking'[d].waited = asking[d].waited + 1
  <2> DEFINE w == IF asking[d].at \in {"asked", "read"} THEN asking[d].waited + 1 ELSE asking[d].waited
  <2>1. asking[d] \in Ask /\ asking[d].waited \in 0..ListTimeout
    BY <1>1 DEF Ask
  <2>2. w \in 0..ListTimeout /\ (asking[d].at = "read" => w = asking[d].waited + 1)
    BY <2>1, Numbers DEF HourPasses
  <2>3. asking'[d] = [asking[d] EXCEPT !.waited = w]
    BY DEF HourPasses
  <2> HIDE DEF w
  <2>4. QED
    BY <2>1, <2>2, <2>3 DEF Ask
<1>6. /\ roleCache' \in Cache /\ roleCache'.kind = roleCache.kind /\ roleCache'.role = roleCache.role
      /\ roleCache'.by = roleCache.by
      /\ roleCache.kind = "entry" => \/ roleCache'.age = roleCache.age + 1
                                    \/ roleCache'.age = CacheMs
  <2> DEFINE a == IF roleCache.kind = "entry" /\ roleCache.age < CacheMs THEN roleCache.age + 1 ELSE roleCache.age
  <2>1. roleCache.age \in 0..CacheMs
    BY <1>1 DEF Cache
  <2>2. a \in 0..CacheMs /\ (roleCache.kind = "entry" => a = roleCache.age + 1 \/ a = CacheMs)
    BY <2>1, Numbers
  <2>3. roleCache' = [roleCache EXCEPT !.age = a]
    BY DEF HourPasses
  <2> HIDE DEF a
  <2>4. QED
    BY <1>1, <2>2, <2>3 DEF Cache
<1>7. AccessTypes'
  BY <1>5, <1>1, <1>4, <1>6 DEF HourPasses, AccessTypes
<1>8. RolesOK'
  BY <1>1, <1>4, <1>6, Numbers, <1>5, <1>2 DEF Cache, RolesOK
<1>9. PassOK'
  BY <1>1 DEF PassOK
<1>10. GroupsOK'
  BY <1>5, <1>1, <1>2, GroupsCounted DEF Creating
<1>11. ASSUME NEW d \in Askers
       PROVE  KindOK(asking[d])' /\ RoleOK(asking[d])' /\ LevelOK(asking[d])' /\ JoinOK(asking[d])'
  BY <1>1, <1>5, <1>4, Numbers, <1>2, <1>3 DEF KindOK, Ask, RoleOK, LevelOK, JoinOK
<1>12. QED
  BY <1>1, <1>7, <1>8, <1>9, <1>10, <1>11 DEF AccessInv

-----------------------------------------------------------------------------
(* The theorems                                                            *)

LEMMA AccessStarts ==
    ASSUME AccessInit
    PROVE  AccessInv
<1>1. AccessTypes
  <2>1. standing \in Standings /\ NotCached \in Cache /\ NoPass \in Pass /\ NoTeam \in Team
    BY Numbers DEF AccessInit, Standings, NotCached, Cache, Roles, NoPass, Pass, Team
  <2>2. sinceHeld \in [Roles -> 0..Recent] /\ 0 \in 0..MaxAsked /\ 0 \in 0..MaxMoves
    BY Numbers DEF AccessInit
  <2>3. granted \in [own: Levels \cup {Unset}, default: Levels]
    BY DEF AccessInit, Levels
  <2>4. QED
    BY <2>1, <2>2, <2>3, IdleAsk DEF AccessInit, AccessTypes
<1>2. RolesOK
  BY DEF AccessInit, RolesOK, RoleNow, Roles, NotCached
<1>3. PassOK
  BY DEF AccessInit, PassOK, NoPass
<1>4. Existing = {} /\ Creating = {}
  BY IdleAsk DEF AccessInit, Existing, Creating
<1>5. GroupsOK
  BY <1>4, Numbers, FS_EmptySet DEF GroupsOK
<1>6. \A c \in Askers : asking[c] = NoAsk
  BY DEF AccessInit
<1>7. QED
  BY <1>1, <1>2, <1>3, <1>5, <1>6, IdleAsk DEF AccessInv, AccessInit

LEMMA AccessKeeps ==
    ASSUME AccessInv, [AccessNext]_accessVars
    PROVE  AccessInv'
<1>1. CASE UNCHANGED accessVars
  BY <1>1, AccessKnows, PassMoves DEF accessVars, AccessTypes, PassOK
<1>2. ASSUME NEW s \in Standings, PersonMoves(s) PROVE AccessInv'
  BY <1>2, PersonMovesKeeps
<1>3. CASE AgentMoves \/ HourPasses
  BY <1>3, AgentMovesKeeps, HourPassesKeeps
<1>4. ASSUME NEW c \in Askers,
             BeginsRow(c) \/ BeginsFresh(c) \/ ListingRead(c) \/ ListingArrives(c) \/ ListingFails(c)
      PROVE  AccessInv'
  BY <1>4, BeginsRowKeeps, BeginsFreshKeeps, ListingReadKeeps, ListingArrivesKeeps, ListingFailsKeeps
<1>5. ASSUME NEW c \in Askers, DecidesLevel(c) \/ BeginsAgent(c) \/ ReadsDefault(c)
      PROVE  AccessInv'
  BY <1>5, DecidesLevelKeeps, BeginsAgentKeeps, ReadsDefaultKeeps
<1>6. ASSUME NEW c \in Askers, SetsGrant(c) \/ CountsGroups(c) \/ CreatesGroup(c) \/ ReplacesGroup(c)
      PROVE  AccessInv'
  BY <1>6, SetsGrantKeeps, CountsGroupsKeeps, CreatesGroupKeeps, ReplacesGroupKeeps
<1>7. CASE PassLists \/ PassReadsOwn \/ PrunesPeople \/ PrunesAgents
  BY <1>7, PassListsKeeps, PassReadsOwnKeeps, PrunesKeep
<1>8. QED
  BY <1>1, <1>2, <1>3, <1>4, <1>5, <1>6, <1>7 DEF AccessNext

LEMMA AccessHolds ==
    AccessInv => /\ AccessTypeOK /\ ManagersDecide /\ LevelsAreTheirs
                 /\ GroupsAreLimited /\ MembersOutlastThePass
<1> SUFFICES ASSUME AccessInv
             PROVE  /\ AccessTypeOK /\ ManagersDecide /\ LevelsAreTheirs
                    /\ GroupsAreLimited /\ MembersOutlastThePass
  OBVIOUS
<1>1. AccessTypes /\ GroupsOK /\ wrongs = {} /\ \A c \in Askers : asking[c] \in Ask /\ RoleOK(asking[c])
  BY AccessKnows
<1>2. AccessTypeOK
  BY <1>1 DEF AccessTypes, AccessTypeOK, Cache, Ask, Team, Both
<1>3. ManagersDecide
  BY <1>1 DEF ManagersDecide, RoleOK, Deciding, Chosen
<1>4. LevelsAreTheirs /\ MembersOutlastThePass
  BY <1>1 DEF LevelsAreTheirs, MembersOutlastThePass
<1>5. GroupsAreLimited
  BY DataAccessAssumption, FS_Subset, <1>1, FS_CardinalityType, Numbers DEF Creating,
     GroupsOK, GroupsAreLimited
<1>6. QED
  BY <1>2, <1>3, <1>4, <1>5

\* What every call, the cache, a pass and the groups are known to be, whatever calls,
\* listings and changes overlap (roles.ts, data/service.ts, groups/service.ts).
THEOREM AccessInvariance == AccessSpec => []AccessInv
<1>1. QED
  BY AccessStarts, AccessKeeps, PTL DEF AccessSpec

\* What managers alone may decide is decided by one who has been a manager since the
\* call began (resolveFresh).
THEOREM ManagersAloneDecide == AccessSpec => []ManagersDecide
<1>1. QED
  BY AccessInvariance, AccessHolds, PTL

\* Nobody passes at a level that was not his at a moment that counts (levelFor, RoleResolver).
THEOREM LevelsStayTheirs == AccessSpec => []LevelsAreTheirs
<1>1. QED
  BY AccessInvariance, AccessHolds, PTL

\* Saves that overlap pass the limit of groups by one less than their number (GroupService.save).
THEOREM GroupsStayLimited == AccessSpec => []GroupsAreLimited
<1>1. QED
  BY AccessInvariance, AccessHolds, PTL

\* A pass takes nobody out of a group who was there to stay (GroupService.agentAccess).
THEOREM MembersOutlast == AccessSpec => []MembersOutlastThePass
<1>1. QED
  BY AccessInvariance, AccessHolds, PTL

\* Access to data is right in every behaviour of the composition with the guardrail.
THEOREM AccessStaysRight == GuardedSpec => []AccessIsRight
<1>1. GuardedInit => (part = "access" => AccessInv)
  BY AccessStarts DEF GuardedInit
<1>2. (part = "access" => AccessInv) /\ [GuardedNext]_<<part, vars, accessVars>>
        => (part = "access" => AccessInv)'
  BY AccessKeeps DEF GuardedNext
<1>3. (part = "access" => AccessInv) => AccessIsRight
  BY AccessHolds DEF AccessIsRight
<1>4. QED
  BY <1>1, <1>2, <1>3, PTL DEF GuardedSpec

-----------------------------------------------------------------------------
(* The bridge from an app's frame                                          *)

Names_  == Links \cup {Nobody_}
Reasons == {"none", "navigated", "nonce", "budget"}
Answers == {"none", "pending", "ok", "error", "limit", "invalid", "disabled", "declined", "timeout"}

GuardState == [misses: Nat, reason: Reasons, spent: [Rates -> Seq(Nat)], disabled: SUBSET Names_,
               opened: Int, limitedAt: Int, run: Nat]
DiaryState == [ran: [Rates \cup {"open"} -> Seq(Nat)], refusals: SUBSET Nat, warned: Seq(Names_),
               left: BOOLEAN, late: BOOLEAN]
AppCall == [at: {"idle", "posted", "working", "waiting"}, kind: Kinds, name: Names_, mount: Nat,
            since: Nat, told: Answers, saved: BOOLEAN]
FrameState == [id: 0..MaxMounts, live: BOOLEAN, built: 0..LastVersion, heard: 0..LastVersion,
               loads: 0..3, due: 0..3, doc: {"none", "app", "other"}]
SaveState == [waiting: Calls \cup {Nobody_}, until: Nat, bar: Calls \cup {Nobody_}]

\* What the guard still counts of a kind is the end of what was carried out, and all of it
\* that is not a window old.
Ledger(t, times, ran, n) ==
    /\ Len(times) <= Len(ran)
    /\ \A i \in 1..Len(times) : times[i] = ran[Len(ran) - Len(times) + i]
    /\ \A i \in 1..(Len(ran) - Len(times)) : t - ran[i] >= Span
    /\ \A i \in 1..(Len(ran) - n) : ran[i + n] - ran[i] >= Span

\* Tasks are opened a gap apart, the last when the guard says.
Gaps(g, d) ==
    LET r == d.ran["open"] IN
    /\ \A i \in 1..(Len(r) - 1) : r[i + 1] - r[i] >= Span
    /\ Len(r) > 0 => r[Len(r)] = g.opened

Between(rs, from, to) == \E at \in rs : from <= at /\ at < to

\* A run begins with a refusal and has gone on without two windows' pause ...
Chain(rs, last, run) ==
    \E first \in rs :
        /\ last - first >= (run - 1) * Span
        /\ \A t \in first..last : t + 2 * Span <= last => Between(rs, t, t + 2 * Span)

\* ... and had a window without one before it, not long ago.
Fresh(rs, last, run) ==
    \E start \in Int : /\ start <= last /\ start >= last - (run - 1) * (2 * Span - 1)
                       /\ ~Between(rs, start - Span, start)

Quiet(t, rs) == \A u \in 0..(t - Reach - Span) : \E from \in u..(u + Reach) : ~Between(rs, from, from + Span)

Loops(t, g, d) ==
    /\ \A r \in d.refusals : r <= t /\ r < g.limitedAt + Span
    /\ g.run = 0 => d.refusals = {} /\ g.limitedAt = Never
    /\ g.run > 0 => /\ g.limitedAt \in d.refusals
                    /\ Chain(d.refusals, g.limitedAt, g.run) /\ Fresh(d.refusals, g.limitedAt, g.run)
    /\ g.reason = "none" => g.run < LimitedWindows /\ Quiet(t, d.refusals)
    /\ g.reason = "budget" => \E last \in d.refusals : Chain(d.refusals, last, LimitedWindows)

Warns(g, d) ==
    /\ \A i \in DOMAIN d.warned : d.warned[i] \in g.disabled
    /\ \A i, j \in DOMAIN d.warned : d.warned[i] = d.warned[j] => i = j

\* The guard and the history of its mount.
BooksKept(t, g, d) ==
    /\ g \in GuardState /\ d \in DiaryState /\ t \in Nat
    /\ \A k \in Rates : Ledger(t, g.spent[k], d.ran[k], Allowance[k])
    /\ Gaps(g, d) /\ Loops(t, g, d) /\ Warns(g, d)

LEMMA BridgeNumbers ==
    /\ Span \in Nat /\ LimitedWindows \in Nat /\ Mismatches \in Nat /\ LastVersion \in Nat
    /\ Span > 0 /\ LimitedWindows > 0 /\ Mismatches > 0 /\ LastVersion > 0
    /\ SaveWait \in Nat /\ CallWait \in Nat /\ SaveWait < CallWait
    /\ MaxTick \in Nat /\ MaxMounts \in Nat /\ MaxPosts \in Nat
    /\ Allowance \in [Rates -> Nat] /\ Nobody_ \notin Calls /\ Hello \notin Calls
BY BridgeAssumption

Lower == OpToRel(<, Nat)

LEMMA LowerIs == \A m, n \in Nat : <<m, n>> \in Lower <=> m < n
BY DEF Lower, OpToRel

LEMMA LeastOf == ASSUME NEW S \in SUBSET Nat, S # {} PROVE \E n \in S : \A m \in S : n <= m
<1>1. IsWellFoundedOn(Lower, Nat)
  BY NatLessThanWellFounded DEF Lower
<1>2. PICK n \in S : \A m \in S : ~ (<<m, n>> \in Lower)
  BY <1>1, WFMin
<1>3. ASSUME NEW m \in S
      PROVE  n <= m
  <2>1. m \in Nat /\ n \in Nat
    BY <1>2
  <2>2. ~(m < n)
    BY <1>2, <2>1, LowerIs
  <2>3. QED
    BY <2>1, <2>2
<1>4. QED
  BY <1>3

-----------------------------------------------------------------------------
(* Rates                                                                   *)

\* The front that has passed: what the loop of spend shifts off.
LEMMA PassedFront ==
    ASSUME tick \in Nat, NEW s \in Seq(Nat)
    PROVE  /\ Passed(s) \in 0..Len(s)
           /\ \A i \in 1..Passed(s) : tick - s[i] >= Span
<1> DEFINE F == {m \in 0..Len(s) : m < Len(s) => tick - s[m + 1] < Span}
<1>1. Span \in Nat /\ Len(s) \in Nat /\ \A i \in 1..Len(s) : s[i] \in Nat
  BY BridgeNumbers
<1>2. F \in SUBSET Nat /\ Len(s) \in F
  BY <1>1
<1>3. PICK n \in F : \A m \in F : n <= m
  BY <1>2, LeastOf
<1>4. n \in 0..Len(s) /\ IsFront(s, n)
  <2>1. ASSUME NEW i \in 1..n, ~(tick - s[i] >= Span)
        PROVE  FALSE
    <3>1. i - 1 \in 0..Len(s) /\ (i - 1) + 1 = i /\ i \in 1..Len(s)
      BY <1>1, <1>3
    <3>2. tick - s[i] < Span
      BY <1>1, <2>1, <3>1
    <3>3. i - 1 \in F
      BY <3>1, <3>2
    <3>4. n <= i - 1 /\ n \in Nat /\ i \in Nat
      <4> HIDE DEF F
      <4>1. QED
        BY <1>2, <1>3, <3>3, <3>1
    <3>5. QED
      BY <2>1, <3>4
  <2>2. QED
    BY <1>3, <2>1 DEF IsFront
<1>5. Passed(s) \in 0..Len(s) /\ IsFront(s, Passed(s))
  BY <1>4, Zenon DEF Passed
<1>6. QED
  BY <1>5 DEF IsFront

\* What is counted is the end of what was.
LEMMA CountedEnd ==
    ASSUME tick \in Nat, NEW g \in GuardState, NEW k \in Rates
    PROVE  LET s == g.spent[k]
               e == InSpan(g, k)
               p == Passed(s) IN
           /\ s \in Seq(Nat) /\ e \in Seq(Nat) /\ p \in 0..Len(s) /\ Len(e) = Len(s) - p
           /\ \A i \in 1..Len(e) : e[i] = s[p + i]
           /\ \A i \in 1..p : tick - s[i] >= Span
<1> DEFINE s == g.spent[k]
           p == Passed(s)
<1>1. s \in Seq(Nat)
  BY DEF GuardState
<1>2. p \in 0..Len(s) /\ \A i \in 1..p : tick - s[i] >= Span
  BY <1>1, PassedFront
<1>3. InSpan(g, k) = SubSeq(s, p + 1, Len(s))
  BY DEF InSpan
<1> HIDE DEF s, p
<1>4. /\ SubSeq(s, p + 1, Len(s)) \in Seq(Nat) /\ Len(SubSeq(s, p + 1, Len(s))) = Len(s) - p
      /\ \A i \in 1..(Len(s) - p) : SubSeq(s, p + 1, Len(s))[i] = s[p + i]
  BY <1>1, <1>2
<1>5. QED
  BY <1>1, <1>2, <1>3, <1>4 DEF s, p

LEMMA OneMore ==
    /\ \A x, y \in Int : x <= y + 1 => x <= y \/ x = y + 1
    /\ \A i, p, s, r, e \in Nat :
          i <= r - e /\ e = s - p /\ i > r - s => i - (r - s) \in 1..p /\ i - (r - s) \in 1..s
OBVIOUS

\* Leaving out what has passed keeps the ledger; so does carrying out one more below the ceiling.
LEMMA LedgerShifts ==
    ASSUME NEW t \in Nat, NEW n \in Nat, NEW s \in Seq(Nat), NEW e \in Seq(Nat), NEW r \in Seq(Nat),
           Ledger(t, s, r, n), NEW p \in 0..Len(s), Len(e) = Len(s) - p,
           \A i \in 1..Len(e) : e[i] = s[p + i], \A i \in 1..p : t - s[i] >= Span
    PROVE  Ledger(t, e, r, n)
<1>1. Span \in Nat /\ Len(s) \in Nat /\ Len(r) \in Nat /\ Len(e) \in Nat
  BY BridgeNumbers
<1>2. ASSUME NEW i \in 1..(Len(r) - Len(e))
      PROVE  t - r[i] >= Span
  <2>1. CASE i <= Len(r) - Len(s)
    BY <1>1, <2>1 DEF Ledger
  <2>2. CASE i > Len(r) - Len(s)
    <3>1. i - (Len(r) - Len(s)) \in 1..p /\ i - (Len(r) - Len(s)) \in 1..Len(s)
      <4>1. i \in Nat /\ p \in Nat /\ p <= Len(s) /\ i <= Len(r) - Len(e)
        BY <1>1, <1>2
      <4>2. Len(s) \in Nat /\ Len(r) \in Nat /\ Len(e) \in Nat /\ Len(e) = Len(s) - p
        OBVIOUS
      <4>3. QED
        BY <4>2, <2>2, <4>1, OneMore
    <3>2. s[i - (Len(r) - Len(s))] = r[(Len(r) - Len(s)) + (i - (Len(r) - Len(s)))]
      BY <1>1, <3>1 DEF Ledger
    <3>3. (Len(r) - Len(s)) + (i - (Len(r) - Len(s))) = i
      BY <1>1
    <3>4. QED
      BY <3>1, <3>2, <3>3
  <2>3. QED
    BY <1>1, <2>1, <2>2
<1>3. ASSUME NEW i \in 1..Len(e)
      PROVE  e[i] = r[Len(r) - Len(e) + i]
  <2>1. p + i \in 1..Len(s) /\ Len(r) - Len(s) + (p + i) = Len(r) - Len(e) + i
    BY <1>1
  <2>2. QED
    BY <2>1 DEF Ledger
<1>4. QED
  BY <1>1, <1>2, <1>3 DEF Ledger

LEMMA AppendsOne ==
    ASSUME NEW s \in Seq(Nat), NEW t \in Nat
    PROVE  /\ Append(s, t) \in Seq(Nat) /\ Len(Append(s, t)) = Len(s) + 1 /\ Append(s, t)[Len(s) + 1] = t
           /\ \A i \in 1..Len(s) : Append(s, t)[i] = s[i]
OBVIOUS

LEMMA LedgerGrows ==
    ASSUME NEW t \in Nat, NEW n \in Nat, NEW e \in Seq(Nat), NEW r \in Seq(Nat),
           Ledger(t, e, r, n), Len(e) < n
    PROVE  Ledger(t, Append(e, t), Append(r, t), n)
<1>1. /\ Span \in Nat /\ Len(r) \in Nat /\ Len(e) \in Nat
      /\ Append(e, t) \in Seq(Nat) /\ Append(r, t) \in Seq(Nat)
      /\ Len(Append(e, t)) = Len(e) + 1 /\ Len(Append(r, t)) = Len(r) + 1
      /\ \A i \in 1..Len(e) : Append(e, t)[i] = e[i]
      /\ \A i \in 1..Len(r) : Append(r, t)[i] = r[i] /\ r[i] \in Nat
      /\ Append(e, t)[Len(e) + 1] = t /\ Append(r, t)[Len(r) + 1] = t
  BY BridgeNumbers
<1>2. PICK f \in Seq(Nat) : f = Append(e, t)
  BY <1>1
<1>3. PICK q \in Seq(Nat) : q = Append(r, t)
  BY <1>1
<1>4. ASSUME NEW i \in 1..(Len(q) - n)
      PROVE  q[i + n] - q[i] >= Span
  <2>1. CASE i + n <= Len(r)
    BY <1>1, <1>3, <1>4, <2>1 DEF Ledger
  <2>5. i \in Nat /\ i + n <= Len(r) + 1
    BY <1>1, <1>3, <1>4
  <2>2. CASE i + n = Len(r) + 1
    <3>1. i \in 1..(Len(r) - Len(e)) /\ i \in 1..Len(r)
      BY SMTT(30), <1>1, <2>2
    <3>2. q[i + n] = t /\ q[i] = r[i] /\ t - r[i] >= Span
      BY <1>1, <1>3, <2>2, <3>1 DEF Ledger
    <3>3. QED
      BY <3>2
  <2>3. QED
    <3>1. i + n <= Len(r) \/ i + n = Len(r) + 1
      <4>1. i + n \in Int /\ Len(r) \in Int
        BY <2>5
      <4>2. QED
        BY <4>1, <2>5, OneMore
    <3>2. QED
      BY <2>1, <2>2, <3>1
<1>5. ASSUME NEW i \in 1..Len(f)
      PROVE  f[i] = q[Len(q) - Len(f) + i]
  <2>1. CASE i = Len(e) + 1
    BY <1>1, <1>2, <1>3, <2>1
  <2>2. CASE i \in 1..Len(e)
    BY <1>1, <1>2, <1>3, <2>2 DEF Ledger
  <2>3. QED
    BY <1>1, <1>2, <1>5, <2>1, <2>2
<1>6. ASSUME NEW i \in 1..(Len(q) - Len(f))
      PROVE  t - q[i] >= Span
  BY <1>1, <1>2, <1>3, <1>6 DEF Ledger
<1>7. Len(f) <= Len(q)
  BY <1>1, <1>2, <1>3 DEF Ledger
<1>8. QED
  BY <1>2, <1>3, <1>4, <1>5, <1>6, <1>7 DEF Ledger

-----------------------------------------------------------------------------
(* The run of refusals                                                     *)

LEMMA Times ==
    /\ \A r, s \in Int : ((r + 1) - 1) * s = (r - 1) * s + s
    /\ \A a, b, s \in Nat : a <= b => a * s <= b * s
    /\ \A r, b, s \in Nat : r > 0 /\ r < b => (r - 1) * s + s <= (b - 1) * s
    /\ \A s \in Int : (1 - 1) * s = 0
OBVIOUS

LEMMA Step_ ==
    /\ Span \in Nat /\ Span > 0 /\ 2 * Span \in Nat /\ 2 * Span - 1 \in Nat /\ 2 * Span = Span + Span
    /\ Reach \in Nat /\ Reach = (LimitedWindows - 1) * (2 * Span - 1)
    /\ Never = -(2 * Span)
BY BridgeNumbers DEF Reach, Never

LEMMA ChainStarts == ASSUME NEW rs \in SUBSET Nat, NEW t \in rs PROVE Chain(rs, t, 1)
BY Step_ DEF Chain

LEMMA ChainGoesOn ==
    ASSUME NEW rs \in SUBSET Nat, NEW last \in rs, NEW run \in Nat, Chain(rs, last, run),
           NEW t \in Nat, t - last >= Span, t - last < 2 * Span
    PROVE  Chain(rs \cup {t}, t, run + 1)
<1>1. PICK first \in rs : /\ last - first >= (run - 1) * Span
                          /\ \A u \in first..last : u + 2 * Span <= last => Between(rs, u, u + 2 * Span)
  BY DEF Chain
<1>2. t - first >= ((run + 1) - 1) * Span
  BY Times, Step_, <1>1
<1>3. ASSUME NEW u \in first..t, u + 2 * Span <= t
      PROVE  Between(rs \cup {t}, u, u + 2 * Span)
  BY Step_, <1>1, <1>3 DEF Between
<1>4. QED
  BY <1>2, <1>3 DEF Chain

LEMMA ChainKeeps ==
    ASSUME NEW rs \in SUBSET Nat, NEW last \in rs, NEW run \in Nat, Chain(rs, last, run),
           NEW qs \in SUBSET Nat, rs \subseteq qs, NEW m \in Nat, m > 0, m <= run
    PROVE  Chain(qs, last, m)
<1>1. PICK first \in rs : /\ last - first >= (run - 1) * Span
                          /\ \A u \in first..last : u + 2 * Span <= last => Between(rs, u, u + 2 * Span)
  BY DEF Chain
<1>2. m - 1 \in Nat /\ run - 1 \in Nat /\ m - 1 <= run - 1
  OBVIOUS
<1>3. (m - 1) * Span <= (run - 1) * Span /\ (m - 1) * Span \in Nat /\ (run - 1) * Span \in Nat
  BY <1>2, Times, Step_
<1>4. last - first >= (m - 1) * Span
  BY <1>1, <1>3
<1>5. QED
  BY <1>1, <1>4 DEF Chain, Between

LEMMA FreshStarts ==
    ASSUME NEW rs \in SUBSET Nat, NEW t \in Nat, \A r \in rs : r < t - Span
    PROVE  Fresh(rs \cup {t}, t, 1)
BY Step_ DEF Between, Fresh

LEMMA FreshKeeps ==
    ASSUME NEW rs \in SUBSET Nat, NEW last \in Nat, NEW run \in Nat, Fresh(rs, last, run),
           NEW t \in Nat, t >= last
    PROVE  /\ Fresh(rs \cup {t}, last, run)
           /\ t - last < 2 * Span => Fresh(rs \cup {t}, t, run + 1)
<1>1. PICK start \in Int : /\ start <= last /\ start >= last - (run - 1) * (2 * Span - 1)
                           /\ ~Between(rs, start - Span, start)
  BY DEF Fresh
<1>2. ~Between(rs \cup {t}, start - Span, start) /\ start <= t
  BY <1>1, Step_ DEF Between
<1>3. ASSUME t - last < 2 * Span
      PROVE  start >= t - ((run + 1) - 1) * (2 * Span - 1)
  BY Times, Step_, <1>1, <1>3
<1>4. QED
  BY <1>1, <1>2, <1>3 DEF Fresh

LEMMA QuietKeeps ==
    ASSUME NEW rs \in SUBSET Nat, NEW t \in Nat, Quiet(t, rs)
    PROVE  Quiet(t, rs \cup {t})
BY Step_ DEF Quiet, Between

LEMMA QuietPasses ==
    ASSUME NEW rs \in SUBSET Nat, NEW t \in Nat, Quiet(t, rs), NEW last \in Int, NEW run \in Nat,
           \A r \in rs : r <= t /\ r < last + Span, run < LimitedWindows,
           run = 0 => rs = {}, run > 0 => last \in rs /\ Fresh(rs, last, run)
    PROVE  Quiet(t + 1, rs)
<1>1. ASSUME NEW u \in 0..((t + 1) - Reach - Span), ~(u \in 0..(t - Reach - Span))
      PROVE  \E from \in u..(u + Reach) : ~Between(rs, from, from + Span)
  <2>1. u \in Nat /\ u + Reach + Span = t + 1 /\ u \in u..(u + Reach)
    BY <1>1, Step_
  <2>2. CASE run = 0
    BY <2>1, <2>2 DEF Between
  <2>3. CASE run > 0
    <3>1. PICK start \in Int : /\ start <= last /\ start >= last - (run - 1) * (2 * Span - 1)
                               /\ ~Between(rs, start - Span, start)
      BY <2>3 DEF Fresh
    <3>2. last \in Nat /\ last <= t
      BY <2>3
    <3>3. (run - 1) * (2 * Span - 1) + (2 * Span - 1) <= Reach /\ (run - 1) * (2 * Span - 1) \in Nat
      BY BridgeNumbers, Step_, <2>3, Times
    <3>4. CASE u <= start - Span
      BY <2>1, <3>1, <3>2, <3>4, Step_
    <3>5. CASE start - Span < u /\ last + Span >= u
      BY <2>1, <3>1, <3>2, <3>3, <3>5, Step_ DEF Between
    <3>6. CASE last + Span < u
      BY <2>1, <3>2, <3>6, Step_ DEF Between
    <3>7. QED
      BY <2>1, <3>1, <3>2, <3>4, <3>5, <3>6, Step_
  <2>4. QED
    BY <2>2, <2>3
<1>2. ASSUME NEW u \in 0..((t + 1) - Reach - Span)
      PROVE  \E from \in u..(u + Reach) : ~Between(rs, from, from + Span)
  BY <1>1 DEF Quiet
<1>3. QED
  BY <1>2 DEF Quiet

LEMMA RefusedLoops ==
    ASSUME tick \in Nat, NEW g \in GuardState, NEW d \in DiaryState, Loops(tick, g, d),
           NEW e \in DiaryState, e.refusals = d.refusals \cup {tick}
    PROVE  /\ Refused(g) \in GuardState /\ Loops(tick, Refused(g), e)
           /\ Refused(g).spent = g.spent /\ Refused(g).opened = g.opened /\ Refused(g).disabled = g.disabled
           /\ Refused(g).reason \in {g.reason, "budget"}
<1>1. /\ g.limitedAt \in Int /\ g.run \in Nat /\ g.reason \in Reasons /\ d.refusals \in SUBSET Nat
      /\ e.refusals \in SUBSET Nat /\ tick \in e.refusals /\ d.refusals \subseteq e.refusals
      /\ LimitedWindows \in Nat /\ LimitedWindows > 0
  BY BridgeNumbers DEF GuardState, DiaryState
<1>2. g.run > 0 => /\ g.limitedAt \in d.refusals /\ g.limitedAt \in Nat /\ g.limitedAt <= tick
                   /\ Chain(d.refusals, g.limitedAt, g.run) /\ Fresh(d.refusals, g.limitedAt, g.run)
  BY <1>1 DEF Loops
<1>3. CASE tick - g.limitedAt < Span
  <2>1. Refused(g) = g /\ g.run > 0
    BY <1>1, <1>3, Step_ DEF Refused, Loops
  <2>2. \A r \in e.refusals : r <= tick /\ r < g.limitedAt + Span
    BY <1>1, <1>3, Step_ DEF Loops
  <2>3. Chain(e.refusals, g.limitedAt, g.run) /\ Fresh(e.refusals, g.limitedAt, g.run)
    <3>1. Chain(e.refusals, g.limitedAt, g.run)
      BY <1>1, <1>2, <2>1, ChainKeeps
    <3>2. Fresh(d.refusals \cup {tick}, g.limitedAt, g.run)
      BY <1>1, <1>2, <2>1, FreshKeeps
    <3>3. QED
      BY <3>1, <3>2
  <2>4. g.reason = "none" => g.run < LimitedWindows /\ Quiet(tick, e.refusals)
    BY <1>1, QuietKeeps DEF Loops
  <2>5. g.reason = "budget" => \E last \in e.refusals : Chain(e.refusals, last, LimitedWindows)
    BY <1>1, ChainKeeps DEF Loops
  <2>6. QED
    BY <1>1, <1>2, <2>1, <2>2, <2>3, <2>4, <2>5 DEF Loops
<1>4. CASE tick - g.limitedAt >= Span
  <2>1. PICK run \in Nat : run = IF tick - g.limitedAt < 2 * Span THEN g.run + 1 ELSE 1
    BY <1>1
  <2>2. PICK why \in Reasons : why = IF run >= LimitedWindows /\ g.reason = "none" THEN "budget" ELSE g.reason
    BY <1>1 DEF Reasons
  <2>3. PICK h \in GuardState : h = [g EXCEPT !.run = run, !.limitedAt = tick, !.reason = why]
    <3>1. tick \in Int
      OBVIOUS
    <3>2. QED
      BY <2>1, <2>2, <3>1, ZenonT(40) DEF GuardState
  <2>4. Refused(g) = h
    BY <1>1, <1>4, <2>1, <2>2, <2>3, Step_ DEF Refused
  <2>5. /\ h.run = run /\ h.limitedAt = tick /\ h.reason = why /\ h.spent = g.spent
        /\ h.opened = g.opened /\ h.disabled = g.disabled
    BY <2>3 DEF GuardState
  <2>6. run > 0 /\ Chain(e.refusals, tick, run) /\ Fresh(e.refusals, tick, run)
    <3>1. CASE tick - g.limitedAt < 2 * Span
      <4>1. g.run > 0 /\ run = g.run + 1
        BY <1>1, <2>1, <3>1, Step_ DEF Loops
      <4>2. QED
        <5>1. Chain(d.refusals \cup {tick}, tick, g.run + 1)
          BY <1>1, <1>2, <1>4, <3>1, <4>1, ChainGoesOn
        <5>2. Fresh(d.refusals \cup {tick}, tick, g.run + 1)
          BY <1>1, <1>2, <3>1, <4>1, FreshKeeps
        <5>3. run > 0 /\ e.refusals = d.refusals \cup {tick}
          BY <1>1, <4>1
        <5>4. QED
          BY <4>1, <5>1, <5>2, <5>3
    <3>2. CASE ~(tick - g.limitedAt < 2 * Span)
      <4>1. run = 1 /\ \A r \in d.refusals : r < tick - Span
        BY <1>1, <2>1, <3>2, Step_ DEF Loops
      <4>2. QED
        <5>1. Chain(e.refusals, tick, 1)
          BY <1>1, ChainStarts
        <5>2. Fresh(d.refusals \cup {tick}, tick, 1)
          BY <1>1, <4>1, FreshStarts
        <5>3. run = 1 /\ run > 0 /\ e.refusals = d.refusals \cup {tick}
          BY <4>1
        <5>4. QED
          BY <5>1, <5>2, <5>3
    <3>3. QED
      BY <3>1, <3>2
  <2>7. \A r \in e.refusals : r <= tick /\ r < tick + Span
    BY <1>1, Step_ DEF Loops
  <2>8. why = "none" => run < LimitedWindows /\ Quiet(tick, e.refusals)
    BY <1>1, <2>1, <2>2, QuietKeeps DEF Loops, Reasons
  <2>9. why = "budget" => \E last \in e.refusals : Chain(e.refusals, last, LimitedWindows)
    BY <1>1, ChainKeeps, <2>1, <2>2, <2>6 DEF Loops
  <2>10. QED
    BY <1>1, <2>2, <2>4, <2>5, <2>6, <2>7, <2>8, <2>9 DEF Loops
<1>5. QED
  BY <1>1, <1>3, <1>4, Step_

-----------------------------------------------------------------------------
(* The guard                                                               *)

LEMMA KeptStarts == ASSUME NEW t \in Nat PROVE BooksKept(t, NewGuard, NewDiary)
<1>1. Never \in Int /\ <<>> \in Seq(Nat) /\ <<>> \in Seq(Names_) /\ Len(<<>>) = 0 /\ DOMAIN <<>> = {}
  BY Step_
<1>2. NewGuard \in GuardState
  BY <1>1 DEF NewGuard, GuardState, Reasons
<1>3. NewDiary \in DiaryState
  BY <1>1 DEF NewDiary, DiaryState
<1>4. /\ NewDiary.ran["open"] = <<>> /\ NewDiary.refusals = {} /\ NewDiary.warned = <<>>
      /\ \A k \in Rates : NewGuard.spent[k] = <<>> /\ NewDiary.ran[k] = <<>>
      /\ NewGuard.run = 0 /\ NewGuard.reason = "none" /\ NewGuard.limitedAt = Never
  BY DEF NewGuard, NewDiary
<1>5. ASSUME NEW n \in Nat
      PROVE  Ledger(t, <<>>, <<>>, n)
  BY <1>1 DEF Ledger
<1>6. \A k \in Rates : Ledger(t, NewGuard.spent[k], NewDiary.ran[k], Allowance[k])
  BY <1>4, <1>5, BridgeNumbers
<1>7. Gaps(NewGuard, NewDiary) /\ Warns(NewGuard, NewDiary)
  BY <1>1, <1>4 DEF Gaps, Warns
<1>8. Quiet(t, {})
  BY Step_ DEF Between, Quiet
<1>9. Loops(t, NewGuard, NewDiary)
  BY <1>4, <1>8, BridgeNumbers DEF Loops
<1>10. QED
  BY <1>2, <1>3, <1>6, <1>7, <1>9 DEF BooksKept

LEMMA KeptPasses == ASSUME NEW t \in Nat, NEW g, NEW d, BooksKept(t, g, d) PROVE BooksKept(t + 1, g, d)
<1>1. /\ g \in GuardState /\ d \in DiaryState /\ Gaps(g, d) /\ Warns(g, d) /\ Loops(t, g, d)
      /\ \A k \in Rates : Ledger(t, g.spent[k], d.ran[k], Allowance[k])
  BY DEF BooksKept
<1>2. ASSUME NEW k \in Rates
      PROVE  Ledger(t + 1, g.spent[k], d.ran[k], Allowance[k])
  <2>1. d.ran[k] \in Seq(Nat) /\ g.spent[k] \in Seq(Nat)
    BY <1>1 DEF DiaryState, GuardState
  <2>2. PICK r \in Seq(Nat), s \in Seq(Nat) : r = d.ran[k] /\ s = g.spent[k]
    BY <2>1
  <2>3. Ledger(t, s, r, Allowance[k])
    BY <1>1, <2>2
  <2>4. \A i \in 1..(Len(r) - Len(s)) : (t + 1) - r[i] >= Span
    BY <2>3, BridgeNumbers DEF Ledger
  <2>5. QED
    BY <2>2, <2>3, <2>4 DEF Ledger
<1>3. /\ g.limitedAt \in Int /\ g.run \in Nat /\ d.refusals \in SUBSET Nat /\ Span \in Nat
  BY <1>1, BridgeNumbers DEF GuardState, DiaryState
<1>4. g.reason = "none" => Quiet(t + 1, d.refusals)
  BY <1>1, <1>3, QuietPasses DEF Loops
<1>5. Loops(t + 1, g, d)
  BY <1>1, <1>3, <1>4 DEF Loops
<1>6. QED
  BY <1>1, <1>2, <1>5 DEF BooksKept

\* The rest of the history matters nothing, nor how often a nonce was wrong.
LEMMA KeptSame ==
    ASSUME NEW t \in Nat, NEW g, NEW d, BooksKept(t, g, d), NEW e \in DiaryState,
           e.ran = d.ran, e.refusals = d.refusals, e.warned = d.warned
    PROVE  BooksKept(t, g, e)
BY DEF BooksKept, Gaps, Loops, Warns

LEMMA KeptOtherwise ==
    ASSUME NEW t \in Nat, NEW g, NEW d, BooksKept(t, g, d), NEW h \in GuardState, h.spent = g.spent,
           h.opened = g.opened, h.disabled = g.disabled, h.limitedAt = g.limitedAt, h.run = g.run,
           h.reason \in {g.reason, "nonce", "navigated"}
    PROVE  BooksKept(t, h, d)
BY DEF BooksKept, Gaps, Loops, Warns

LEMMA Mistrusted ==
    ASSUME NEW t \in Nat, NEW d, BooksKept(t, guard, d)
    PROVE  BooksKept(t, Mismatched(guard), d) /\ BooksKept(t, StoppedAs(guard, "navigated"), d)
<1>1. guard \in GuardState
  BY DEF BooksKept
<1>2. PICK m \in Nat : m = guard.misses + 1
  BY <1>1 DEF GuardState
<1>3. PICK why \in Reasons : why = IF m >= Mismatches /\ guard.reason = "none" THEN "nonce" ELSE guard.reason
  BY <1>1 DEF GuardState, Reasons
<1>4. PICK h \in GuardState : h = [guard EXCEPT !.misses = m, !.reason = why]
  BY <1>1, <1>2, <1>3, ZenonT(40) DEF GuardState
<1>5. Mismatched(guard) = h
  BY <1>2, <1>3, <1>4 DEF Mismatched
<1>6. /\ h.spent = guard.spent /\ h.opened = guard.opened /\ h.disabled = guard.disabled
      /\ h.limitedAt = guard.limitedAt /\ h.run = guard.run /\ h.reason = why
  BY <1>1, <1>4 DEF GuardState
<1>7. PICK n \in GuardState : n = [guard EXCEPT !.reason = "navigated"]
  BY <1>1 DEF GuardState, Reasons
<1>8. /\ n.spent = guard.spent /\ n.opened = guard.opened /\ n.disabled = guard.disabled
      /\ n.limitedAt = guard.limitedAt /\ n.run = guard.run /\ n.reason = "navigated"
  BY <1>1, <1>7 DEF GuardState
<1>9. QED
  BY <1>3, <1>5, <1>6, <1>7, <1>8, KeptOtherwise DEF StoppedAs

\* Guard and history differ in what they have of kind `k`, and no more.
DifferIn(g, h, d, e, k) ==
    /\ h \in GuardState /\ e \in DiaryState /\ e.refusals = d.refusals /\ e.warned = d.warned
    /\ h.reason = g.reason /\ h.opened = g.opened /\ h.disabled = g.disabled
    /\ h.limitedAt = g.limitedAt /\ h.run = g.run /\ e.ran["open"] = d.ran["open"]
    /\ \A j \in Rates \ {k} : h.spent[j] = g.spent[j] /\ e.ran[j] = d.ran[j]

LEMMA ShiftKeeps ==
    ASSUME NEW t \in Nat, NEW g, NEW d, BooksKept(t, g, d), NEW k \in Rates, NEW h, NEW e,
           DifferIn(g, h, d, e, k), Ledger(t, h.spent[k], e.ran[k], Allowance[k])
    PROVE  BooksKept(t, h, e) /\ h.reason = g.reason
BY DEF BooksKept, DifferIn, Gaps, Warns, Loops

\* One of kind `k` more was carried out.
OneRan(d, e, k) ==
    /\ e \in DiaryState /\ e.ran = [d.ran EXCEPT ![k] = Append(@, tick)]
    /\ e.refusals = d.refusals /\ e.warned = d.warned

LEMMA ChargeRuns ==
    ASSUME tick \in Nat, NEW g, NEW d, BooksKept(tick, g, d), NEW k \in Rates, Affordable(g, k),
           NEW e, OneRan(d, e, k)
    PROVE  BooksKept(tick, Charged(g, k), e) /\ Charged(g, k).reason = g.reason
<1>1. /\ g \in GuardState /\ d \in DiaryState /\ Ledger(tick, g.spent[k], d.ran[k], Allowance[k])
      /\ d.ran[k] \in Seq(Nat) /\ Allowance[k] \in Nat
  BY BridgeNumbers DEF BooksKept, DiaryState
<1>2. PICK i \in Seq(Nat) : i = InSpan(g, k)
  BY <1>1, CountedEnd
<1>3. Ledger(tick, i, d.ran[k], Allowance[k])
  BY <1>1, <1>2, CountedEnd, LedgerShifts
<1>4. Len(i) < Allowance[k]
  BY <1>2 DEF Affordable
<1>5. PICK s \in Seq(Nat) : s = Append(i, tick)
  BY AppendsOne, Zenon
<1>6. PICK r \in Seq(Nat) : r = Append(d.ran[k], tick)
  BY <1>1, AppendsOne, Zenon
<1>7. Ledger(tick, s, r, Allowance[k])
  BY <1>1, <1>3, <1>4, <1>5, <1>6, LedgerGrows
<1>8. /\ e.ran[k] = r /\ \A j \in Rates \ {k} : e.ran[j] = d.ran[j]
      /\ e.ran["open"] = d.ran["open"]
  BY <1>1, <1>6 DEF DiaryState, Rates, OneRan
<1>9. PICK h \in GuardState : h = [g EXCEPT !.spent[k] = s]
  BY <1>1, <1>5 DEF GuardState
<1>10. Charged(g, k) = h
  BY <1>2, <1>5, <1>9 DEF Charged
<1>11. DifferIn(g, h, d, e, k) /\ h.spent[k] = s
  BY <1>1, <1>8, <1>9 DEF DifferIn, GuardState, OneRan
<1>14. Ledger(tick, h.spent[k], e.ran[k], Allowance[k])
  BY <1>7, <1>8, <1>11, Zenon
<1>12. BooksKept(tick, h, e) /\ h.reason = g.reason
  BY <1>11, <1>14, ShiftKeeps
<1>13. QED
  BY <1>10, <1>12

LEMMA ChargeRefuses ==
    ASSUME tick \in Nat, NEW g, NEW d, BooksKept(tick, g, d), NEW k \in Rates, ~Affordable(g, k),
           NEW e \in DiaryState, e.ran = d.ran, e.warned = d.warned,
           e.refusals = d.refusals \cup {tick}
    PROVE  BooksKept(tick, Charged(g, k), e) /\ Charged(g, k).reason \in {g.reason, "budget"}
<1>1. /\ g \in GuardState /\ d \in DiaryState /\ Ledger(tick, g.spent[k], d.ran[k], Allowance[k])
      /\ d.ran[k] \in Seq(Nat) /\ Allowance[k] \in Nat
  BY BridgeNumbers DEF BooksKept, DiaryState
<1>2. PICK i \in Seq(Nat) : i = InSpan(g, k)
  BY <1>1, CountedEnd
<1>3. Ledger(tick, i, d.ran[k], Allowance[k])
  BY <1>1, <1>2, CountedEnd, LedgerShifts
<1>5. PICK h \in GuardState : h = [g EXCEPT !.spent[k] = i]
  BY <1>1, <1>2 DEF GuardState
<1>4. DifferIn(g, h, d, d, k) /\ h.spent[k] = i
  BY <1>1, <1>5 DEF DifferIn, GuardState
<1>6. BooksKept(tick, h, d)
  BY <1>3, <1>4, ShiftKeeps
<1>7. Charged(g, k) = Refused(h)
  BY <1>2, <1>5 DEF Charged
<1>8. /\ Refused(h) \in GuardState /\ Loops(tick, Refused(h), e)
      /\ Refused(h).spent = h.spent /\ Refused(h).opened = h.opened /\ Refused(h).disabled = h.disabled
      /\ Refused(h).reason \in {h.reason, "budget"} /\ h.reason = g.reason
  BY <1>1, <1>4, <1>6, RefusedLoops DEF BooksKept, DifferIn
<1>9. PICK f \in GuardState : f = Refused(h)
  BY <1>8
<1>10. BooksKept(tick, f, e)
  BY <1>6, <1>8, <1>9 DEF BooksKept, Gaps, Warns
<1>11. QED
  BY <1>7, <1>8, <1>9, <1>10

LEMMA OpenKeeps ==
    ASSUME tick \in Nat, NEW g, NEW d, BooksKept(tick, g, d), OpenAllowed(g),
           NEW e, OneRan(d, e, "open")
    PROVE  BooksKept(tick, Spent(g, "open"), e) /\ Spent(g, "open").reason = g.reason
<1>1. /\ g \in GuardState /\ d \in DiaryState /\ Gaps(g, d) /\ Warns(g, d) /\ Loops(tick, g, d)
      /\ \A j \in Rates : Ledger(tick, g.spent[j], d.ran[j], Allowance[j])
  BY DEF BooksKept
<1>2. PICK r \in Seq(Nat) : r = d.ran["open"]
  BY <1>1 DEF DiaryState
<1>3. PICK q \in Seq(Nat) : /\ q = Append(r, tick) /\ Len(q) = Len(r) + 1 /\ q[Len(r) + 1] = tick
                            /\ \A i \in 1..Len(r) : q[i] = r[i]
  BY AppendsOne, Zenon
<1>4. /\ e.ran["open"] = q /\ \A k \in Rates : e.ran[k] = d.ran[k]
      /\ e \in DiaryState /\ e.refusals = d.refusals /\ e.warned = d.warned
  BY <1>1, <1>2, <1>3 DEF DiaryState, Rates, OneRan
<1>5. PICK h \in GuardState : h = [g EXCEPT !.opened = tick]
  <2>1. tick \in Int
    OBVIOUS
  <2>2. QED
    BY <1>1, <2>1, ZenonT(40) DEF GuardState
<1>6. /\ h.spent = g.spent /\ h.opened = tick /\ h.disabled = g.disabled /\ h.limitedAt = g.limitedAt
      /\ h.run = g.run /\ h.reason = g.reason
  BY <1>1, <1>5 DEF GuardState
<1>7. Spent(g, "open") = h
  BY <1>5 DEF Spent
<1>8. ASSUME NEW i \in 1..(Len(q) - 1)
      PROVE  q[i + 1] - q[i] >= Span
  <2>1. CASE i < Len(r)
    BY <2>1, <1>1, <1>2, <1>3 DEF Gaps
  <2>2. CASE i = Len(r)
    BY <2>2, <1>1, <1>2, <1>3 DEF Gaps, OpenAllowed
  <2>3. QED
    BY <1>3, <2>1, <2>2
<1>9. Gaps(h, e)
  BY <1>3, <1>4, <1>6, <1>8 DEF Gaps
<1>10. QED
  BY <1>1, <1>4, <1>6, <1>7, <1>9 DEF BooksKept, Loops, Warns

\* What a message that is handled makes of guard and history, refused as a request, refused
\* for what it asks, or let through.
LEMMA HandledKeeps ==
    ASSUME tick \in Nat, BooksKept(tick, guard, diary), guard.reason = "none", NEW k \in Kinds, NEW e
    PROVE  /\ ~Affordable(guard, "request") /\ e = [diary EXCEPT !.refusals = @ \cup {tick}]
                => BooksKept(tick, Charged(guard, "request"), e) /\ Charged(guard, "request").reason # "navigated"
           /\ (/\ Affordable(guard, "request") /\ ~Allowed(AsRequest, k)
               /\ e = [Ran("request") EXCEPT !.refusals = IF k = "open" THEN @ ELSE @ \cup {tick}])
                => BooksKept(tick, Spent(AsRequest, k), e) /\ Spent(AsRequest, k).reason # "navigated"
           /\ Affordable(guard, "request") /\ Allowed(AsRequest, k) /\ e = RanKind(k)
                => BooksKept(tick, Spent(AsRequest, k), e) /\ Spent(AsRequest, k).reason = "none"
<1>1. diary \in DiaryState /\ "request" \in Rates /\ diary.refusals \in SUBSET Nat
  BY DEF BooksKept, Rates, DiaryState
<1>2. ASSUME ~Affordable(guard, "request"), e = [diary EXCEPT !.refusals = @ \cup {tick}]
      PROVE  BooksKept(tick, Charged(guard, "request"), e) /\ Charged(guard, "request").reason # "navigated"
  <2>1. PICK rs \in SUBSET Nat : rs = diary.refusals \cup {tick}
    BY <1>1
  <2>2. e = [diary EXCEPT !.refusals = rs]
    BY <1>1, <1>2, <2>1 DEF DiaryState
  <2>3. e \in DiaryState /\ e.ran = diary.ran /\ e.warned = diary.warned /\ e.refusals = rs
    BY <1>1, <2>2 DEF DiaryState
  <2>4. QED
    BY <1>1, <1>2, <2>1, <2>3, ChargeRefuses
<1>3. ASSUME Affordable(guard, "request")
      PROVE  /\ BooksKept(tick, AsRequest, Ran("request")) /\ AsRequest.reason = "none"
             /\ Ran("request") \in DiaryState
  <2>1. PICK r \in [Rates \cup {"open"} -> Seq(Nat)] : r = [diary.ran EXCEPT !["request"] = Append(@, tick)]
    BY <1>1, AppendsOne DEF DiaryState
  <2>2. PICK late \in BOOLEAN : late = (diary.late \/ guard.reason # "none")
    OBVIOUS
  <2>3. PICK d \in DiaryState : d = [diary EXCEPT !.ran = r, !.late = late]
    BY <1>1 DEF DiaryState
  <2>4. Ran("request") = d
    BY <1>1, <2>1, <2>2, <2>3 DEF Ran, DiaryState
  <2>5. OneRan(diary, d, "request")
    BY <1>1, <2>1, <2>3 DEF OneRan, DiaryState
  <2>6. QED
    BY <1>1, <1>3, <2>4, <2>5, ChargeRuns DEF AsRequest
<1>4. ASSUME Affordable(guard, "request"), ~Allowed(AsRequest, k),
             e = [Ran("request") EXCEPT !.refusals = IF k = "open" THEN @ ELSE @ \cup {tick}]
      PROVE  BooksKept(tick, Spent(AsRequest, k), e) /\ Spent(AsRequest, k).reason # "navigated"
  <2>1. PICK d \in DiaryState : d = Ran("request")
    BY <1>3, <1>4
  <2>2. PICK g : g = AsRequest
    OBVIOUS
  <2>3. BooksKept(tick, g, d) /\ ~Allowed(g, k) /\ g.reason = "none"
    BY <1>3, <1>4, <2>1, <2>2
  <2>4. CASE k = "open"
    BY <1>4, <2>1, <2>4, <2>3, <2>2 DEF DiaryState, Spent, Allowed, Charged, Rates
  <2>5. CASE k # "open"
    <3>1. k \in Rates /\ ~Affordable(g, k) /\ Spent(g, k) = Charged(g, k)
      BY <2>3, <2>5 DEF Allowed, Spent
    <3>2. PICK rs \in SUBSET Nat : rs = d.refusals \cup {tick}
      BY DEF DiaryState
    <3>3. e = [d EXCEPT !.refusals = rs]
      BY <1>4, <2>1, <2>5, <3>2 DEF DiaryState
    <3>4. e \in DiaryState /\ e.ran = d.ran /\ e.warned = d.warned /\ e.refusals = rs
      BY <3>3 DEF DiaryState
    <3>5. QED
      BY <2>2, <2>3, <3>1, <3>2, <3>4, ChargeRefuses
  <2>6. QED
    BY <2>4, <2>5
<1>5. ASSUME Affordable(guard, "request"), Allowed(AsRequest, k), e = RanKind(k)
      PROVE  BooksKept(tick, Spent(AsRequest, k), e) /\ Spent(AsRequest, k).reason = "none"
  <2>1. PICK d \in DiaryState : d = Ran("request")
    BY <1>3, <1>5
  <2>2. PICK g : g = AsRequest
    OBVIOUS
  <2>3. BooksKept(tick, g, d) /\ Allowed(g, k) /\ g.reason = "none"
    BY <1>3, <1>5, <2>1, <2>2
  <2>4. DOMAIN diary.ran = Rates \cup {"open"}
    BY <1>1 DEF DiaryState
  <2>5. CASE k \notin Rates \cup {"open"}
    BY <1>5, <2>1, <2>2, <2>3, <2>4, <2>5 DEF RanKind, Spent, Charged
  <2>6. CASE k \in Rates \cup {"open"}
    <3>1. e = [d EXCEPT !.ran[k] = Append(@, tick)]
      BY <1>5, <2>1, <2>4, <2>6 DEF RanKind
    <3>2. PICK r \in [Rates \cup {"open"} -> Seq(Nat)] : r = [d.ran EXCEPT ![k] = Append(@, tick)]
      BY <2>6, AppendsOne DEF DiaryState
    <3>3. OneRan(d, e, k)
      BY <3>1, <3>2 DEF OneRan, DiaryState
    <3>4. CASE k = "open"
      BY <2>2, <2>3, <3>3, <3>4, OpenKeeps DEF Allowed
    <3>5. CASE k # "open"
      BY <2>3, <2>6, <3>5, <2>2, <3>3, ChargeRuns DEF Allowed, Spent
    <3>6. QED
      BY <3>4, <3>5
  <2>7. QED
    BY <2>5, <2>6
<1>6. QED
  BY <1>2, <1>4, <1>5

LEMMA WarnKeeps ==
    ASSUME NEW t \in Nat, BooksKept(t, guard, diary), NEW n \in Names_, NEW g, NEW d,
           g = [guard EXCEPT !.disabled = @ \cup {n}],
           d = IF FirstDisabled(n) THEN [diary EXCEPT !.warned = Append(@, n)] ELSE diary
    PROVE  BooksKept(t, g, d) /\ g.reason = guard.reason
<1>1. /\ guard \in GuardState /\ diary \in DiaryState /\ guard.disabled \in SUBSET Names_
      /\ diary.warned \in Seq(Names_) /\ Warns(guard, diary) /\ Loops(t, guard, diary)
      /\ Gaps(guard, diary)
      /\ \A k \in Rates : Ledger(t, guard.spent[k], diary.ran[k], Allowance[k])
  BY DEF BooksKept, GuardState, DiaryState
<1>2. /\ g \in GuardState /\ g.disabled = guard.disabled \cup {n} /\ g.reason = guard.reason
      /\ g.spent = guard.spent /\ g.opened = guard.opened /\ g.limitedAt = guard.limitedAt /\ g.run = guard.run
  BY <1>1 DEF GuardState
<1>3. PICK w \in Seq(Names_) : /\ w = IF FirstDisabled(n) THEN Append(diary.warned, n) ELSE diary.warned
                               /\ \A i \in DOMAIN w : w[i] \in g.disabled
                               /\ \A i, j \in DOMAIN w : w[i] = w[j] => i = j
  <2>1. CASE FirstDisabled(n)
    <3>1. PICK w \in Seq(Names_) : /\ w = Append(diary.warned, n) /\ DOMAIN w = 1..(Len(diary.warned) + 1)
                                   /\ \A i \in 1..Len(diary.warned) : w[i] = diary.warned[i]
                                   /\ w[Len(diary.warned) + 1] = n
      <4>1. PICK v \in Seq(Names_) : v = diary.warned
        BY <1>1
      <4>2. Append(v, n) \in Seq(Names_) /\ Len(Append(v, n)) = Len(v) + 1 /\ Append(v, n)[Len(v) + 1] = n
            /\ DOMAIN Append(v, n) = 1..(Len(v) + 1) /\ \A i \in 1..Len(v) : Append(v, n)[i] = v[i]
        OBVIOUS
      <4>3. QED
        BY <4>1, <4>2, Zenon
    <3>2. DOMAIN diary.warned = 1..Len(diary.warned) /\ Len(diary.warned) \in Nat
      BY <1>1
    <3>3. \A i \in DOMAIN w : i = Len(diary.warned) + 1 \/ i \in 1..Len(diary.warned)
      BY <3>1, <3>2
    <3>4. \A i \in DOMAIN w : w[i] \in g.disabled /\ (w[i] = n <=> i = Len(diary.warned) + 1)
      BY <1>1, <1>2, <2>1, <3>1, <3>2, <3>3 DEF FirstDisabled, Warns
    <3>5. \A i, j \in DOMAIN w : w[i] = w[j] => i = j
      BY <1>1, <3>1, <3>2, <3>3, <3>4 DEF Warns
    <3>6. QED
      BY <2>1, <3>1, <3>4, <3>5
  <2>2. CASE ~FirstDisabled(n)
    BY <1>1, <1>2, <2>2 DEF Warns
  <2>3. QED
    BY <2>1, <2>2
<1>4. /\ d \in DiaryState /\ d.warned = w /\ d.ran = diary.ran /\ d.refusals = diary.refusals
  BY <1>1, <1>3 DEF DiaryState
<1>5. Warns(g, d)
  BY <1>3, <1>4 DEF Warns
<1>6. QED
  BY <1>1, <1>2, <1>4, <1>5 DEF BooksKept, Gaps, Loops

-----------------------------------------------------------------------------
(* The frame and its calls                                                 *)

PageState == [published: 1..LastVersion, loading: SUBSET (1..LastVersion), shown: 0..LastVersion,
              mounts: 0..MaxMounts]
Post == [mount: Nat, nonce: Nat, call: Calls \cup {Hello}]

\* A document of the app has at most its own load to come, another one has been gone to.
FrameOK(p, m, why, left) ==
    /\ p \in PageState /\ m \in FrameState /\ m.id <= p.mounts
    /\ m.live => why = "none" /\ m.id # 0
    /\ m.id = 0 => m.due = 0 /\ m.loads = 0 /\ m.doc = "none"
    /\ m.id # 0 => m.built = p.shown /\ m.heard \in {0, m.built} /\ m.doc # "none"
    /\ m.due + m.loads <= IF m.doc = "app" THEN 1 ELSE 2
    /\ m.doc = "other" \/ why = "navigated" => left

\* Whether the app still waits for the answer, in frame `m`.
Listens(m, a) == a.told = "pending" /\ a.mount = m.id /\ m.live /\ m.doc = "app"

CallFits(m, n, a, waits) ==
    /\ a \in AppCall /\ a.mount <= n
    /\ a.at # "idle" => ~a.saved
    /\ a.at = "working" => a.kind # "download"
    /\ a.at = "waiting" => waits
    /\ a.told = "ok" /\ a.kind = "download" => a.saved
    /\ a.saved => a.told \in {"ok", "pending"} /\ ~Listens(m, a)

\* A call whose message waits was made just now.
PostFits(t, a, p) ==
    a.at = "posted" /\ a.mount = p.mount /\ p.nonce = p.mount /\ a.since = t /\ a.told = "pending"

PostsOK(t, ps, a) ==
    /\ ps \in Seq(Post)
    /\ \A i \in 1..Len(ps) : ps[i].call # Hello => PostFits(t, a[ps[i].call], ps[i])
    /\ \A i, j \in 1..Len(ps) : ps[i].call = ps[j].call /\ ps[i].call # Hello => i = j

\* The save that waits is asked for by the frame that runs, and has not waited too long.
SaveFits(t, m, a, s) ==
    s.waiting # Nobody_ =>
        LET w == a[s.waiting] IN
        /\ m.live /\ w.mount = m.id /\ w.at = "waiting" /\ w.told = "pending" /\ w.kind = "download"
        /\ s.until = w.since + SaveWait /\ t <= s.until

FrameCallsOK(t, m, n, ps, a, s) ==
    /\ a \in [Calls -> AppCall] /\ s \in SaveState /\ PostsOK(t, ps, a) /\ SaveFits(t, m, a, s)
    /\ \A c \in Calls : CallFits(m, n, a[c], s.waiting = c)

BridgeInv ==
    /\ tick \in 0..MaxTick /\ BooksKept(tick, guard, diary) /\ ~diary.late
    /\ FrameOK(page, mount, guard.reason, diary.left)
    /\ FrameCallsOK(tick, mount, page.mounts, posts, ask, save)

LEMMA PostsAre ==
    ASSUME NEW t, NEW ps, NEW a, PostsOK(t, ps, a)
    PROVE  \A i \in 1..Len(ps) : ps[i] \in Post /\ ps[i].call \in Calls \cup {Hello}
<1>1. \A i \in 1..Len(ps) : ps[i] \in Post
  BY DEF PostsOK
<1>2. \A p \in Post : p.call \in Calls \cup {Hello}
  BY DEF Post
<1>3. QED
  BY <1>1, <1>2

Ended(a, w) == [c \in Calls |-> IF c = w THEN [a[c] EXCEPT !.at = "idle"] ELSE a[c]]

\* The save that waited ends: another frame, or none that runs, comes after.
LEMMA CallsStop ==
    ASSUME NEW t, NEW m \in FrameState, NEW n \in Nat, NEW ps, NEW a, NEW s, FrameCallsOK(t, m, n, ps, a, s),
           NEW k \in FrameState, NEW r \in Nat, n <= r, k.live => k.id > n,
           NEW z \in SaveState, z.waiting = Nobody_
    PROVE  FrameCallsOK(t, k, r, ps, Ended(a, s.waiting), z)
<1>0. PICK b : b = Ended(a, s.waiting)
  OBVIOUS
<1>1. a \in [Calls -> AppCall] /\ s \in SaveState /\ PostsOK(t, ps, a) /\ Nobody_ \notin Calls
  BY BridgeNumbers DEF FrameCallsOK
<1>2. ASSUME NEW c \in Calls
      PROVE  /\ b[c] \in AppCall /\ b[c].told = a[c].told /\ b[c].kind = a[c].kind /\ b[c].saved = a[c].saved
             /\ b[c].mount = a[c].mount /\ b[c].since = a[c].since /\ b[c].at \in {"idle", a[c].at}
             /\ c # s.waiting => b[c] = a[c]
             /\ c = s.waiting => b[c].at = "idle" /\ ~a[c].saved /\ a[c].at = "waiting"
  BY <1>1, <1>0 DEF FrameCallsOK, SaveFits, CallFits, Ended, AppCall
<1>3. b \in [Calls -> AppCall]
  BY <1>0, <1>2 DEF Ended
<1>4. ASSUME NEW c \in Calls
      PROVE  CallFits(k, r, b[c], z.waiting = c)
  BY <1>1, <1>2 DEF FrameCallsOK, CallFits, AppCall, FrameState, Listens
<1>5. PostsOK(t, ps, b)
  <2>1. \A c \in Calls : a[c].at = "posted" => b[c] = a[c]
    BY <1>1, <1>2
  <2>2. \A i \in 1..Len(ps) : ps[i].call \in Calls \cup {Hello}
    BY <1>1, PostsAre
  <2>3. QED
    BY <1>1, <2>1, <2>2 DEF PostsOK, PostFits
<1>6. QED
  BY <1>0, <1>3, <1>4, <1>5 DEF FrameCallsOK, SaveFits

\* The frame stays the same one.
LEMMA CallsStay ==
    ASSUME NEW t, NEW m, NEW n, NEW ps, NEW a, NEW s, FrameCallsOK(t, m, n, ps, a, s),
           NEW k, k.id = m.id, k.live = m.live, m.doc # "app" => k.doc # "app"
    PROVE  FrameCallsOK(t, k, n, ps, a, s)
BY DEF Listens, FrameCallsOK, SaveFits, CallFits

LEMMA TailIs ==
    ASSUME NEW T, NEW s \in Seq(T), s # <<>>
    PROVE  /\ Tail(s) \in Seq(T) /\ Len(Tail(s)) = Len(s) - 1 /\ Head(s) = s[1] /\ Len(s) \in Nat \ {0}
           /\ \A i \in 1..Len(Tail(s)) : Tail(s)[i] = s[i + 1] /\ i + 1 \in 1..Len(s)
OBVIOUS

LEMMA PostTaken ==
    ASSUME NEW t, NEW ps, NEW a, PostsOK(t, ps, a), ps # <<>>
    PROVE  /\ PostsOK(t, Tail(ps), a) /\ Head(ps) \in Post
           /\ \A i \in 1..Len(Tail(ps)) : Tail(ps)[i].call # Hello => Tail(ps)[i].call # Head(ps).call
           /\ Head(ps).call # Hello => PostFits(t, a[Head(ps).call], Head(ps))
BY TailIs DEF PostsOK

LEMMA PostAdded ==
    ASSUME NEW t, NEW ps, NEW a, PostsOK(t, ps, a), NEW p \in Post,
           p.call # Hello => /\ PostFits(t, a[p.call], p)
                             /\ \A i \in 1..Len(ps) : ps[i].call # p.call
    PROVE  PostsOK(t, Append(ps, p), a)
<1>1. ps \in Seq(Post)
  BY DEF PostsOK
<1>2. PICK q \in Seq(Post) : /\ q = Append(ps, p) /\ Len(q) = Len(ps) + 1 /\ q[Len(ps) + 1] = p
                             /\ \A i \in 1..Len(ps) : q[i] = ps[i]
  <2>1. /\ Append(ps, p) \in Seq(Post) /\ Len(Append(ps, p)) = Len(ps) + 1 /\ Append(ps, p)[Len(ps) + 1] = p
        /\ \A i \in 1..Len(ps) : Append(ps, p)[i] = ps[i]
    BY <1>1
  <2>2. QED
    BY <2>1, Zenon
<1>3. \A i \in 1..Len(q) : i = Len(ps) + 1 \/ i \in 1..Len(ps)
  BY <1>1, <1>2
<1>4. PostsOK(t, q, a)
  BY <1>1, <1>2, <1>3 DEF PostsOK
<1>5. QED
  BY <1>2, <1>4

\* One call changes that no message and no save is about.
LEMMA OneCallChanges ==
    ASSUME NEW t, NEW m, NEW n, NEW ps, NEW a, NEW s, FrameCallsOK(t, m, n, ps, a, s), NEW c \in Calls,
           c # s.waiting, \A i \in 1..Len(ps) : ps[i].call # c,
           NEW x, CallFits(m, n, x, FALSE), NEW b, b = [a EXCEPT ![c] = x]
    PROVE  FrameCallsOK(t, m, n, ps, b, s)
BY BridgeNumbers, PostsAre DEF FrameCallsOK, CallFits, PostsOK, SaveFits, SaveState

-----------------------------------------------------------------------------
(* The page                                                                *)

LEMMA BridgeKnows ==
    ASSUME BridgeInv
    PROVE  /\ tick \in Nat /\ page.mounts \in Nat /\ page \in PageState /\ mount \in FrameState
           /\ guard \in GuardState /\ diary \in DiaryState /\ save \in SaveState
           /\ ask \in [Calls -> AppCall] /\ posts \in Seq(Post) /\ Nobody_ \notin Calls /\ Hello \notin Calls
           /\ BooksKept(tick, guard, diary) /\ ~diary.late
           /\ FrameOK(page, mount, guard.reason, diary.left)
           /\ FrameCallsOK(tick, mount, page.mounts, posts, ask, save) /\ PostsOK(tick, posts, ask)
BY BridgeNumbers DEF BridgeInv, BooksKept, FrameOK, FrameCallsOK, PostsOK, PageState

LEMMA BridgeStarts == BridgeInit => BridgeInv
<1> SUFFICES ASSUME BridgeInit PROVE BridgeInv
  OBVIOUS
<1>1. /\ tick = 0 /\ posts = <<>> /\ mount = NoFrame /\ guard = NewGuard /\ diary = NewDiary
      /\ page = [published |-> 1, loading |-> {1}, shown |-> 0, mounts |-> 0]
      /\ ask = [c \in Calls |-> Unasked] /\ save = NoSave
  BY DEF BridgeInit
<1>2. BooksKept(tick, guard, diary) /\ ~diary.late /\ tick \in 0..MaxTick
  <2>1. BooksKept(0, NewGuard, NewDiary) /\ ~NewDiary.late
    BY KeptStarts DEF NewDiary
  <2>2. QED
    BY <1>1, <2>1, BridgeNumbers
<1>3. page \in PageState /\ NoFrame \in FrameState
  BY <1>1, BridgeNumbers DEF PageState, NoFrame, FrameState
<1>4. FrameOK(page, mount, guard.reason, diary.left)
  BY <1>1, <1>3 DEF FrameOK, NoFrame, NewGuard
<1>5. Unasked \in AppCall /\ NoSave \in SaveState
  BY DEF Unasked, AppCall, Kinds, Rates, Answers, Names_, NoSave, SaveState
<1>6. CallFits(mount, page.mounts, Unasked, FALSE)
  BY <1>1, <1>5 DEF CallFits, Unasked
<1>7. PostsOK(tick, posts, ask)
  BY <1>1 DEF PostsOK
<1>8. FrameCallsOK(tick, mount, page.mounts, posts, ask, save)
  BY <1>1, <1>5, <1>6, <1>7, BridgeNumbers DEF FrameCallsOK, SaveFits, NoSave
<1>9. QED
  BY <1>2, <1>4, <1>8 DEF BridgeInv

LEMMA PageTurns ==
    ASSUME NEW p \in PageState, NEW s \in 1..LastVersion, NEW l \in SUBSET (1..LastVersion),
           NEW v \in 0..LastVersion, NEW n \in 0..MaxMounts, NEW q,
           q = [p EXCEPT !.published = s, !.loading = l, !.shown = v, !.mounts = n]
    PROVE  q \in PageState /\ q.shown = v /\ q.mounts = n
BY DEF PageState

LEMMA Publishes == ASSUME BridgeInv, Publish PROVE BridgeInv'
<1>1. page' = [page EXCEPT !.published = @ + 1] /\ page.published < LastVersion
      /\ UNCHANGED <<tick, mount, guard, posts, ask, save, diary>>
  BY DEF Publish
<1>2. page' \in PageState /\ page'.mounts = page.mounts /\ page'.shown = page.shown
  <2>1. page \in PageState
    BY BridgeKnows
  <2>2. /\ page.published + 1 \in 1..LastVersion /\ page.loading \in SUBSET (1..LastVersion)
        /\ page.shown \in 0..LastVersion /\ page.mounts \in 0..MaxMounts
    BY <1>1, <2>1, BridgeNumbers DEF PageState
  <2>3. page' = [page EXCEPT !.published = page.published + 1, !.loading = page.loading, !.shown = page.shown,
                             !.mounts = page.mounts]
    BY <1>1, <2>1 DEF PageState
  <2>4. QED
    BY <2>1, <2>2, <2>3 DEF PageState
<1>3. QED
  BY <1>1, <1>2 DEF BridgeInv, FrameOK

LEMMA Reloads == ASSUME BridgeInv, Reload PROVE BridgeInv'
<1>1. /\ page' = [page EXCEPT !.shown = 0, !.loading = @ \cup {page.published}]
      /\ mount' = NoFrame /\ ask' = Disposed(ask) /\ save' = NoSave
      /\ UNCHANGED <<tick, guard, posts, diary>>
  BY DEF Reload, Unmounted
<1>2. page' \in PageState /\ page'.mounts = page.mounts
  <2>1. page \in PageState
    BY BridgeKnows
  <2>2. /\ page.published \in 1..LastVersion /\ page.loading \cup {page.published} \in SUBSET (1..LastVersion)
        /\ 0 \in 0..LastVersion /\ page.mounts \in 0..MaxMounts
    BY <2>1, BridgeNumbers DEF PageState
  <2>3. page' = [page EXCEPT !.published = page.published, !.loading = page.loading \cup {page.published},
                             !.shown = 0, !.mounts = page.mounts]
    BY <1>1, <2>1 DEF PageState
  <2>4. QED
    BY <2>1, <2>2, <2>3 DEF PageState
<1>3. NoFrame \in FrameState /\ NoSave \in SaveState /\ NoSave.waiting = Nobody_
  BY BridgeNumbers DEF NoFrame, FrameState, NoSave, SaveState
<1>4. FrameOK(page', mount', guard.reason, diary.left)
  BY <1>1, <1>2, <1>3, BridgeKnows DEF FrameOK, NoFrame, PageState
<1>5. FrameCallsOK(tick, mount', page.mounts, posts, ask', save')
  BY <1>1, <1>3, BridgeKnows, CallsStop DEF Disposed, Ended, NoFrame
<1>6. QED
  BY <1>1, <1>2, <1>4, <1>5 DEF BridgeInv

LEMMA RuntimeArrives == ASSUME BridgeInv, NEW v \in page.loading, RuntimeAnswers(v) PROVE BridgeInv'
<1>1. v \in 1..LastVersion /\ MountKey(v) = v /\ MountKey(page.shown) = page.shown
      /\ UNCHANGED <<tick, posts>>
  BY BridgeKnows DEF PageState, MountKey, RuntimeAnswers
<1>2. CASE mount.id # 0 /\ MountKey(v) = MountKey(page.shown)
  <2>1. /\ page' = [page EXCEPT !.loading = @ \ {v}, !.shown = v] /\ mount' = mount
        /\ UNCHANGED <<guard, ask, save, diary>>
    BY <1>1, <1>2 DEF RuntimeAnswers
  <2>2. page' \in PageState /\ page'.mounts = page.mounts /\ page'.shown = page.shown
    BY <1>1, <1>2, <2>1, BridgeKnows DEF PageState
  <2>3. QED
    BY <1>1, <2>1, <2>2 DEF BridgeInv, FrameOK
<1>3. CASE ~(mount.id # 0 /\ MountKey(v) = MountKey(page.shown))
  <2>1. /\ page.mounts < MaxMounts
        /\ page' = [page EXCEPT !.loading = @ \ {v}, !.shown = v, !.mounts = @ + 1]
        /\ mount' = [id |-> page.mounts + 1, live |-> TRUE, built |-> v, heard |-> 0,
                     loads |-> 0, due |-> 1, doc |-> "app"]
        /\ guard' = NewGuard /\ diary' = NewDiary /\ ask' = Disposed(ask) /\ save' = NoSave
    BY <1>3 DEF RuntimeAnswers
  <2>2. page' \in PageState /\ page'.mounts = page.mounts + 1 /\ page'.shown = v
    <3>1. page \in PageState
      BY BridgeKnows
    <3>2. /\ page.published \in 1..LastVersion /\ page.loading \ {v} \in SUBSET (1..LastVersion)
          /\ v \in 0..LastVersion /\ page.mounts + 1 \in 0..MaxMounts
      BY <1>1, <2>1, <3>1, BridgeNumbers DEF PageState
    <3>3. page' = [page EXCEPT !.published = page.published, !.loading = page.loading \ {v},
                               !.shown = v, !.mounts = page.mounts + 1]
      BY <2>1, <3>1 DEF PageState
    <3>4. QED
      BY <3>1, <3>2, <3>3 DEF PageState
  <2>3. mount' \in FrameState
    BY SMTT(30), <1>1, <2>1, BridgeKnows, BridgeNumbers DEF FrameState
  <2>4. NoSave \in SaveState /\ NoSave.waiting = Nobody_
    BY DEF NoSave, SaveState
  <2>5. FrameOK(page', mount', "none", FALSE)
    BY <2>1, <2>2, <2>3, BridgeKnows DEF FrameOK
  <2>6. FrameCallsOK(tick, mount', page'.mounts, posts, ask', save')
    BY <2>1, BridgeKnows, <2>3, <2>4, CallsStop, <2>2 DEF Disposed, Ended
  <2>7. QED
    BY BridgeKnows, KeptStarts, <2>1, <2>5, <1>1, <2>6 DEF NewGuard, NewDiary, FrameOK,
       BridgeInv
<1>4. QED
  BY <1>2, <1>3

LEMMA RuntimeIsLost == ASSUME BridgeInv, NEW v \in page.loading, RuntimeFails(v) PROVE BridgeInv'
BY BridgeKnows DEF RuntimeFails, PageState, BridgeInv, FrameOK

\* The guard is now `g`, and the runner has stopped if it says so.
LEMMA GuardedKeeps ==
    ASSUME BridgeInv, NEW g, NEW m, FrameOK(page, m, guard.reason, diary.left), m.id = mount.id,
           m.live = mount.live, NEW asks, NEW saving,
           FrameCallsOK(tick, m, page.mounts, posts', asks, saving), saving.waiting = save.waiting \/ g.reason = "none",
           tick' = tick, page' = page, guard' = g, BooksKept(tick, g, diary'), diary'.left = diary.left,
           ~diary'.late, g.reason = "navigated" => diary.left,
           g.reason = "none" => guard.reason = "none",
           mount' = [m EXCEPT !.live = mount.live /\ g.reason = "none"],
           ask' = IF g.reason = "none" THEN asks ELSE Disposed(asks),
           save' = IF g.reason = "none" THEN saving ELSE DisposedSave
    PROVE  BridgeInv'
<1>1. m \in FrameState /\ m.live \in BOOLEAN
  BY DEF FrameOK, FrameState
<1>2. /\ mount' \in FrameState /\ mount'.live = (mount.live /\ g.reason = "none") /\ mount'.id = m.id
      /\ mount'.built = m.built /\ mount'.heard = m.heard /\ mount'.loads = m.loads /\ mount'.due = m.due
      /\ mount'.doc = m.doc
  BY <1>1 DEF FrameState
<1>3. FrameOK(page, mount', g.reason, diary.left)
  BY <1>1, <1>2 DEF FrameOK
<1>4. CASE g.reason = "none"
  <2>1. FrameCallsOK(tick, mount', page.mounts, posts', asks, saving)
    <3>1. mount'.live = m.live
      BY <1>1, <1>2, <1>4
    <3>2. QED
      BY <1>2, <3>1, CallsStay
  <2>2. QED
    BY <1>3, <1>4, <2>1 DEF BridgeInv
<1>5. CASE g.reason # "none"
  <2>1. save' \in SaveState /\ save'.waiting = Nobody_
    BY <1>5, BridgeKnows DEF DisposedSave, SaveState
  <2>2. ask' = Ended(asks, saving.waiting)
    BY <1>5 DEF Disposed, Ended
  <2>3. FrameCallsOK(tick, mount', page.mounts, posts', ask', save')
    <3>1. ~mount'.live
      BY <1>2, <1>5
    <3>2. page.mounts \in Nat /\ page.mounts <= page.mounts
      BY BridgeKnows
    <3>3. PICK k \in FrameState, z \in SaveState : k = mount' /\ z = save' /\ z.waiting = Nobody_ /\ ~k.live
      BY <1>2, <2>1, <3>1
    <3>4. FrameCallsOK(tick, k, page.mounts, posts', Ended(asks, saving.waiting), z)
      BY <1>1, <3>2, <3>3, CallsStop
    <3>5. QED
      BY <2>2, <3>3, <3>4
  <2>4. QED
    BY <1>3, <1>5, <2>3 DEF BridgeInv
<1>6. QED
  BY <1>4, <1>5

LEMMA FrameIsLoaded == ASSUME BridgeInv, FrameLoads PROVE BridgeInv'
<1>1. PICK g : g = IF mount.loads > 0 THEN StoppedAs(guard, "navigated") ELSE guard
  OBVIOUS
<1>2. /\ mount.due > 0 /\ guard' = g
      /\ mount' = [mount EXCEPT !.due = @ - 1, !.loads = @ + 1, !.live = LiveAfter(g)]
      /\ ask' = IF g.reason = "none" THEN ask ELSE Disposed(ask)
      /\ save' = IF g.reason = "none" THEN save ELSE DisposedSave
      /\ UNCHANGED <<tick, page, posts, diary>>
  BY <1>1 DEF FrameLoads
<1>3. /\ mount \in FrameState /\ mount.due \in Nat /\ mount.loads \in Nat /\ mount.id # 0
      /\ mount.due + mount.loads <= IF mount.doc = "app" THEN 1 ELSE 2
  BY <1>2, BridgeKnows DEF FrameOK, FrameState
<1>4. PICK d \in 0..3, l \in 0..3 : d = mount.due - 1 /\ l = mount.loads + 1
  BY <1>2, <1>3
<1>5. PICK m \in FrameState : m = [mount EXCEPT !.due = d, !.loads = l]
  BY <1>3 DEF FrameState
<1>6. /\ m.id = mount.id /\ m.live = mount.live /\ m.built = mount.built /\ m.heard = mount.heard
      /\ m.due = d /\ m.loads = l /\ m.doc = mount.doc
  BY <1>3, <1>5 DEF FrameState
<1>7. mount' = [m EXCEPT !.live = mount.live /\ g.reason = "none"]
  BY <1>2, <1>3, <1>4, <1>5 DEF FrameState, LiveAfter
<1>8. FrameOK(page, m, guard.reason, diary.left)
  <2>1. m.due + m.loads = mount.due + mount.loads
    BY <1>3, <1>4, <1>6
  <2>2. FrameOK(page, mount, guard.reason, diary.left)
    BY BridgeKnows
  <2>3. QED
    BY <1>3, <1>6, <2>1, <2>2 DEF FrameOK
<1>9. FrameCallsOK(tick, m, page.mounts, posts', ask, save)
  BY <1>2, <1>6, BridgeKnows, CallsStay
<1>10. BooksKept(tick, g, diary) /\ (g.reason = "none" => guard.reason = "none")
  BY <1>1, BridgeKnows, Mistrusted DEF StoppedAs
<1>11. g.reason = "navigated" => diary.left
  BY <1>2, <1>3, BridgeKnows, <1>1 DEF FrameOK, FrameState
<1>12. QED
  BY <1>2, <1>6, <1>7, <1>8, <1>9, <1>10, <1>11, BridgeKnows, GuardedKeeps

LEMMA DocumentLeaves == ASSUME BridgeInv, Navigates PROVE BridgeInv'
<1>1. /\ mount.live /\ mount.doc = "app" /\ UNCHANGED <<tick, page, guard, posts, ask, save>>
      /\ mount' = [mount EXCEPT !.doc = "other", !.due = IF mount.loads = 0 THEN @ ELSE @ + 1]
      /\ diary' = [diary EXCEPT !.left = TRUE]
  BY DEF Navigates
<1>2. /\ mount \in FrameState /\ mount.due \in Nat /\ mount.loads \in Nat /\ mount.id # 0
      /\ mount.due + mount.loads <= 1 /\ diary \in DiaryState
  BY <1>1, BridgeKnows DEF FrameOK, FrameState
<1>3. PICK d \in 0..3 : d = IF mount.loads = 0 THEN mount.due ELSE mount.due + 1
  BY <1>2
<1>4. mount' = [mount EXCEPT !.doc = "other", !.due = d]
  BY <1>1, <1>2, <1>3 DEF FrameState
<1>5. /\ mount' \in FrameState /\ mount'.id = mount.id /\ mount'.live = mount.live /\ mount'.heard = mount.heard
      /\ mount'.built = mount.built /\ mount'.due = d /\ mount'.loads = mount.loads /\ mount'.doc = "other"
  BY <1>2, <1>4 DEF FrameState
<1>6. /\ diary' \in DiaryState /\ diary'.ran = diary.ran /\ diary'.refusals = diary.refusals
      /\ diary'.warned = diary.warned /\ diary'.left /\ diary'.late = diary.late
  BY <1>1, <1>2 DEF DiaryState
<1>7. FrameOK(page, mount', guard.reason, diary'.left)
  BY <1>2, <1>3, <1>5, <1>6, BridgeKnows DEF FrameOK
<1>8. FrameCallsOK(tick, mount', page.mounts, posts, ask, save)
  BY <1>1, <1>5, BridgeKnows, CallsStay
<1>9. BooksKept(tick, guard, diary')
  BY <1>6, BridgeKnows, KeptSame
<1>10. QED
  BY <1>1, <1>6, <1>7, <1>8, <1>9 DEF BridgeInv

LEMMA HelloIsPosted == ASSUME BridgeInv, PostsBare \/ PostsHello PROVE BridgeInv'
<1>1. PICK n \in Nat : posts' = Append(posts, [mount |-> mount.id, nonce |-> n, call |-> Hello])
  BY BridgeKnows DEF PostsBare, PostsHello, Posted, FrameState
<1>2. UNCHANGED <<tick, page, mount, guard, ask, save, diary>>
  BY DEF PostsBare, PostsHello
<1>3. PICK p \in Post : p = [mount |-> mount.id, nonce |-> n, call |-> Hello]
  <2>1. mount.id \in Nat
    BY BridgeKnows DEF FrameState
  <2>2. QED
    BY <2>1 DEF Post
<1>4. PostsOK(tick, posts', ask)
  BY <1>1, <1>3, BridgeKnows, PostAdded
<1>5. QED
  BY <1>2, <1>4 DEF BridgeInv, FrameCallsOK

LEMMA AppCalls ==
    ASSUME BridgeInv, NEW c \in Calls, NEW k \in Kinds, NEW n \in Names_, SdkCall(c, k, n)
    PROVE  BridgeInv'
<1>1. PICK x : x = [at |-> "posted", kind |-> k, name |-> n, mount |-> mount.id, since |-> tick,
                    told |-> "pending", saved |-> FALSE]
  OBVIOUS
<1>2. /\ mount.live /\ ask[c].at = "idle" /\ ask' = [ask EXCEPT ![c] = x]
      /\ posts' = Append(posts, [mount |-> mount.id, nonce |-> mount.id, call |-> c])
      /\ UNCHANGED <<tick, page, mount, guard, save, diary>>
  BY <1>1 DEF SdkCall, Posted
<1>3. x \in AppCall /\ mount.id \in Nat /\ mount.id <= page.mounts
  BY <1>1, BridgeKnows DEF AppCall, Answers, FrameState, FrameOK
<1>4. CallFits(mount, page.mounts, x, FALSE)
  BY <1>1, <1>3 DEF CallFits
<1>5. \A i \in 1..Len(posts) : posts[i].call # c
  BY <1>2, BridgeKnows DEF PostsOK, PostFits
<1>6. c # save.waiting
  BY <1>2, BridgeKnows DEF FrameCallsOK, SaveFits
<1>7. FrameCallsOK(tick, mount, page.mounts, posts, ask', save)
  BY <1>2, <1>4, <1>5, <1>6, BridgeKnows, OneCallChanges
<1>8. PICK p \in Post : p = [mount |-> mount.id, nonce |-> mount.id, call |-> c]
  BY <1>3 DEF Post
<1>9. PostFits(tick, ask'[p.call], p)
  BY <1>1, <1>2, <1>8, BridgeKnows DEF PostFits
<1>10. PostsOK(tick, posts', ask')
  BY <1>2, <1>5, <1>7, <1>8, <1>9, PostAdded DEF FrameCallsOK
<1>11. QED
  BY <1>2, <1>7, <1>10 DEF BridgeInv, FrameCallsOK

LEMMA AppGivesUp == ASSUME BridgeInv, NEW c \in Calls, CallTimesOut(c) PROVE BridgeInv'
<1>1. /\ Listens(mount, ask[c]) /\ tick - ask[c].since >= CallWait /\ ask' = [ask EXCEPT ![c].told = "timeout"]
      /\ UNCHANGED <<tick, page, mount, guard, posts, save, diary>>
  BY DEF CallTimesOut, StillWaits, Listens
<1>2. ask[c] \in AppCall /\ ask[c].since \in Nat /\ CallFits(mount, page.mounts, ask[c], save.waiting = c)
  BY BridgeKnows DEF FrameCallsOK, AppCall
<1>3. PICK x \in AppCall : x = [ask[c] EXCEPT !.told = "timeout"]
  BY <1>2 DEF AppCall, Answers
<1>4. /\ x.at = ask[c].at /\ x.kind = ask[c].kind /\ x.mount = ask[c].mount /\ x.saved = ask[c].saved
      /\ x.told = "timeout"
  BY <1>2, <1>3 DEF AppCall
<1>5. c # save.waiting
  <2>1. ASSUME c = save.waiting
        PROVE  save.until = ask[c].since + SaveWait /\ tick <= save.until
    BY <2>1, BridgeKnows DEF FrameCallsOK, SaveFits
  <2>2. QED
    BY SMTT(30), <1>1, <1>2, <2>1, BridgeKnows, BridgeNumbers
<1>6. \A i \in 1..Len(posts) : posts[i].call # c
  BY BridgeKnows, BridgeNumbers, <1>1 DEF PostsOK, PostFits
<1>7. CallFits(mount, page.mounts, x, FALSE)
  BY <1>1, <1>2, <1>4, <1>5 DEF CallFits, Listens
<1>8. ask' = [ask EXCEPT ![c] = x]
  BY <1>1, <1>3
<1>9. FrameCallsOK(tick, mount, page.mounts, posts, ask', save)
  BY <1>5, <1>6, <1>7, <1>8, BridgeKnows, OneCallChanges
<1>10. QED
  BY <1>1, <1>9 DEF BridgeInv

-----------------------------------------------------------------------------
(* The messages                                                            *)

\* A call whose message is at the head: nothing else is about it.
LEMMA CallAtHead ==
    ASSUME BridgeInv, posts # <<>>, Head(posts).call \in Calls
    PROVE  LET c == Head(posts).call
               a == ask[c] IN
           /\ FrameCallsOK(tick, mount, page.mounts, Tail(posts), ask, save) /\ Head(posts) \in Post
           /\ \A i \in 1..Len(Tail(posts)) : Tail(posts)[i].call # c
           /\ PostFits(tick, a, Head(posts)) /\ c # save.waiting
           /\ a \in AppCall /\ a.at = "posted" /\ a.told = "pending" /\ ~a.saved /\ a.mount <= page.mounts
BY BridgeKnows, PostTaken DEF FrameCallsOK, SaveFits, PostFits, CallFits

LEMMA OtherPostTaken ==
    ASSUME BridgeInv, posts # <<>>
    PROVE  FrameCallsOK(tick, mount, page.mounts, Tail(posts), ask, save) /\ Head(posts) \in Post
BY BridgeKnows, PostTaken DEF FrameCallsOK

LEMMA PostIsDropped == ASSUME BridgeInv, DropsPost PROVE BridgeInv'
<1>1. /\ posts # <<>> /\ posts' = Tail(posts) /\ UNCHANGED <<tick, page, mount, guard, save, diary>>
      /\ ask' = IF IsCall(Head(posts)) THEN [ask EXCEPT ![Head(posts).call].at = "idle"] ELSE ask
  BY DEF DropsPost
<1>2. FrameCallsOK(tick, mount, page.mounts, posts', ask', save)
  <2>1. CASE Head(posts).call = Hello
    BY <1>1, <2>1, OtherPostTaken DEF IsCall
  <2>2. CASE Head(posts).call # Hello
    BY <1>1, <2>2, OtherPostTaken, CallAtHead, OneCallChanges DEF Post, AppCall, CallFits,
       IsCall
  <2>3. QED
    BY <2>1, <2>2
<1>3. QED
  BY <1>1, <1>2 DEF BridgeInv

LEMMA PostIsMistrusted == ASSUME BridgeInv, MistrustsPost PROVE BridgeInv'
BY BridgeKnows, Mistrusted, OtherPostTaken, GuardedKeeps DEF MistrustsPost, Heard, FrameOK,
   Mismatched, GuardState, Guarded, LiveAfter

LEMMA HelloIsAnswered == ASSUME BridgeInv, AnswersHello PROVE BridgeInv'
<1>1. /\ posts # <<>> /\ posts' = Tail(posts) /\ mount.live /\ UNCHANGED <<tick, page, guard, ask, save>>
      /\ mount' = IF mount.doc = "app" THEN [mount EXCEPT !.heard = page.shown] ELSE mount
      /\ diary' = [diary EXCEPT !.late = @ \/ guard.reason # "none"]
  BY DEF AnswersHello, Heard
<1>2. guard.reason = "none" /\ mount.id # 0 /\ mount \in FrameState /\ page.shown \in 0..LastVersion
  BY <1>1, BridgeKnows DEF FrameOK, PageState
<1>3. /\ mount' \in FrameState /\ mount'.id = mount.id /\ mount'.live = mount.live /\ mount'.built = mount.built
      /\ mount'.heard \in {mount.heard, page.shown} /\ mount'.due = mount.due /\ mount'.loads = mount.loads
      /\ mount'.doc = mount.doc
  BY <1>1, <1>2 DEF FrameState
<1>4. FrameOK(page, mount', guard.reason, diary.left)
  BY <1>2, <1>3, BridgeKnows DEF FrameOK
<1>5. diary' = diary
  BY <1>1, <1>2, BridgeKnows DEF DiaryState
<1>6. FrameCallsOK(tick, mount', page.mounts, posts', ask, save)
  BY <1>1, <1>3, OtherPostTaken, CallsStay
<1>7. QED
  BY <1>1, <1>4, <1>5, <1>6 DEF BridgeInv

LEMMA HandledDiary ==
    ASSUME BridgeInv, guard.reason = "none", NEW k, NEW e,
           \/ e = [diary EXCEPT !.refusals = @ \cup {tick}]
           \/ e = [Ran("request") EXCEPT !.refusals = IF k = "open" THEN @ ELSE @ \cup {tick}]
           \/ e = RanKind(k)
    PROVE  e.left = diary.left /\ ~e.late
<1>1. diary \in DiaryState /\ ~diary.late
  BY BridgeKnows
<1>2. PICK r : r = [diary.ran EXCEPT !["request"] = Append(@, tick)]
  OBVIOUS
<1>3. PICK d : d = [diary EXCEPT !.ran = r, !.late = FALSE]
  OBVIOUS
<1>4. Ran("request") = d
  BY <1>1, <1>2, <1>3 DEF Ran
<1>5. CASE e = [diary EXCEPT !.refusals = @ \cup {tick}]
  BY <1>1, <1>5 DEF DiaryState
<1>6. PICK rs : rs = IF k = "open" THEN d.refusals ELSE d.refusals \cup {tick}
  OBVIOUS
<1>7. CASE e = [d EXCEPT !.refusals = rs]
  BY <1>1, <1>3, <1>7 DEF DiaryState
<1>8. PICK ran : ran = [d.ran EXCEPT ![k] = Append(@, tick)]
  OBVIOUS
<1>9. CASE e = d \/ e = [d EXCEPT !.ran = ran]
  BY <1>1, <1>3, <1>9 DEF DiaryState
<1>10. QED
  BY <1>4, <1>5, <1>6, <1>7, <1>8, <1>9 DEF RanKind

\* The message of call `c` is handled: the call is now `x`, the guard `g`.
LEMMA CallIsHandled ==
    ASSUME BridgeInv, NEW c \in Calls, NextCall(c), NEW g, BooksKept(tick, g, diary'), g.reason # "navigated",
           diary'.left = diary.left, ~diary'.late, NEW x, CallFits(mount, page.mounts, x, FALSE),
           Guarded(g, [ask EXCEPT ![c] = x], save)
    PROVE  BridgeInv'
<1>1. /\ posts # <<>> /\ Head(posts).call = c /\ posts' = Tail(posts) /\ mount.live
      /\ tick' = tick /\ page' = page
  BY DEF NextCall, Heard
<1>2. PICK asks : asks = [ask EXCEPT ![c] = x]
  OBVIOUS
<1>3. FrameCallsOK(tick, mount, page.mounts, posts', asks, save)
  BY <1>1, <1>2, CallAtHead, OneCallChanges
<1>4. guard.reason = "none" /\ mount \in FrameState
  BY <1>1, BridgeKnows DEF FrameOK
<1>5. /\ guard' = g /\ mount' = [mount EXCEPT !.live = mount.live /\ g.reason = "none"]
      /\ ask' = IF g.reason = "none" THEN asks ELSE Disposed(asks)
      /\ save' = IF g.reason = "none" THEN save ELSE DisposedSave
  BY <1>2 DEF Guarded, LiveAfter
<1>6. QED
  BY <1>1, <1>3, <1>4, <1>5, BridgeKnows, GuardedKeeps

LEMMA CallFacts ==
    ASSUME BridgeInv, NEW c \in Calls, NextCall(c)
    PROVE  /\ guard.reason = "none" /\ ask[c] \in AppCall /\ ask[c].at = "posted" /\ ask[c].told = "pending"
           /\ ~ask[c].saved /\ ask[c].mount <= page.mounts /\ ask[c].mount = mount.id /\ ask[c].since = tick
           /\ ask[c].kind \in Kinds /\ mount.live /\ c # save.waiting
BY BridgeKnows, CallAtHead DEF NextCall, Heard, FrameOK, PostFits, AppCall

LEMMA AnswerFits ==
    ASSUME NEW m, NEW n, NEW k, NEW w, NEW a, CallFits(m, n, a, w), ~a.saved,
           NEW told \in Answers, told = "ok" => a.kind # "download"
    PROVE  CallFits(m, n, Hears(k, a, told), FALSE)
BY DEF CallFits, AppCall, Hears

\* The app that waits hears of a file that is saved.
LEMMA SavedFits ==
    ASSUME NEW m, NEW n, NEW w, NEW a, CallFits(m, n, a, w), a.told = "pending", a.mount = m.id, m.live
    PROVE  CallFits(m, n, [Hears(m, a, "ok") EXCEPT !.saved = TRUE], FALSE)
<1>1. a \in AppCall /\ a.mount <= n
  BY DEF CallFits
<1>2. PICK h \in {"ok", "pending"} : h = IF m.doc = "app" THEN "ok" ELSE "pending"
  OBVIOUS
<1>3. PICK y : y = [a EXCEPT !.at = "idle", !.told = h]
  OBVIOUS
<1>4. Hears(m, a, "ok") = y
  BY <1>2, <1>3 DEF Hears
<1>5. PICK x : x = [y EXCEPT !.saved = TRUE]
  OBVIOUS
<1>6. x.at = "idle" /\ x.told = h /\ x.kind = a.kind /\ x.mount = a.mount /\ x.saved = TRUE
  BY <1>1, <1>3, <1>5 DEF AppCall
<1>7. x \in AppCall
  BY <1>1, <1>3, <1>5 DEF AppCall, Answers
<1>8. CallFits(m, n, x, FALSE)
  BY <1>1, <1>2, <1>6, <1>7 DEF CallFits, Listens
<1>9. QED
  BY <1>4, <1>5, <1>8

LEMMA CallReplied ==
    ASSUME BridgeInv, NEW c \in Calls, NextCall(c), NEW g, BooksKept(tick, g, diary'), g.reason # "navigated",
           diary'.left = diary.left, ~diary'.late, NEW told \in Answers,
           told = "ok" => ask[c].kind # "download", Replies(c, g, told)
    PROVE  BridgeInv'
BY BridgeKnows, CallFacts, AnswerFits, CallIsHandled DEF FrameCallsOK, Replies

LEMMA CallIsRefused == ASSUME BridgeInv, NEW c \in Calls, RefusesCall(c) PROVE BridgeInv'
BY CallFacts, BridgeKnows, HandledKeeps, HandledDiary, CallReplied DEF RefusesCall, Answers

LEMMA KindIsRefused == ASSUME BridgeInv, NEW c \in Calls, RefusesKind(c) PROVE BridgeInv'
<1>1. PICK k : k = ask[c].kind
  OBVIOUS
<1>2. PICK told \in {"ok", "limit"} : told = IF k = "toast" THEN "ok" ELSE "limit"
  OBVIOUS
<1>3. /\ NextCall(c) /\ Affordable(guard, "request") /\ ~Allowed(AsRequest, k)
      /\ Replies(c, Spent(AsRequest, k), told)
      /\ diary' = [Ran("request") EXCEPT !.refusals = IF k = "open" THEN @ ELSE @ \cup {tick}]
  BY <1>1, <1>2 DEF RefusesKind, Routed
<1>4. PICK g : g = Spent(AsRequest, k)
  OBVIOUS
<1>5. guard.reason = "none" /\ k \in Kinds
  BY <1>1, <1>3, CallFacts
<1>6. BooksKept(tick, g, diary') /\ g.reason # "navigated"
  BY <1>3, <1>4, <1>5, BridgeKnows, HandledKeeps
<1>7. diary'.left = diary.left /\ ~diary'.late
  BY <1>3, <1>5, HandledDiary
<1>8. QED
  BY <1>1, <1>2, <1>3, <1>4, <1>6, <1>7, CallReplied DEF Answers

\* A call that passes both its ceilings is carried out, the guard `g`.
LEMMA Allowance_ ==
    ASSUME BridgeInv, NEW c \in Calls, NEW k, k = ask[c].kind, Routed(c), Allowed(AsRequest, k),
           diary' = RanKind(k), NEW g, g = Spent(AsRequest, k)
    PROVE  /\ NextCall(c) /\ BooksKept(tick, g, diary') /\ g.reason = "none"
           /\ diary'.left = diary.left /\ ~diary'.late
BY CallFacts, BridgeKnows, HandledKeeps, HandledDiary DEF Routed

LEMMA CallActsAtOnce == ASSUME BridgeInv, NEW c \in Calls, ActsAtOnce(c) PROVE BridgeInv'
BY Allowance_, CallReplied DEF ActsAtOnce, Answers

LEMMA CallStartsWork == ASSUME BridgeInv, NEW c \in Calls, StartsWork(c) PROVE BridgeInv'
<1>1. PICK k : k = ask[c].kind
  OBVIOUS
<1>2. PICK g : g = Spent(AsRequest, k)
  OBVIOUS
<1>3. /\ k # "download" /\ Routed(c) /\ Allowed(AsRequest, k) /\ diary' = RanKind(k)
      /\ Guarded(g, [ask EXCEPT ![c].at = "working"], save)
  BY <1>1, <1>2 DEF StartsWork
<1>4. /\ NextCall(c) /\ BooksKept(tick, g, diary') /\ g.reason = "none"
      /\ diary'.left = diary.left /\ ~diary'.late
  BY <1>1, <1>2, <1>3, Allowance_
<1>5. ask[c] \in AppCall /\ ask[c].told = "pending" /\ ~ask[c].saved /\ ask[c].mount <= page.mounts
  BY <1>4, CallFacts
<1>6. PICK x \in AppCall : x = [ask[c] EXCEPT !.at = "working"]
  BY <1>5 DEF AppCall
<1>7. CallFits(mount, page.mounts, x, FALSE)
  BY <1>1, <1>3, <1>5, <1>6 DEF CallFits, AppCall
<1>8. Guarded(g, [ask EXCEPT ![c] = x], save)
  BY <1>3, <1>6
<1>9. QED
  BY <1>4, <1>7, <1>8, CallIsHandled

LEMMA CallDownloads == ASSUME BridgeInv, NEW c \in Calls, Downloads(c) PROVE BridgeInv'
<1>1. PICK g : g = Spent(AsRequest, "download")
  OBVIOUS
<1>2. /\ ask[c].kind = "download" /\ Routed(c) /\ Allowed(AsRequest, "download") /\ diary' = RanKind("download")
      /\ \/ Replies(c, g, "limit")
         \/ Replies(c, g, "error")
         \/ Guarded(g, [ask EXCEPT ![c] = [Hears(mount, @, "ok") EXCEPT !.saved = TRUE]], save)
         \/ /\ save.waiting = Nobody_
            /\ Guarded(g, [ask EXCEPT ![c].at = "waiting"], [save EXCEPT !.waiting = c, !.until = tick + SaveWait])
  BY <1>1 DEF Downloads
<1>3. /\ NextCall(c) /\ BooksKept(tick, g, diary') /\ g.reason = "none"
      /\ diary'.left = diary.left /\ ~diary'.late
  BY <1>1, <1>2, Allowance_
<1>4. /\ ask[c] \in AppCall /\ ask[c].told = "pending" /\ ~ask[c].saved /\ ask[c].mount <= page.mounts
      /\ ask[c].mount = mount.id /\ ask[c].since = tick /\ mount.live /\ guard.reason = "none"
  BY <1>3, CallFacts
<1>5. CASE Replies(c, g, "limit") \/ Replies(c, g, "error")
  BY <1>3, <1>5, CallReplied DEF Answers
<1>6. CASE Guarded(g, [ask EXCEPT ![c] = [Hears(mount, @, "ok") EXCEPT !.saved = TRUE]], save)
  BY BridgeKnows, <1>4, SavedFits, <1>6, <1>3, CallIsHandled DEF FrameCallsOK
<1>7. CASE /\ save.waiting = Nobody_
           /\ Guarded(g, [ask EXCEPT ![c].at = "waiting"], [save EXCEPT !.waiting = c, !.until = tick + SaveWait])
  <2>1. PICK x \in AppCall : x = [ask[c] EXCEPT !.at = "waiting"]
    BY <1>4 DEF AppCall
  <2>2. PICK z \in SaveState : z = [save EXCEPT !.waiting = c, !.until = tick + SaveWait]
    <3>1. PICK until \in Nat : until = tick + SaveWait
      BY BridgeKnows, BridgeNumbers
    <3>2. [save EXCEPT !.waiting = c, !.until = until] \in SaveState
      BY BridgeKnows DEF SaveState
    <3>3. QED
      BY <3>1, <3>2
  <2>3. PICK asks : asks = [ask EXCEPT ![c] = x]
    OBVIOUS
  <2>4. Guarded(g, asks, z)
    BY <1>7, <2>1, <2>2, <2>3
  <2>5. posts # <<>> /\ Head(posts).call = c /\ posts' = Tail(posts) /\ tick' = tick /\ page' = page
    BY <1>3 DEF NextCall
  <2>6. /\ FrameCallsOK(tick, mount, page.mounts, posts', ask, save)
        /\ \A i \in 1..Len(posts') : posts'[i].call # c
    BY <2>5, CallAtHead
  <2>7. FrameCallsOK(tick, mount, page.mounts, posts', asks, z)
    <3>1. PICK y : y = [x EXCEPT !.at = "idle"]
      OBVIOUS
    <3>2. /\ x.at = "waiting" /\ x.kind = "download" /\ x.mount = mount.id /\ x.since = tick /\ x.told = "pending"
          /\ ~x.saved /\ x.mount <= page.mounts
      BY <1>2, <1>4, <2>1 DEF AppCall
    <3>3. asks \in [Calls -> AppCall] /\ asks[c] = x /\ \A d \in Calls \ {c} : asks[d] = ask[d]
      BY <2>1, <2>3, BridgeKnows
    <3>4. z.waiting = c /\ z.until = tick + SaveWait
      BY <2>2, BridgeKnows DEF SaveState
    <3>5. \A d \in Calls : CallFits(mount, page.mounts, asks[d], z.waiting = d)
      BY <3>2, <1>7, <2>6, BridgeKnows, <3>3, <3>4 DEF CallFits, FrameCallsOK
    <3>6. PostsOK(tick, posts', asks)
      <4>1. PostsOK(tick, posts', ask)
        BY <2>6 DEF FrameCallsOK
      <4>2. \A i \in 1..Len(posts') : posts'[i].call \in (Calls \ {c}) \cup {Hello}
        BY <2>6, <4>1, PostsAre
      <4>3. QED
        BY <3>3, <4>1, <4>2 DEF PostsOK
    <3>7. SaveFits(tick, mount, asks, z)
      BY <1>4, <3>2, <3>3, <3>4, BridgeKnows, BridgeNumbers DEF SaveFits
    <3>8. QED
      BY <3>3, <3>5, <3>6, <3>7 DEF FrameCallsOK
  <2>8. /\ guard' = g /\ mount' = [mount EXCEPT !.live = mount.live /\ g.reason = "none"]
        /\ ask' = IF g.reason = "none" THEN asks ELSE Disposed(asks)
        /\ save' = IF g.reason = "none" THEN z ELSE DisposedSave
    BY <2>4 DEF Guarded, LiveAfter
  <2>9. QED
    BY <1>3, <1>4, <2>5, <2>7, <2>8, BridgeKnows, GuardedKeeps
<1>8. QED
  BY <1>2, <1>5, <1>6, <1>7

-----------------------------------------------------------------------------
(* The calls at work, the saves, the time                                  *)

LEMMA AtWork ==
    ASSUME BridgeInv, NEW c \in Calls, ask[c].at = "working"
    PROVE  /\ ask[c] \in AppCall /\ ask[c].kind # "download" /\ ~ask[c].saved /\ c # save.waiting
           /\ \A i \in 1..Len(posts) : posts[i].call # c
           /\ \A told \in Answers : CallFits(mount, page.mounts, Hears(mount, ask[c], told), FALSE)
BY BridgeKnows, AnswerFits DEF FrameCallsOK, CallFits, SaveFits, PostsOK, PostFits

LEMMA WorkIsOver == ASSUME BridgeInv, NEW c \in Calls, WorkEnds(c) PROVE BridgeInv'
<1>1. PICK told \in {"ok", "error"} : ask' = [ask EXCEPT ![c] = Hears(mount, @, told)]
  BY DEF WorkEnds
<1>2. PICK x : x = Hears(mount, ask[c], told)
  OBVIOUS
<1>3. /\ ask[c].at = "working" /\ UNCHANGED <<tick, page, mount, guard, posts, save>>
      /\ ask' = [ask EXCEPT ![c] = x]
      /\ diary' = [diary EXCEPT !.late = @ \/ (guard.reason # "none" /\ ask'[c].told # ask[c].told)]
  BY <1>1, <1>2, BridgeKnows DEF WorkEnds
<1>4. CallFits(mount, page.mounts, x, FALSE)
  BY <1>2, <1>3, AtWork DEF Answers
<1>5. FrameCallsOK(tick, mount, page.mounts, posts, ask', save)
  BY <1>3, <1>4, AtWork, BridgeKnows, OneCallChanges
<1>6. ask'[c] = x /\ ask[c] \in AppCall
  BY <1>3, AtWork, BridgeKnows
<1>7. x.told # ask[c].told => mount.live
  BY <1>2, <1>6 DEF Hears, AppCall
<1>8. diary' = diary
  BY <1>6, <1>7, BridgeKnows, <1>3 DEF FrameOK, DiaryState
<1>9. QED
  BY <1>3, <1>5, <1>8 DEF BridgeInv

LEMMA ConnectionIsFound == ASSUME BridgeInv, NEW c \in Calls, ConnectionIsOff(c) PROVE BridgeInv'
<1>1. PICK x : x = Hears(mount, ask[c], "disabled")
  OBVIOUS
<1>2. PICK n : n = ask[c].name
  OBVIOUS
<1>3. /\ ask[c].at = "working" /\ UNCHANGED <<tick, page, mount, posts, save>>
      /\ ask' = [ask EXCEPT ![c] = x] /\ guard' = [guard EXCEPT !.disabled = @ \cup {n}]
      /\ diary' = IF FirstDisabled(n) THEN [diary EXCEPT !.warned = Append(@, n)] ELSE diary
  BY <1>1, <1>2, BridgeKnows DEF ConnectionIsOff
<1>4. n \in Names_ /\ CallFits(mount, page.mounts, x, FALSE)
  BY <1>1, <1>2, <1>3, AtWork DEF Answers, AppCall
<1>5. FrameCallsOK(tick, mount, page.mounts, posts, ask', save)
  BY <1>3, <1>4, AtWork, BridgeKnows, OneCallChanges
<1>6. BooksKept(tick, guard', diary') /\ guard'.reason = guard.reason
  BY <1>3, <1>4, BridgeKnows, WarnKeeps
<1>7. diary'.left = diary.left /\ ~diary'.late
  BY <1>3, BridgeKnows DEF DiaryState
<1>8. QED
  BY <1>3, <1>5, <1>6, <1>7, BridgeKnows DEF BridgeInv

LEMMA BarIsRendered == ASSUME BridgeInv, BarRenders PROVE BridgeInv'
BY BridgeKnows DEF BarRenders, SaveState, FrameCallsOK, SaveFits, BridgeInv

\* The save that waits is settled: its call is `x` now.
LEMMA SaveEnds ==
    ASSUME BridgeInv, NEW c \in Calls, c = save.waiting, NEW x, CallFits(mount, page.mounts, x, FALSE),
           ask' = [ask EXCEPT ![c] = x], save' = DisposedSave,
           UNCHANGED <<tick, page, mount, guard, posts, diary>>
    PROVE  BridgeInv'
<1>1. save' \in SaveState /\ save'.waiting = Nobody_ /\ x \in AppCall
  BY BridgeKnows DEF DisposedSave, SaveState, CallFits
<1>2. ask' \in [Calls -> AppCall] /\ ask'[c] = x /\ \A d \in Calls \ {c} : ask'[d] = ask[d]
  BY <1>1, BridgeKnows
<1>3. \A d \in Calls : CallFits(mount, page.mounts, ask'[d], FALSE)
  BY <1>2, BridgeKnows DEF FrameCallsOK
<1>4. c # Nobody_ /\ ask[c].at = "waiting"
  BY BridgeKnows DEF FrameCallsOK, SaveFits
<1>5. \A i \in 1..Len(posts) : posts[i].call \in (Calls \ {c}) \cup {Hello}
  <2>1. \A i \in 1..Len(posts) : posts[i].call # c
    BY <1>4, BridgeKnows DEF PostsOK, PostFits
  <2>2. \A i \in 1..Len(posts) : posts[i].call \in Calls \cup {Hello}
    BY BridgeKnows, PostsAre
  <2>3. QED
    BY <2>1, <2>2
<1>6. PostsOK(tick, posts, ask')
  BY <1>2, <1>5, BridgeKnows DEF PostsOK
<1>7. FrameCallsOK(tick, mount, page.mounts, posts, ask', save')
  BY <1>1, <1>2, <1>3, <1>6, BridgeKnows DEF FrameCallsOK, SaveFits
<1>8. QED
  BY <1>7 DEF BridgeInv

LEMMA SaveWaits ==
    ASSUME BridgeInv, NEW c, c = save.waiting, c # Nobody_
    PROVE  /\ c \in Calls /\ ask[c].told = "pending" /\ ask[c].mount = mount.id /\ mount.live
           /\ CallFits(mount, page.mounts, ask[c], TRUE) /\ ~ask[c].saved /\ ask[c].kind = "download"
BY BridgeKnows DEF SaveState, FrameCallsOK, SaveFits, CallFits

LEMMA SaveIsRefused ==
    ASSUME BridgeInv, NEW c, c = save.waiting, c # Nobody_, NEW told \in {"declined", "error"},
           ask' = [ask EXCEPT ![c] = Hears(mount, @, told)], save' = DisposedSave,
           UNCHANGED <<tick, page, mount, guard, posts, diary>>
    PROVE  BridgeInv'
BY SaveWaits, AnswerFits, BridgeKnows, SaveEnds DEF Answers

LEMMA SaveIsClicked == ASSUME BridgeInv, SaveClicked PROVE BridgeInv'
<1>1. PICK c : c = save.bar
  OBVIOUS
<1>2. /\ c = save.waiting /\ c # Nobody_ /\ save' = DisposedSave
      /\ UNCHANGED <<tick, page, mount, guard, posts, diary>>
      /\ \/ ask' = [ask EXCEPT ![c] = [Hears(mount, @, "ok") EXCEPT !.saved = TRUE]]
         \/ ask' = [ask EXCEPT ![c] = Hears(mount, @, "error")]
  BY <1>1 DEF SaveClicked, SettledSave, Pressed
<1>3. CASE ask' = [ask EXCEPT ![c] = Hears(mount, @, "error")]
  BY <1>2, <1>3, SaveIsRefused
<1>4. CASE ask' = [ask EXCEPT ![c] = [Hears(mount, @, "ok") EXCEPT !.saved = TRUE]]
  BY <1>2, SaveWaits, SavedFits, <1>4, BridgeKnows, SaveEnds
<1>5. QED
  BY <1>2, <1>3, <1>4

LEMMA SaveIsDismissed == ASSUME BridgeInv, SaveDismissed \/ SaveTimesOut PROVE BridgeInv'
BY SaveIsRefused DEF SaveDismissed, SaveTimesOut

LEMMA TimePasses == ASSUME BridgeInv, TickPasses PROVE BridgeInv'
BY BridgeKnows, BridgeNumbers, KeptPasses DEF TickPasses, SaveState, FrameCallsOK, SaveFits,
   PostsOK, BridgeInv

-----------------------------------------------------------------------------
(* The bridge                                                              *)

LEMMA BridgeKeeps == BridgeInv /\ [BridgeNext]_bridgeVars => BridgeInv'
<1> SUFFICES ASSUME BridgeInv, [BridgeNext]_bridgeVars PROVE BridgeInv'
  OBVIOUS
<1>1. CASE UNCHANGED bridgeVars
  BY <1>1 DEF bridgeVars, BridgeInv
<1>2. CASE PageNext
  BY <1>2, Publishes, Reloads, RuntimeArrives, RuntimeIsLost, FrameIsLoaded, DocumentLeaves, HelloIsPosted
  DEF PageNext, Runtime
<1>3. CASE HandlesPost
  BY <1>3, PostIsDropped, PostIsMistrusted, HelloIsAnswered, CallIsRefused, KindIsRefused, CallActsAtOnce,
     CallStartsWork, CallDownloads
  DEF HandlesPost
<1>4. CASE CallNext
  BY <1>4, AppGivesUp, WorkIsOver, ConnectionIsFound DEF CallNext
<1>5. CASE SaveNext
  BY <1>5, BarIsRendered, SaveIsClicked, SaveIsDismissed DEF SaveNext
<1>6. CASE \E c \in Calls, k \in Kinds, n \in Links \cup {Nobody_} : SdkCall(c, k, n)
  BY <1>6, AppCalls DEF Names_
<1>7. QED
  BY <1>1, <1>2, <1>3, <1>4, <1>5, <1>6, TimePasses DEF BridgeNext

LEMMA BridgeHolds ==
    ASSUME BridgeInv
    PROVE  /\ BridgeTypeOK /\ RatesAreKept /\ StoppedWhenLooping /\ StopIsFinal /\ ContextIsItsOwn
           /\ SavesAreTold /\ WarnedOnce
<1>1. BridgeTypeOK
  <2>1. guard.reason \in Reasons
    BY BridgeKnows DEF GuardState
  <2>2. \A c \in Calls : ask[c].at \in {"idle", "posted", "working", "waiting"} /\ ask[c].kind \in Kinds
    BY BridgeKnows DEF AppCall
  <2>3. save.waiting \in Calls \cup {Nobody_} /\ save.bar \in Calls \cup {Nobody_}
    BY BridgeKnows DEF SaveState
  <2>4. QED
    BY <2>1, <2>2, <2>3, BridgeKnows DEF BridgeTypeOK, BridgeInv, PageState, FrameState, Reasons
<1>2. RatesAreKept
  BY BridgeKnows DEF RatesAreKept, BooksKept, Ledger, Gaps
<1>3. Loops(tick, guard, diary)
  BY BridgeKnows DEF BooksKept
<1>4. StoppedWhenLooping
  BY <1>3 DEF Loops, Chain, Between, RefusedBetween, Quiet, StoppedWhenLooping
<1>5. StopIsFinal /\ ContextIsItsOwn
  BY BridgeKnows DEF FrameOK, StopIsFinal, ContextIsItsOwn
<1>6. SavesAreTold
  BY BridgeKnows, SaveWaits DEF FrameCallsOK, SavesAreTold, CallFits, Listens, StillWaits
<1>7. WarnedOnce
  BY BridgeKnows DEF BooksKept, Warns, WarnedOnce
<1>8. QED
  BY <1>1, <1>2, <1>4, <1>5, <1>6, <1>7

\* Whatever the rates, the windows and the calls: the bridge keeps its guard's books.
THEOREM BridgeInvariance == BridgeSpec => []BridgeInv
<1>1. QED
  BY BridgeStarts, BridgeKeeps, PTL DEF BridgeSpec

BridgedInv == focus # "guardrail" => BridgeInv

\* A frame gets no more than its rates and is stopped only for looping, a stop is final, a
\* document hears its own context, a save is told as it went, and a connection found off is
\* told of once, with any number of calls, rates, windows and versions.
THEOREM FramesStayBridged == BridgedSpec => []FramesAreBridged
<1>1. BridgedInit => BridgedInv
  BY BridgeStarts DEF BridgedInit, BridgedInv
<1>2. BridgedInv /\ [BridgedNext]_<<focus, vars, bridgeVars>> => BridgedInv'
  <2> SUFFICES ASSUME BridgedInv, [BridgedNext]_<<focus, vars, bridgeVars>>, focus # "guardrail", focus' = focus
               PROVE  BridgeInv'
    BY DEF BridgedInv, BridgedNext
  <2>1. BridgeInv
    BY DEF BridgedInv
  <2>2. FrameNext \/ UNCHANGED bridgeVars
    BY DEF BridgedNext
  <2>3. FrameNext => BridgeNext
    BY DEF FrameNext, BridgeNext, PageNext, Runtime
  <2>4. QED
    BY <2>1, <2>2, <2>3, BridgeKeeps
<1>3. BridgedInv => FramesAreBridged
  BY BridgeHolds DEF BridgedInv, FramesAreBridged
<1>4. QED
  BY <1>1, <1>2, <1>3, PTL DEF BridgedSpec
=============================================================================
