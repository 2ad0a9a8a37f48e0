------------------------------ MODULE Guardrail ------------------------------
(***************************************************************************)
(* The guardrail on risky agent actions: `Guardrail.check` and the holds   *)
(* it keeps (decisions/guardrail-service.ts, decisions/holds.ts), for one  *)
(* company while its guardrail is on (with it off, `check` returns before  *)
(* it reads or writes anything of this).                                   *)
(*                                                                         *)
(* A caller is one in-flight plugin request of an agent.  Every `await` of *)
(* `check` is a separate action, so requests of the same agent interleave  *)
(* wherever the worker's event loop lets them, and any of them may fail    *)
(* half way (a rejected promise, a worker restart).  The confirmation      *)
(* cards live in the core; only their resolution is modelled.              *)
(*                                                                         *)
(* A member of Actions stands for (agent, fingerprint): the agent with the *)
(* exact call, which includes the table's own id.  Calls that carry no     *)
(* agent, no issue or somebody else's issue are refused before any state   *)
(* is read and are not modelled.                                           *)
(***************************************************************************)
EXTENDS Integers, FiniteSets

CONSTANTS
    Callers,    \* concurrent requests
    Actions,    \* (agent, action fingerprint) pairs
    Counted,    \* the actions that come with countRows
    Issues,     \* tasks assigned to the agent
    MaxCards,   \* bound: confirmation cards ever raised
    MaxRows,    \* bound: rows an action may touch
    MaxClock,   \* bound: the clock
    MaxHops,    \* MAX_SUPERSEDED_HOPS
    TTL,        \* HOLD_TTL_MS, in clock units
    Grace       \* HOLD_GRACE_DAYS, in clock units

ASSUME ConstantsAssumption ==
    /\ Actions # {} /\ Issues # {} /\ Counted \subseteq Actions
    /\ MaxCards \in Nat /\ MaxRows \in Nat /\ MaxClock \in Nat /\ MaxHops \in Nat
    /\ TTL \in Nat \ {0} /\ Grace \in Nat

VARIABLES
    rows,       \* per action: the rows it would touch now
    clock,
    ncards,     \* cards raised so far
    cards,      \* the core's confirmation cards
    holds,      \* kyoube_meta.guardrail_holds, keyed by the card (unique)
    call,       \* per caller: the locals of `check`
    released    \* history, per card: how many times its action ran on it

vars == <<rows, clock, ncards, cards, holds, call, released>>

-----------------------------------------------------------------------------
CardIds == 1..MaxCards
NoCard  == 0                     \* also: no confirmationId, not superseded
NoCount == -1                    \* affected_rows is null

\* "closed" is every resolution that is not an answer (expired, cancelled).
CardStatus == {"none", "pending", "accepted", "rejected", "closed"}

Card == [status: CardStatus, by: {"nobody", "person", "agent"},
         action: Actions, issue: Issues,
         parent: CardIds \cup {NoCard}, rows: Nat \cup {NoCount}]

Hold == [status: {"none", "kept", "purged"}, shown: Nat \cup {NoCount},
         consumed: BOOLEAN, superseded: CardIds \cup {NoCard},
         expires: Nat, born: Nat]

Steps == {"idle", "named", "chain", "live", "card", "recount", "consume",
          "count", "barred", "ask", "raise", "insert",
          "raiseAgain", "insertAgain", "supersede", "run"}

Call == [pc: Steps, action: Actions, issue: Issues, now: Nat,
         hold: CardIds \cup {NoCard},   \* the hold being settled
         named: CardIds \cup {NoCard},  \* # NoCard while settling a named hold
         card: CardIds \cup {NoCard},   \* the card this call has raised
         hops: 0..MaxHops, rows: Nat \cup {NoCount},
         how: {"none", "person", "model"},
         barred: SUBSET CardIds]        \* history: unreleased holds when it began

AnyAction == CHOOSE a \in Actions : TRUE
AnyIssue  == CHOOSE i \in Issues : TRUE

Idle == [pc |-> "idle", action |-> AnyAction, issue |-> AnyIssue, now |-> 0,
         hold |-> NoCard, named |-> NoCard, card |-> NoCard, hops |-> 0,
         rows |-> NoCount, how |-> "none", barred |-> {}]

NoCardYet == [status |-> "none", by |-> "nobody", action |-> AnyAction,
              issue |-> AnyIssue, parent |-> NoCard, rows |-> NoCount]

NoHold == [status |-> "none", shown |-> NoCount, consumed |-> FALSE,
           superseded |-> NoCard, expires |-> 0, born |-> 0]

-----------------------------------------------------------------------------
(* What the queries of holds.ts select.                                    *)

Kept(k) == k \in CardIds /\ holds[k].status = "kept"

\* consumed_at IS NULL AND superseded_by IS NULL
Open(k) == Kept(k) /\ ~holds[k].consumed /\ holds[k].superseded = NoCard

\* findLiveHold's WHERE
LiveHolds(a, i, now) ==
    {k \in CardIds : /\ Open(k)
                     /\ cards[k].action = a /\ cards[k].issue = i
                     /\ holds[k].expires > now}

\* ORDER BY created_at DESC LIMIT 1
IsOldest(k, S) == k \in S /\ \A j \in S : holds[j].born >= holds[k].born  \* mutant: ASC
IsNewest(k, S) == k \in S /\ \A j \in S : holds[j].born <= holds[k].born

\* hasUnreleasedHold's WHERE: any task, and the grace days after expiry
UnreleasedHolds(a, now) ==
    {k \in CardIds : /\ Open(k) /\ cards[k].action = a
                     /\ holds[k].expires > now - Grace}

Births == Cardinality({k \in CardIds : holds[k].status # "none"})

-----------------------------------------------------------------------------
Goto(c, r)  == call' = [call EXCEPT ![c] = r]
At(c, step) == call[c].pc = step
Return(c)   == Goto(c, Idle)     \* the call is refused: held, declined, conflict, ...

core  == <<cards, ncards>>
world == <<rows, clock>>

\* consumeHold's WHERE
UsableTwice(k, now) ==                                  \* mutant: consumed_at not tested
    Kept(k) /\ holds[k].superseded = NoCard /\ holds[k].expires > now
Usable(k, now) == Open(k) /\ holds[k].expires > now

\* settle: the answer is a person's own.
AcceptedByAnyone(k)  == cards[k].status = "accepted"    \* mutant: resolvedBy ignored
AcceptedByPerson(k)  == cards[k].status = "accepted" /\ cards[k].by = "person"

\* settle: the card showed a count (affectedRows !== null).
ShowsPositiveCount(k) == holds[k].shown > 0             \* mutant: 0 taken for null
ShowsCount(k)         == holds[k].shown # NoCount

\* check: a call with a confirmationId follows it, any other looks for a hold.
Start(c, a, i, confirmation) ==
    /\ At(c, "idle")
    /\ Goto(c, [Idle EXCEPT
                  !.action = a, !.issue = i, !.now = clock, !.hold = confirmation,
                  !.pc = IF confirmation # NoCard THEN "named" ELSE "live",
                  !.barred = UnreleasedHolds(a, clock)])
    /\ UNCHANGED <<world, core, holds, released>>

\* check, once namedHold has returned: a used or an expired hold is a
\* conflict, any other is settled.
AfterNamed(c, k) ==
    IF holds[k].consumed \/ holds[k].expires <= call[c].now
    THEN Return(c)
    ELSE Goto(c, [call[c] EXCEPT !.hold = k, !.named = k, !.hops = 0, !.pc = "card"])

Follow(c, k, hops) ==
    IF holds[k].superseded # NoCard /\ hops < MaxHops
    THEN Goto(c, [call[c] EXCEPT !.hold = k, !.hops = hops, !.pc = "chain"])
    ELSE AfterNamed(c, k)

\* namedHold: the confirmationId must be of this agent's exact call and task.
FindNamed(c) ==
    LET k == call[c].hold IN
    /\ At(c, "named")
    /\ IF Kept(k) /\ cards[k].action = call[c].action /\ cards[k].issue = call[c].issue
       THEN Follow(c, k, 0)
       ELSE Return(c)
    /\ UNCHANGED <<world, core, holds, released>>

\* namedHold: one findHold per hop along superseded_by.
FollowChain(c) ==
    LET next == holds[call[c].hold].superseded IN
    /\ At(c, "chain")
    /\ IF Kept(next) THEN Follow(c, next, call[c].hops + 1)
                     ELSE AfterNamed(c, call[c].hold)
    /\ UNCHANGED <<world, core, holds, released>>

\* liveHold(): the newest live hold on this call, unless it is the one that
\* the named path has just found closed.
FindLive(c) ==
    LET L == LiveHolds(call[c].action, call[c].issue, call[c].now) IN
    /\ At(c, "live")
    /\ \/ /\ L = {} \/ IsNewest(call[c].named, L)
          /\ Goto(c, [call[c] EXCEPT !.hold = NoCard, !.named = NoCard, !.pc = "count"])
       \/ \E k \in CardIds \ {call[c].named} :
             /\ IsNewest(k, L)
             /\ Goto(c, [call[c] EXCEPT !.hold = k, !.named = NoCard, !.pc = "card"])
    /\ UNCHANGED <<world, core, holds, released>>

\* settle: what became of the hold's card.
ReadCard(c) ==
    LET k == call[c].hold IN
    /\ At(c, "card")
    /\ \/ /\ cards[k].status # "closed" /\ ~AcceptedByPerson(k)
          /\ Return(c)
       \/ /\ AcceptedByPerson(k)
          /\ Goto(c, [call[c] EXCEPT !.pc =
                        IF ShowsCount(k) /\ call[c].action \in Counted
                        THEN "recount" ELSE "consume"])
       \/ /\ cards[k].status = "closed"
          /\ Goto(c, [call[c] EXCEPT !.hold = NoCard,
                        !.pc = IF call[c].named # NoCard THEN "live" ELSE "count"])
    /\ UNCHANGED <<world, core, holds, released>>

\* settle: more rows than the card showed is "grown", and does not run.
Recount(c) ==
    LET n == rows[call[c].action] IN
    /\ At(c, "recount")
    /\ Goto(c, [call[c] EXCEPT !.rows = n,
                  !.pc = IF n > holds[call[c].hold].shown THEN "raiseAgain" ELSE "consume"])
    /\ UNCHANGED <<world, core, holds, released>>

\* consumeHold: one conditional UPDATE, with the call's own clock.
Consume(c) ==
    LET k == call[c].hold IN
    /\ At(c, "consume")
    /\ IF Usable(k, call[c].now)
       THEN /\ holds' = [holds EXCEPT ![k].consumed = TRUE]
            /\ Goto(c, [call[c] EXCEPT !.pc = "run", !.how = "person"])
       ELSE Return(c) /\ UNCHANGED holds
    /\ UNCHANGED <<world, core, released>>

\* checkOrHold: the row count the question and the card will carry.
CountRows(c) ==
    /\ At(c, "count")
    /\ Goto(c, [call[c] EXCEPT !.pc = "barred",
                  !.rows = IF call[c].action \in Counted THEN rows[call[c].action] ELSE NoCount])
    /\ UNCHANGED <<world, core, holds, released>>

CheckLiveOnly(c) ==  \* mutant: only a live hold on this very task counts
    /\ At(c, "barred")
    /\ Goto(c, [call[c] EXCEPT !.pc =
                  IF LiveHolds(call[c].action, call[c].issue, call[c].now) # {}
                  THEN "raise" ELSE "ask"])
    /\ UNCHANGED <<world, core, holds, released>>

\* checkOrHold: an earlier hold nobody released goes straight to a person.
CheckBarred(c) ==
    /\ At(c, "barred")
    /\ Goto(c, [call[c] EXCEPT !.pc =
                  IF UnreleasedHolds(call[c].action, call[c].now) # {} THEN "raise" ELSE "ask"])
    /\ UNCHANGED <<world, core, holds, released>>

\* decisions.decide: the model passes the action, or it does not, or the
\* check fails (no provider, no budget, switched off): fail closed.
AskModel(c) ==
    /\ At(c, "ask")
    /\ \/ Goto(c, [call[c] EXCEPT !.pc = "run", !.how = "model"])
       \/ Goto(c, [call[c] EXCEPT !.pc = "raise"])
    /\ UNCHANGED <<world, core, holds, released>>

NewCard(c, parent) ==
    [status |-> "pending", by |-> "nobody", action |-> call[c].action,
     issue |-> call[c].issue, parent |-> parent, rows |-> call[c].rows]

\* raise, with a key of its own: always a new card.
Raise(c) ==
    LET k == ncards + 1 IN
    /\ At(c, "raise") /\ k \in CardIds
    /\ ncards' = k
    /\ cards' = [cards EXCEPT ![k] = NewCard(c, NoCard)]
    /\ Goto(c, [call[c] EXCEPT !.pc = "insert", !.card = k])
    /\ UNCHANGED <<world, holds, released>>

WithHoldBackdated(k, shown) ==  \* mutant: the lifetime is taken off the clock
    IF holds[k].status = "kept" THEN holds
    ELSE [holds EXCEPT ![k] = [NoHold EXCEPT !.status = "kept", !.shown = shown,
                                 !.expires = clock - TTL, !.born = Births + 1]]
\* createHold: ON CONFLICT (company_id, card_id) DO NOTHING.
WithHold(k, shown) ==
    IF holds[k].status = "kept" THEN holds
    ELSE [holds EXCEPT ![k] = [NoHold EXCEPT !.status = "kept", !.shown = shown,
                                 !.expires = clock + TTL, !.born = Births + 1]]

Insert(c) ==
    /\ At(c, "insert")
    /\ holds' = WithHold(call[c].card, call[c].rows)
    /\ Return(c)
    /\ UNCHANGED <<world, core, released>>

\* askAgain: the key is (old hold, new count), so the core hands back the card
\* a racing or repeated retry has already raised.
SameKey(c) == {k \in CardIds : /\ cards[k].status # "none"
                               /\ cards[k].parent = call[c].hold
                               /\ cards[k].rows = call[c].rows}

RaiseAgain(c) ==
    /\ At(c, "raiseAgain")
    /\ \/ \E k \in SameKey(c) :
            /\ Goto(c, [call[c] EXCEPT !.pc = "insertAgain", !.card = k])
            /\ UNCHANGED core
       \/ /\ SameKey(c) = {} /\ ncards + 1 \in CardIds
          /\ ncards' = ncards + 1
          /\ cards' = [cards EXCEPT ![ncards + 1] = NewCard(c, call[c].hold)]
          /\ Goto(c, [call[c] EXCEPT !.pc = "insertAgain", !.card = ncards + 1])
    /\ UNCHANGED <<world, holds, released>>

InsertAgain(c) ==
    /\ At(c, "insertAgain")
    /\ holds' = WithHold(call[c].card, call[c].rows)
    /\ Goto(c, [call[c] EXCEPT !.pc = "supersede"])
    /\ UNCHANGED <<world, core, released>>

\* supersedeHold: one conditional UPDATE, then the call is held.
Supersede(c) ==
    LET k == call[c].hold IN
    /\ At(c, "supersede")
    /\ holds' = IF Open(k) THEN [holds EXCEPT ![k].superseded = call[c].card] ELSE holds
    /\ Return(c)
    /\ UNCHANGED <<world, core, released>>

\* check has returned: DataService goes on to make the change.
Run(c) ==
    LET k == call[c].hold IN
    /\ At(c, "run")
    /\ released' = IF call[c].how = "person" THEN [released EXCEPT ![k] = @ + 1] ELSE released
    /\ Return(c)
    /\ UNCHANGED <<world, core, holds>>

\* Any await may reject, and the worker may restart: the call is gone.
Fail(c) ==
    /\ ~At(c, "idle")
    /\ Return(c)
    /\ UNCHANGED <<world, core, holds, released>>

-----------------------------------------------------------------------------
(* The rest of the world.                                                  *)

\* The core resolves a card once and for good.
Resolve(k, status, by) ==
    /\ cards[k].status = "pending"
    /\ by = "nobody" <=> status = "closed"
    /\ cards' = [cards EXCEPT ![k].status = status, ![k].by = by]
    /\ UNCHANGED <<world, ncards, holds, call, released>>

SetRows(a, n) ==
    /\ a \in Counted /\ rows[a] # n
    /\ rows' = [rows EXCEPT ![a] = n]
    /\ UNCHANGED <<clock, core, holds, call, released>>

\* A unit of the clock is hours, a request seconds: it spans at most one tick.
Tick ==
    /\ clock < MaxClock
    /\ \A c \in Callers : At(c, "idle") \/ call[c].now = clock
    /\ clock' = clock + 1
    /\ UNCHANGED <<rows, core, holds, call, released>>

PurgeableOpen(k) ==                                     \* mutant: spares the replaced
    Kept(k) /\ holds[k].superseded = NoCard /\ holds[k].expires < clock - Grace
Purgeable(k) == Kept(k) /\ holds[k].expires < clock - Grace

\* purgeGuardrailHolds, from the nightly job.
Purge ==
    LET old == {k \in CardIds : Purgeable(k)} IN
    /\ old # {}
    /\ holds' = [k \in CardIds |->
                   IF k \in old THEN [holds[k] EXCEPT !.status = "purged"] ELSE holds[k]]
    /\ UNCHANGED <<world, core, call, released>>

-----------------------------------------------------------------------------
Init ==
    /\ rows = [a \in Actions |-> 0]
    /\ clock = 0
    /\ ncards = 0
    /\ cards = [k \in CardIds |-> NoCardYet]
    /\ holds = [k \in CardIds |-> NoHold]
    /\ call = [c \in Callers |-> Idle]
    /\ released = [k \in CardIds |-> 0]

Begin(c) == \E a \in Actions, i \in Issues, k \in 0..ncards : Start(c, a, i, k)

Proceed(c) ==
    \/ FindNamed(c) \/ FollowChain(c) \/ FindLive(c) \/ ReadCard(c)
    \/ Recount(c) \/ Consume(c) \/ CountRows(c) \/ CheckBarred(c) \/ AskModel(c)
    \/ Raise(c) \/ Insert(c) \/ RaiseAgain(c) \/ InsertAgain(c) \/ Supersede(c)
    \/ Run(c)

Environment ==
    \/ \E k \in CardIds, s \in {"accepted", "rejected", "closed"},
          by \in {"nobody", "person", "agent"} : Resolve(k, s, by)
    \/ \E a \in Actions, n \in 0..MaxRows : SetRows(a, n)
    \/ Tick \/ Purge

Next ==
    \/ \E c \in Callers : Begin(c) \/ Proceed(c) \/ Fail(c)
    \/ Environment

Spec == Init /\ [][Next]_vars

-----------------------------------------------------------------------------
(* Correctness.                                                            *)

\* Every variable holds what the code's types and columns allow.
TypeOK ==
    /\ rows \in [Actions -> 0..MaxRows]
    /\ clock \in 0..MaxClock
    /\ ncards \in 0..MaxCards
    /\ cards \in [CardIds -> Card]
    /\ holds \in [CardIds -> Hold]
    /\ call \in [Callers -> Call]
    /\ released \in [CardIds -> Nat]

\* c is past `check` because a person allowed card k.
RunsOn(c, k) == At(c, "run") /\ call[c].how = "person" /\ call[c].hold = k

\* A person's answer runs its action at most once, whatever retries race for
\* it, with the confirmationId or without (consumeHold).
OneRunPerApproval ==
    \A k \in CardIds :
        /\ released[k] <= 1
        /\ \A c \in Callers : RunsOn(c, k) =>
              /\ released[k] = 0
              /\ \A d \in Callers : RunsOn(d, k) => d = c

\* Nothing runs on a card that a person did not accept, and what runs is the
\* call the card showed, for the task it was raised on, also when the call
\* was reached through the chain of replaced cards (namedHold, settle).
RunsWhatAPersonAllowed ==
    /\ \A k \in CardIds : released[k] > 0 =>
          cards[k].status = "accepted" /\ cards[k].by = "person"
    /\ \A c \in Callers, k \in CardIds : RunsOn(c, k) =>
          /\ cards[k].status = "accepted" /\ cards[k].by = "person"
          /\ cards[k].action = call[c].action
          /\ cards[k].issue = call[c].issue

\* The count this call took just before it used the hold up is no larger than
\* the one the person saw (settle's "grown").
RunsNoMoreRowsThanShown ==
    \A c \in Callers, k \in CardIds :
        RunsOn(c, k) /\ call[c].action \in Counted =>
            0 <= call[c].rows /\ call[c].rows <= holds[k].shown

\* The model never releases an action that had an open hold when the call
\* began: that hold was used or replaced meanwhile (hasUnreleasedHold).
ModelReleasesNothingHeld ==
    \A c \in Callers : At(c, "run") /\ call[c].how = "model" =>
        \A k \in call[c].barred : ~Open(k)

\* A replaced hold leads on, to a hold that is still there, on the same call
\* and with more rows: an old confirmationId never ends in nothing while it
\* is itself kept (askAgain, purgeGuardrailHolds).
ReplacementIsKept ==
    \A k \in CardIds : Kept(k) /\ holds[k].superseded # NoCard =>
        LET s == holds[k].superseded IN
        /\ s > k /\ Kept(s)
        /\ cards[s].action = cards[k].action /\ cards[s].issue = cards[k].issue
        /\ holds[s].shown > holds[k].shown

\* A retry of a held call raises no second card: one that began while the
\* call's card waited for a person reaches `raise` only if a newer hold on
\* the same call exists (a race had raised two).
RetryRaisesNoSecondCard ==
    \A c \in Callers : At(c, "raise") =>
        \A k \in call[c].barred :
            /\ Open(k) /\ cards[k].status = "pending"
            /\ cards[k].issue = call[c].issue /\ holds[k].expires > call[c].now
            => \E j \in CardIds : /\ holds[j].born > holds[k].born
                                  /\ cards[j].action = call[c].action
                                  /\ cards[j].issue = call[c].issue

\* What the guardrail promises (Approvals): each card a person allowed is
\* spent at most once, and nothing is spent that no person allowed.
Gate == INSTANCE Approvals WITH
            Cards   <- CardIds,
            asked   <- {k \in CardIds : cards[k].status # "none"},
            allowed <- {k \in CardIds : AcceptedByPerson(k)},
            spent   <- released

ImplementsApprovals == Gate!Spec

\* docs/decisions.md: while a hold on the action is unused, only a person
\* releases it.
OnlyAPersonReleasesAHeldAction ==
    \A c \in Callers : At(c, "run") /\ call[c].how = "model" =>
        UnreleasedHolds(call[c].action, clock) = {}
=============================================================================
