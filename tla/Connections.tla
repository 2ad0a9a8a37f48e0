---------------------------- MODULE Connections ----------------------------
(***************************************************************************)
(* Calls to an external API: `ConnectionService` (kyoube-apps/src/         *)
(* connections/service.ts) and the secret cache it reads through (secrets/ *)
(* cache.ts), for one connection of one company.                           *)
(*                                                                         *)
(* The connection's settings live in the core and name a base URL and a    *)
(* secret; both are versions here.  A person saves the settings, and the   *)
(* core tells the worker a moment later; the secret's value may change     *)
(* behind its name at any time.  The code up to the next await, with every *)
(* continuation a settled promise wakes, is one action.  A call is modelled *)
(* until its request leaves; its answer and its audit row change nothing   *)
(* that another call sees.                                                 *)
(***************************************************************************)
EXTENDS Integers, FiniteSets

CONSTANTS
    Requests,       \* calls and availability checks in flight
    Lookups,        \* bound: secret lookups asked of the core at once
    Ttl,            \* SECRET_CACHE_MS: a value is kept, and a check backs off, this long
    CallRetry,      \* SECRET_CALL_RETRY_MS: a call backs off this long
    RpcTimeout,     \* the core answers a lookup, or it fails, within this
    MaxSaves,       \* bound: times the settings are saved
    MaxRotations,   \* bound: times a secret's value changes, of one settings
    MaxTime         \* bound: the clock

NoLookup == "none"

ASSUME ConnectionsAssumption ==
    /\ NoLookup \notin Lookups
    /\ {Ttl, CallRetry, RpcTimeout, MaxSaves, MaxRotations, MaxTime} \subseteq Nat
    /\ CallRetry <= Ttl /\ RpcTimeout < Ttl

VARIABLES
    setting,        \* the saved settings, as a number; the worker has been told of `told`
    secret,         \* each settings' secret: how often its value has changed
    cached,         \* SecretCache.values
    inflight,       \* SecretCache.inflight: a lookup, or none
    lookup,         \* the lookups under way
    failure,        \* ConnectionService.failures
    generation,     \* generation(): the saves the worker has been told of
    request,        \* the locals of call and availability
    time,
    served          \* history: values at the last save, when they changed, failures

connectionVars == <<setting, secret, cached, inflight, lookup, failure, generation,
                    request, time, served>>

-----------------------------------------------------------------------------
Settings  == 1..(MaxSaves + 1)
Changes   == 0..MaxRotations
Times     == 0..MaxTime
NoValue   == [of |-> 0, change |-> 0]
ValueOf   == [of: 0..(MaxSaves + 1), change: Changes]

\* expires and the two back-offs count from the clock, so they may pass MaxTime.
Deadlines == 0..(MaxTime + Ttl)
Entry     == [value: ValueOf, expires: Deadlines]
Running   == [pc: {"idle", "asked", "read"}, of: 0..(MaxSaves + 1), generation: 0..MaxSaves,
              started: Times, value: ValueOf]
Failing   == [availableUntil: Deadlines, callUntil: Deadlines]
Request   == [pc: {"idle", "secret", "send"}, kind: {"check", "call"}, of: 0..(MaxSaves + 1),
              waits: Lookups \cup {NoLookup}, generation: 0..MaxSaves, value: ValueOf,
              floor: Changes,       \* history: the value at the last save it was after
              oldest: Changes]      \* history: the oldest value not replaced Ttl before

NotCached   == [value |-> NoValue, expires |-> 0]
NotRunning  == [pc |-> "idle", of |-> 0, generation |-> 0, started |-> 0, value |-> NoValue]
NotFailing  == [availableUntil |-> 0, callUntil |-> 0]
NotAsking   == [pc |-> "idle", kind |-> "check", of |-> 0, waits |-> NoLookup,
                generation |-> 0, value |-> NoValue, floor |-> 0, oldest |-> 0]

At(r, step)    == request[r].pc = step

-----------------------------------------------------------------------------
(* The core: settings, secrets, and the time                               *)

SaveSettings ==
    /\ setting < MaxSaves + 1
    /\ setting' = setting + 1
    /\ UNCHANGED <<secret, cached, inflight, lookup, failure, generation, request, time, served>>

\* onConfigChanged: both invalidate methods, in one turn.
ConfigChanged ==
    /\ generation < setting - 1
    /\ generation' = generation + 1
    /\ cached' = NotCached
    /\ inflight' = NoLookup
    /\ failure' = NotFailing
    /\ served' = [served EXCEPT !.floor = secret, !.failed = [s \in Settings |-> 0]]
    /\ UNCHANGED <<setting, secret, lookup, request, time>>

RotateSecret(s) ==
    /\ secret[s] < MaxRotations /\ \A q \in Settings \ {s} : secret[q] = 0
    /\ secret' = [secret EXCEPT ![s] = @ + 1]
    /\ served' = [served EXCEPT !.changed[s][secret[s] + 1] = time]
    /\ UNCHANGED <<setting, cached, inflight, lookup, failure, generation, request, time>>

PassTime ==
    /\ time < MaxTime
    /\ \A l \in Lookups : lookup[l].pc # "idle" => time < lookup[l].started + RpcTimeout
    /\ time' = time + 1
    /\ UNCHANGED <<setting, secret, cached, inflight, lookup, failure, generation, request, served>>

CoreReads(l) ==
    /\ lookup[l].pc = "asked"
    /\ lookup' = [lookup EXCEPT ![l].pc = "read",
                        ![l].value = [of |-> lookup[l].of, change |-> secret[lookup[l].of]]]
    /\ UNCHANGED <<setting, secret, cached, inflight, failure, generation, request, time, served>>

-----------------------------------------------------------------------------
(* SecretCache.get and lookup, lookupSecret                                *)

\* A call checks its caller between the settings and the secret, an await.
ReadConfig(r, kind) ==
    /\ At(r, "idle")
    /\ request' = [request EXCEPT ![r] = [NotAsking EXCEPT
                        !.pc = "secret", !.kind = kind, !.of = setting]]
    /\ UNCHANGED <<setting, secret, cached, inflight, lookup, failure, generation, time, served>>

Asking(r) == At(r, "secret") /\ request[r].waits = NoLookup

BacksOff(r) ==
    LET until == IF request[r].kind = "check" THEN failure.availableUntil ELSE failure.callUntil
    IN until > time

Fresh(r) == cached.value.of = request[r].of /\ cached.expires > time

\* Once its secret is known a check is over and a call goes on.
AfterSecret(q) ==
    IF q.kind = "check" THEN NotAsking ELSE [q EXCEPT !.pc = "send", !.waits = NoLookup]

BackOff(r) ==
    /\ Asking(r) /\ BacksOff(r)
    /\ request' = [request EXCEPT ![r] = NotAsking]
    /\ UNCHANGED <<setting, secret, cached, inflight, lookup, failure, generation, time, served>>

\* A request that turns to the cache now.
Turned(r) ==
    LET s == request[r].of IN
    [request[r] EXCEPT !.generation = generation, !.floor = served.floor[s],
        !.oldest = CHOOSE n \in 0..secret[s] :
                      /\ n = secret[s] \/ served.changed[s][n + 1] + Ttl > time
                      /\ \A k \in 0..(n - 1) : served.changed[s][k + 1] + Ttl <= time]

FindCached(r) ==
    /\ Asking(r) /\ ~BacksOff(r) /\ Fresh(r)
    /\ request' = [request EXCEPT ![r] = AfterSecret([Turned(r) EXCEPT !.value = cached.value])]
    /\ failure' = NotFailing
    /\ UNCHANGED <<setting, secret, cached, inflight, lookup, generation, time, served>>

Joinable(r) ==
    /\ inflight # NoLookup
    /\ lookup[inflight].of = request[r].of
    /\ lookup[inflight].generation = generation

JoinLookup(r) ==
    /\ Asking(r) /\ ~BacksOff(r) /\ ~Fresh(r) /\ Joinable(r)
    /\ request' = [request EXCEPT ![r] = [Turned(r) EXCEPT !.waits = inflight]]
    /\ UNCHANGED <<setting, secret, cached, inflight, lookup, failure, generation, time, served>>

StartLookup(r) ==
    \E l \in Lookups :
        /\ Asking(r) /\ ~BacksOff(r) /\ ~Fresh(r) /\ ~Joinable(r)
        /\ lookup[l].pc = "idle"
        /\ lookup' = [lookup EXCEPT ![l] = [NotRunning EXCEPT !.pc = "asked",
                            !.of = request[r].of, !.generation = generation, !.started = time]]
        /\ inflight' = l
        /\ request' = [request EXCEPT ![r] = [Turned(r) EXCEPT !.waits = l]]
        /\ served' = [served EXCEPT !.pressed = @ \/ time < served.failed[request[r].of]]
        /\ UNCHANGED <<setting, secret, cached, failure, generation, time>>

Settled(l) ==
    /\ lookup' = [lookup EXCEPT ![l] = NotRunning]
    /\ inflight' = IF inflight = l THEN NoLookup ELSE inflight

\* The generation of the lookup for the cache, of each waiter for the
\* failures: what changed meanwhile keeps neither.
FillsAnyway(l)  == TRUE  \* mutant: a lookup fills the cache whatever happened meanwhile
StillCurrent(l) == lookup[l].generation = generation
Waiting(l)      == {r \in Requests : request[r].waits = l}
WaitingNow(l)   == {r \in Waiting(l) : request[r].generation = generation}

Expires(l)      == lookup[l].started + Ttl

LookupAnswers(l) ==
    /\ lookup[l].pc = "read"
    /\ cached' = IF StillCurrent(l)
                 THEN [value |-> lookup[l].value, expires |-> Expires(l)]
                 ELSE cached
    /\ failure' = IF WaitingNow(l) # {} THEN NotFailing ELSE failure
    /\ request' = [r \in Requests |->
                    IF r \in Waiting(l)
                    THEN AfterSecret([request[r] EXCEPT !.value = lookup[l].value])
                    ELSE request[r]]
    /\ served' = [served EXCEPT !.failed =
                    IF lookup[l].generation = generation THEN [s \in Settings |-> 0] ELSE @]
    /\ Settled(l)
    /\ UNCHANGED <<setting, secret, generation, time>>

\* The core refuses, is rate limited, or does not answer in time.
LookupFails(l, limited) ==
    /\ lookup[l].pc # "idle"
    /\ failure' = IF WaitingNow(l) = {} THEN failure
                  ELSE [availableUntil |-> time + (IF limited THEN CallRetry ELSE Ttl),
                        callUntil |-> time + CallRetry]
    /\ request' = [r \in Requests |->
                    IF r \in Waiting(l) THEN NotAsking ELSE request[r]]
    /\ served' = [served EXCEPT !.failed[lookup[l].of] =
                    IF lookup[l].generation = generation THEN time + CallRetry ELSE @]
    /\ Settled(l)
    /\ UNCHANGED <<setting, secret, cached, generation, time>>

-----------------------------------------------------------------------------
\* The guardrail, an await, has let the call pass and its time is not spent.
Fetch(r) ==
    /\ At(r, "send")
    /\ request' = [request EXCEPT ![r] = NotAsking]
    /\ UNCHANGED <<setting, secret, cached, inflight, lookup, failure, generation, time, served>>

\* authorise or the guardrail refuses, or the time is spent.
CallFails(r) ==
    /\ At(r, "send") \/ (Asking(r) /\ request[r].kind = "call")
    /\ request' = [request EXCEPT ![r] = NotAsking]
    /\ UNCHANGED <<setting, secret, cached, inflight, lookup, failure, generation, time, served>>

-----------------------------------------------------------------------------
ConnectionsInit ==
    /\ setting = 1
    /\ secret = [s \in Settings |-> 0]
    /\ cached = NotCached /\ inflight = NoLookup /\ failure = NotFailing
    /\ lookup = [l \in Lookups |-> NotRunning]
    /\ generation = 0 /\ time = 0
    /\ request = [r \in Requests |-> NotAsking]
    /\ served = [floor |-> [s \in Settings |-> 0], failed |-> [s \in Settings |-> 0],
                 changed |-> [s \in Settings |-> [n \in Changes |-> 0]],
                 pressed |-> FALSE]

CoreStep ==
    \/ SaveSettings \/ ConfigChanged \/ PassTime
    \/ \E s \in Settings : RotateSecret(s)
    \/ \E l \in Lookups : CoreReads(l) \/ LookupAnswers(l) \/ LookupFails(l, TRUE) \/ LookupFails(l, FALSE)

RequestStep(r) ==
    \/ ReadConfig(r, "check") \/ ReadConfig(r, "call")
    \/ BackOff(r) \/ FindCached(r) \/ JoinLookup(r) \/ StartLookup(r)
    \/ Fetch(r) \/ CallFails(r)

ConnectionsNext == CoreStep \/ \E r \in Requests : RequestStep(r)

ConnectionsSpec == ConnectionsInit /\ [][ConnectionsNext]_connectionVars

-----------------------------------------------------------------------------
ConnectionsTypeOK ==
    /\ setting \in Settings /\ generation \in 0..MaxSaves /\ time \in Times
    /\ secret \in [Settings -> Changes]
    /\ cached \in Entry /\ inflight \in Lookups \cup {NoLookup} /\ failure \in Failing
    /\ lookup \in [Lookups -> Running]
    /\ request \in [Requests -> Request]

\* A call that has its secret and may still send it.
HasSecret == {r \in Requests : At(r, "send")}

\* What goes out to a service is the secret of the very settings that name
\* the service, although the cache has one slot for the connection's name and
\* lookups of the old and the new settings cross (SecretCache.get, lookup).
SecretOfItsSettings == \A r \in HasSecret : request[r].value.of = request[r].of

\* "Saving the settings applies at once": a call that turns to the cache after
\* the worker was told uses no value the core gave out before, also when a
\* lookup was under way (invalidate, the generation of a lookup).
SavedSettingsApplyAtOnce ==
    \A r \in HasSecret : request[r].value.change >= request[r].floor

\* "A rotated secret takes effect within 60 seconds": no call turns to the
\* cache and gets a value that was replaced Ttl ago, also from a lookup it
\* joined or one that was slow (expires counts from the lookup's start).
RotationTakesEffect ==
    \A r \in HasSecret : request[r].value.change >= request[r].oldest

\* After a failed lookup of a secret nothing asks the core for it again for
\* CallRetry, unless a lookup succeeds or the settings are saved: calls and
\* checks share what they learnt, also those that were waiting together.
BrokenSecretIsLeftAlone == ~served.pressed
=============================================================================
