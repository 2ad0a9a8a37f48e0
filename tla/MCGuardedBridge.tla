-------------------------- MODULE MCGuardedBridge --------------------------
(***************************************************************************)
(* The two things an app's call passes before it reaches the data, the     *)
(* bridge from its frame and the guardrail, share no state: a behaviour is *)
(* about one of them.  While it is about the bridge, nobody calls the      *)
(* guardrail; while it is about the guardrail, the variables of the bridge *)
(* are off.                                                                *)
(***************************************************************************)
EXTENDS MCGuardrail, AppBridge

VARIABLE focus      \* the guardrail, or which calls of the frame

Elsewhere == "off"

BridgeOff == /\ tick = Elsewhere /\ page = Elsewhere /\ mount = Elsewhere /\ guard = Elsewhere /\ posts = Elsewhere
             /\ ask = Elsewhere /\ save = Elsewhere /\ diary = Elsewhere

\* Time passes as far as it matters: to floods of requests, opens of tasks, saves.
LastTick == [rates |-> MaxTick, opens |-> 4, saves |-> 3, page |-> 0]

BridgedInit ==
    /\ focus \in {"guardrail"} \cup DOMAIN LastTick
    /\ Init
    /\ IF focus = "guardrail" THEN BridgeOff ELSE BridgeInit

\* A flood comes call by call; a frame has one call of its own under way at a connection.
Focused(c, k) ==
    \/ focus = "rates" /\ k = "toast" /\ \A d \in Calls \ {c} : ask[d] = Unasked
    \/ focus = "opens" /\ (k = "open" \/ (k \in {"invalid", "data", "decision"} /\ tick = 0))
    \/ focus = "saves" /\ k = "download"
    \/ focus = "page"  /\ k = "connection" /\ \A d \in Calls \ {c} : ask[d].mount # mount.id

FrameNext ==
    \/ \E c \in Calls, k \in Kinds, n \in Links \cup {Nobody_} : Focused(c, k) /\ SdkCall(c, k, n)
    \/ HandlesPost \/ CallNext \/ SaveNext
    \/ tick < LastTick[focus] /\ TickPasses
    \/ focus # "page" /\ \E v \in page.loading : RuntimeAnswers(v)
    \/ focus = "saves" /\ Reload
    \/ focus = "page" /\ (Publish \/ Reload \/ FrameLoads \/ Navigates \/ Runtime)
    \/ focus = "page" /\ diary.ran["request"] = <<>> /\ (PostsBare \/ PostsHello)

BridgedNext ==
    /\ UNCHANGED focus
    /\ \/ focus = "guardrail" /\ Next /\ UNCHANGED bridgeVars
       \/ focus # "guardrail" /\ FrameNext /\ UNCHANGED vars

BridgedSpec == BridgedInit /\ [][BridgedNext]_<<focus, vars, bridgeVars>>

CONSTANTS a1, a2
CallPair == {a1, a2}
CallsAlike == Permutations(CallPair)

\* How many of each kind a window takes
Few == [request |-> 2, toast |-> 1, decision |-> 1, connection |-> 2, download |-> 2]

\* A frame gets no more than its rates and is stopped only for looping, a stop is final, a
\* document hears its own context, a save is told as it went, and a connection found off is
\* told of once (ui/apps/bridge.ts, AppRunner.tsx, download.ts).
FramesAreBridged ==
    focus # "guardrail" =>
        /\ BridgeTypeOK /\ RatesAreKept /\ StoppedWhenLooping /\ StopIsFinal /\ ContextIsItsOwn
        /\ SavesAreTold /\ WarnedOnce
=============================================================================
