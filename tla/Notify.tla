------------------------------- MODULE Notify -------------------------------
(***************************************************************************)
(* Push notifications (kyoube-notify): who owns which device, kept by      *)
(* `NotifyStore` in the core's plugin state, and which events of the core  *)
(* become notices, decided by `Notifier` and routing.ts.                   *)
(*                                                                         *)
(* The worker handles everything concurrently; the store runs its          *)
(* read-modify-write sections one at a time.  Every call to the core may   *)
(* fail, and the worker may restart between any two.  A behaviour is about *)
(* the devices or about the events (`scene`): they share only the queue.   *)
(* Sending to a person's devices is the scene "devices".                   *)
(***************************************************************************)
EXTENDS Integers, FiniteSets, SequencesExt

CONSTANTS
    People, Devices,
    Errands,        \* requests and event handlers under way
    MaxDevices,     \* MAX_DEVICES
    RecentEvents,   \* RECENT_EVENTS
    Window,         \* FAILURE_WINDOW_MS
    MaxErrands,     \* bound: requests of the scene "devices"
    MaxNews,        \* bound: events of the core
    MaxHour         \* bound: the clock

ASSUME NotifyAssumption ==
    /\ MaxDevices \in Nat \ {0} /\ RecentEvents \in Nat \ {0} /\ Window \in Nat \ {0}
    /\ Cardinality(People) >= 2 /\ MaxErrands \in Nat /\ MaxNews \in Nat /\ MaxHour \in Nat
    /\ "nobody" \notin People

VARIABLES
    scene,          \* what this behaviour is about
    listed,         \* subs:<user>, a person's devices
    owner,          \* endpoint-owner:<device>
    errand,         \* the locals of each request or handler
    core,           \* the task, its question and the members, as the core has them
    news,           \* the core's events, with how often each was delivered
    recent,         \* the worker's memory of events, recent and recentSet
    kept,           \* issue-status, seen-interaction, throttle
    told            \* history

notifyVars == <<scene, listed, owner, errand, core, news, recent, kept, told>>
deviceVars == <<listed, owner>>
newsVars   == <<core, news, recent, kept>>

-----------------------------------------------------------------------------
Nobody == "nobody"
Nil    == "null"
Never  == -1

Sections  == {"leaving", "owning", "rereading", "saving", "releasing",      \* inside `exclusive`
              "swapping", "asking", "throttling"}
NoErrand == [at |-> "idle", kind |-> Nil, who |-> Nobody, device |-> Nil, list |-> <<>>,
             outcome |-> <<>>, release |-> {}, event |-> 0, status |-> Nil, asOf |-> 0, stored |-> Nil]

\* `exclusive`: a section begins when no other is under way.
TurnFree == \A c \in Errands : errand[c].at \notin Sections
To(c, at) == errand' = [errand EXCEPT ![c].at = at]
Done(c)   == errand' = [errand EXCEPT ![c] = NoErrand]
Without(list, gone) ==
    LET upTo[i \in 0..Len(list)] ==
            IF i = 0 THEN <<>>
            ELSE IF list[i] \in gone THEN upTo[i - 1] ELSE Append(upTo[i - 1], list[i])
    IN  upTo[Len(list)]

-----------------------------------------------------------------------------
(* Routing: whom a notice is for                                           *)

Active(members) == {p \in People : members[p].status = "active"}
Only(members, people, actor) == (people \cap Active(members)) \ {actor}
OpenAgentQuestion(q) == q.open /\ q.to # "agent"
AskRecipients(q, issue, members) ==
    IF q.to # Nobody THEN Only(members, {q.to}, Nobody)
    ELSE IF issue.creator \in Active(members) THEN {issue.creator}
    ELSE Only(members, {issue.assignee}, Nobody)
TaskOwners(issue, members, actor) == Only(members, {issue.creator, issue.assignee}, actor)
FailureRecipients(members) ==
    {p \in Active(members) : members[p].role \in {"owner", "admin"} /\ members[p].failures}
ApprovalRecipients(members, actor) ==
    {p \in Active(members) : members[p].role # "viewer"} \ {actor}
StatusTransition(status, previous) ==
    status \in {"done", "blocked"} /\ previous \notin {Nil, status}

\* sendPush: one retry for what may pass; a network error is "error".
SendOutcome(first, second) ==
    CASE first = "accepted" -> "delivered"
      [] first \in {"404", "410"} -> "gone"
      [] first \in {"429", "500", "error"} /\ second = "accepted" -> "delivered"
      [] first \in {"429", "500", "error"} /\ second \in {"404", "410"} -> "gone"
      [] OTHER -> "failed"
Outcomes == {SendOutcome(a, b) : a, b \in {"accepted", "404", "410", "429", "500", "403", "error"}}

-----------------------------------------------------------------------------
(* Devices                                                                 *)

Begin(c, begun) ==
    /\ scene = "devices" /\ errand[c].at = "idle" /\ told.errands < MaxErrands
    /\ errand' = [errand EXCEPT ![c] = begun]
    /\ told' = [told EXCEPT !.errands = @ + 1]
    /\ UNCHANGED <<scene, deviceVars, newsVars>>

\* notify.subscribe and notify.unsubscribe.
Subscribe(c, p, d) ==
    Begin(c, [NoErrand EXCEPT !.at = "queued", !.kind = "add", !.who = p, !.device = d])
Unsubscribe(c, p, d) ==
    Begin(c, [NoErrand EXCEPT !.at = "queued", !.kind = "remove", !.who = p, !.device = d])

\* deliver, for one of its people, and notify.test: the devices are read outside the queue.
Deliver(c, p) ==
    /\ listed[p] # <<>>
    /\ \E list \in {listed[p]} \cup {<<d>> : d \in ToSet(listed[p])} :
          Begin(c, [NoErrand EXCEPT !.at = "sending", !.kind = "record", !.who = p, !.list = list])

\* Every send has come back with its outcome; applyOutcomes is called.
Sent(c) ==
    /\ errand[c].at = "sending"
    /\ \E outcome \in [ToSet(errand[c].list) -> Outcomes] :
          errand' = [errand EXCEPT ![c].at = "queued", ![c].outcome = outcome]
    /\ UNCHANGED <<scene, deviceVars, newsVars, told>>

\* The first read of addDevice, removeDevice, applyOutcomes.
SectionBegins(c) ==
    LET e == errand[c] IN
    /\ scene = "devices" /\ e.at = "queued" /\ TurnFree
    /\ errand' = [errand EXCEPT ![c] =
          IF e.kind = "add"
          THEN [e EXCEPT !.at = IF owner[e.device] \in {Nobody, e.who} THEN "owning" ELSE "leaving"]
          ELSE IF e.kind = "remove" /\ ~Contains(listed[e.who], e.device) THEN NoErrand
          ELSE [e EXCEPT !.at = "saving", !.list = listed[e.who]]]
    /\ UNCHANGED <<scene, deviceVars, newsVars, told>>

\* A shared browser leaves the list of the person who had it.
LeavePrevious(c) ==
    LET e == errand[c]  previous == owner[e.device] IN
    /\ e.at = "leaving"
    /\ listed' = [listed EXCEPT ![previous] = Without(@, {e.device})]
    /\ To(c, "owning")
    /\ told' = [told EXCEPT !.enrolled = @ \ {<<previous, e.device>>}]
    /\ UNCHANGED <<scene, owner, newsVars>>

Own(c) ==
    /\ errand[c].at = "owning"
    /\ owner' = [owner EXCEPT ![errand[c].device] = errand[c].who]
    /\ To(c, "rereading")
    /\ UNCHANGED <<scene, listed, newsVars, told>>

Reread(c) ==
    /\ errand[c].at = "rereading"
    /\ errand' = [errand EXCEPT ![c].at = "saving", ![c].list = listed[errand[c].who]]
    /\ UNCHANGED <<scene, deviceVars, newsVars, told>>

\* What a section writes, and which devices it lets go.
GoneDevices(e) == {d \in DOMAIN e.outcome : e.outcome[d] = "gone"}
Saved(e) ==
    CASE e.kind = "add"    -> LET all  == Append(Without(e.list, {e.device}), e.device)
                                  over == IF Len(all) > MaxDevices THEN Len(all) - MaxDevices ELSE 0
                              IN  [list |-> SubSeq(all, over + 1, Len(all)),
                                   drop |-> ToSet(SubSeq(all, 1, over))]
      [] e.kind = "remove" -> [list |-> Without(e.list, {e.device}), drop |-> {e.device}]
      [] e.kind = "record" -> [list |-> Without(e.list, GoneDevices(e)), drop |-> GoneDevices(e)]

Save(c) ==
    LET e == errand[c]  saved == Saved(e)
        mine == {<<e.who, d>> : d \in saved.drop}
        made == IF e.kind = "add" THEN {<<e.who, e.device>>} ELSE {} IN
    /\ e.at = "saving"
    /\ listed' = [listed EXCEPT ![e.who] = saved.list]
    /\ IF saved.drop = {} THEN Done(c)
       ELSE errand' = [errand EXCEPT ![c].at = "releasing", ![c].release = saved.drop]
    /\ told' = [told EXCEPT !.enrolled = (@ \ mine) \cup made]
    /\ UNCHANGED <<scene, owner, newsVars>>

\* releaseOwner: only if it is still this person's.
ReleaseOwner(c) ==
    LET e == errand[c] IN
    /\ e.at = "releasing"
    /\ \E d \in e.release :
         /\ owner' = [owner EXCEPT ![d] = IF @ = e.who THEN Nobody ELSE @]
         /\ IF e.release = {d} THEN Done(c)
            ELSE errand' = [errand EXCEPT ![c].release = @ \ {d}]
    /\ UNCHANGED <<scene, listed, newsVars, told>>

-----------------------------------------------------------------------------
(* Events                                                                  *)

News == [type: {"updated", "commented", "failed", "approval"}, previous: {"todo", "done", "blocked", Nil},
         delivered: 0..2]

Happens(type, previous) ==
    /\ scene = "events" /\ Len(news) < MaxNews
    /\ news' = Append(news, [type |-> type, previous |-> previous, delivered |-> 0])
    /\ UNCHANGED <<scene, deviceVars, errand, recent, kept>>

\* The core: the task moves (with or without telling from where), is commented
\* on, an agent asks, a run fails, an approval is raised or decided.
TaskMoves(status) ==
    /\ status # core.status
    /\ core' = [core EXCEPT !.status = status, !.moves = @ + 1]
    /\ \E previous \in {core.status, Nil} : Happens("updated", previous)
    /\ told' = [told EXCEPT !.entered[status] = @ + 1]
TaskIsEdited == Happens("updated", Nil) /\ UNCHANGED <<core, told>>
AgentAsks ==
    /\ ~core.question.open
    /\ core' = [core EXCEPT !.question.open = TRUE]
    /\ Happens("commented", Nil)
    /\ UNCHANGED told
RunFails  == Happens("failed", Nil) /\ UNCHANGED <<core, told>>
ApprovalRaised ==
    /\ Happens("approval", Nil)
    /\ core' = [core EXCEPT !.pending = TRUE]
    /\ UNCHANGED told
ApprovalDecided ==
    /\ core.pending /\ core' = [core EXCEPT !.pending = FALSE]
    /\ UNCHANGED <<scene, deviceVars, errand, news, recent, kept, told>>
HourPasses ==
    /\ scene = "events" /\ core.hour < MaxHour
    /\ core' = [core EXCEPT !.hour = @ + 1]
    /\ UNCHANGED <<scene, deviceVars, errand, news, recent, kept, told>>

\* handle: an event seen lately is ignored.
Remember(event) ==
    LET longer == Append(recent, event)
    IN  IF Len(longer) > RecentEvents THEN Tail(longer) ELSE longer

Handle(c, n) ==
    /\ errand[c].at = "idle" /\ news[n].delivered < 2
    /\ news' = [news EXCEPT ![n].delivered = @ + 1]
    /\ IF Contains(recent, n) THEN UNCHANGED <<errand, recent>>
       ELSE /\ recent' = Remember(n)
            /\ errand' = [errand EXCEPT ![c] = [NoErrand EXCEPT !.event = n, !.kind = news[n].type,
                 !.at = CASE news[n].type = "updated" -> "issue" [] news[n].type = "approval" -> "approval"
                          [] OTHER -> "questions"]]
    /\ UNCHANGED <<scene, deviceVars, core, kept, told>>

Events(c, at) == scene = "events" /\ errand[c].at = at

\* onIssueUpdated: the task is read, then its status swapped for the stored one.
ReadIssue(c) ==
    /\ Events(c, "issue")
    /\ errand' = [errand EXCEPT ![c].at = "swap", ![c].status = core.status, ![c].asOf = core.moves]
    /\ UNCHANGED <<scene, deviceVars, newsVars, told>>

SwapReads(c) ==
    /\ Events(c, "swap") /\ TurnFree
    /\ errand' = [errand EXCEPT ![c].at = "swapping", ![c].stored = kept.status]
    /\ UNCHANGED <<scene, deviceVars, newsVars, told>>

ReportedFirst(stored, reported, status) ==   \* mutant: trusts the event
    IF reported # Nil THEN reported ELSE stored
Previous(stored, reported, status) ==
    IF stored = status THEN status ELSE IF reported # Nil THEN reported ELSE stored

SwapWrites(c) ==
    LET e == errand[c]  previous == Previous(e.stored, news[e.event].previous, e.status) IN
    /\ Events(c, "swapping")
    /\ kept' = [kept EXCEPT !.status = e.status]
    /\ told' = [told EXCEPT !.crossed = @ \/ e.asOf < told.asOf, !.asOf = e.asOf]
    /\ IF StatusTransition(e.status, previous) /\ TaskOwners(core, core.members, Nobody) # {}
       THEN To(c, "status") ELSE Done(c)
    /\ UNCHANGED <<scene, deviceVars, core, news, recent>>

\* A notice: deliver is called.
Tells(people) == [told EXCEPT !.heard = @ \cup people]
NoticeStatus(c) ==
    /\ Events(c, "status")
    /\ told' = [Tells(TaskOwners(core, core.members, Nobody)) EXCEPT !.moved[errand[c].status] = @ + 1]
    /\ Done(c)
    /\ UNCHANGED <<scene, deviceVars, newsVars>>

\* checkQuestions, up to the claim; claimInteraction; what follows the check.
AfterQuestions(c) == IF errand[c].kind = "failed" THEN "failure" ELSE "comment"
CheckQuestions(c) ==
    /\ Events(c, "questions")
    /\ To(c, IF OpenAgentQuestion(core.question) THEN "claim" ELSE AfterQuestions(c))
    /\ UNCHANGED <<scene, deviceVars, newsVars, told>>
ClaimReads(c) ==
    /\ Events(c, "claim") /\ TurnFree
    /\ To(c, IF kept.asked THEN AfterQuestions(c) ELSE "asking")
    /\ UNCHANGED <<scene, deviceVars, newsVars, told>>
ClaimWrites(c) ==
    /\ Events(c, "asking")
    /\ kept' = [kept EXCEPT !.asked = TRUE]
    /\ To(c, IF AskRecipients(core.question, core, core.members) = {} THEN AfterQuestions(c) ELSE "ask")
    /\ UNCHANGED <<scene, deviceVars, core, news, recent, told>>
NoticeQuestion(c) ==
    /\ Events(c, "ask")
    /\ told' = [Tells(AskRecipients(core.question, core, core.members)) EXCEPT !.asked = @ + 1]
    /\ To(c, AfterQuestions(c))
    /\ UNCHANGED <<scene, deviceVars, newsVars>>

\* onComment, after its questions.
NoticeComment(c) ==
    /\ Events(c, "comment")
    /\ Done(c)
    /\ told' = Tells({p \in TaskOwners(core, core.members, Nobody) : core.members[p].comments})
    /\ UNCHANGED <<scene, deviceVars, newsVars>>

\* onRunEnded: whom to tell is asked before the window is claimed.
FailureHeard(c) ==
    /\ Events(c, "failure")
    /\ IF FailureRecipients(core.members) = {} THEN Done(c) ELSE To(c, "throttle")
    /\ UNCHANGED <<scene, deviceVars, newsVars, told>>
FailureReads(c) ==
    /\ Events(c, "throttle") /\ TurnFree
    /\ IF kept.failed # Never /\ core.hour - kept.failed < Window THEN Done(c)
       ELSE errand' = [errand EXCEPT ![c].at = "throttling", ![c].asOf = core.hour]
    /\ UNCHANGED <<scene, deviceVars, newsVars, told>>
FailureWrites(c) ==
    /\ Events(c, "throttling")
    /\ kept' = [kept EXCEPT !.failed = errand[c].asOf]
    /\ To(c, "failed")
    /\ UNCHANGED <<scene, deviceVars, core, news, recent, told>>
NoticeFailure(c) ==
    /\ Events(c, "failed")
    /\ told' = [Tells(FailureRecipients(core.members)) EXCEPT !.failures = @ \cup {errand[c].asOf}, !.failed = @ + 1]
    /\ Done(c)
    /\ UNCHANGED <<scene, deviceVars, newsVars>>

\* onApproval: read again; only a pending one is told of.
NoticeApproval(c) ==
    /\ Events(c, "approval")
    /\ Done(c)
    /\ told' = IF core.pending THEN Tells(ApprovalRecipients(core.members, Nobody)) ELSE told
    /\ UNCHANGED <<scene, deviceVars, newsVars>>

-----------------------------------------------------------------------------
\* A call to the core fails.  A failed look for questions does not stop the handler.
ErrandFails(c) ==
    /\ errand[c].at # "idle"
    /\ IF errand[c].at \in {"questions", "claim", "asking", "ask"} THEN To(c, AfterQuestions(c)) ELSE Done(c)
    /\ UNCHANGED <<scene, deviceVars, newsVars, told>>

WorkerStarts ==
    /\ \E c \in Errands : errand[c].at # "idle"
    /\ errand' = [c \in Errands |-> NoErrand] /\ recent' = <<>>
    /\ UNCHANGED <<scene, deviceVars, core, news, kept, told>>

-----------------------------------------------------------------------------
Member(status, role) == [status |-> status, role |-> role, failures |-> TRUE, comments |-> TRUE]
FirstPerson == CHOOSE p \in People : TRUE
NotifyInit ==
    /\ scene \in {"devices", "events"}
    /\ listed = [p \in People |-> <<>>] /\ owner = [d \in Devices |-> Nobody]
    /\ errand = [c \in Errands |-> NoErrand]
    /\ \E to \in {Nobody, "agent"}, gone \in {{}, {FirstPerson}} :
         /\ scene = "devices" => to = Nobody /\ gone = {}
         /\ core = [status |-> "todo", moves |-> 0, creator |-> FirstPerson,
                    assignee |-> CHOOSE p \in People : p # FirstPerson,
                    question |-> [open |-> FALSE, to |-> to], hour |-> 0, pending |-> FALSE,
                    members |-> [p \in People |-> IF p \in gone THEN Member("suspended", "admin")
                                                                ELSE Member("active", "owner")]]
    /\ news = <<>> /\ recent = <<>>
    /\ kept = [status |-> Nil, asked |-> FALSE, failed |-> Never]
    /\ told = [errands |-> 0, enrolled |-> {}, entered |-> [s \in {"todo", "done", "blocked"} |-> 0],
               moved |-> [s \in {"todo", "done", "blocked"} |-> 0], asOf |-> 0, crossed |-> FALSE,
               asked |-> 0, failures |-> {}, failed |-> 0, heard |-> {}]

NotifyNext ==
    \/ \E c \in Errands :
         \/ \E p \in People, d \in Devices : Subscribe(c, p, d) \/ Unsubscribe(c, p, d)
         \/ \E p \in People : Deliver(c, p)
         \/ Sent(c) \/ SectionBegins(c) \/ LeavePrevious(c) \/ Own(c) \/ Reread(c) \/ Save(c) \/ ReleaseOwner(c)
         \/ \E n \in DOMAIN news : Handle(c, n)
         \/ ReadIssue(c) \/ SwapReads(c) \/ SwapWrites(c) \/ NoticeStatus(c)
         \/ CheckQuestions(c) \/ ClaimReads(c) \/ ClaimWrites(c) \/ NoticeQuestion(c) \/ NoticeComment(c)
         \/ FailureHeard(c) \/ FailureReads(c) \/ FailureWrites(c) \/ NoticeFailure(c) \/ NoticeApproval(c)
         \/ ErrandFails(c)
    \/ \E status \in {"todo", "done"} : TaskMoves(status)
    \/ TaskIsEdited \/ AgentAsks \/ RunFails \/ ApprovalRaised \/ ApprovalDecided \/ HourPasses
    \/ WorkerStarts

NotifySpec == NotifyInit /\ [][NotifyNext]_notifyVars

-----------------------------------------------------------------------------
NotifyTypeOK ==
    /\ listed \in [People -> {s \in UNION {[1..n -> Devices] : n \in 0..MaxDevices} : IsInjective(s)}]
    /\ owner \in [Devices -> People \cup {Nobody}]
    /\ \A c \in Errands : errand[c].event \in 0..MaxNews
    /\ \A n \in DOMAIN news : news[n] \in News
    /\ Len(recent) <= RecentEvents
    /\ kept.failed \in Never..MaxHour

\* A browser is on the list of one person at most, the one its ownership entry names,
\* wherever a change of hands fails or crosses a delivery.
OneScreenOnePerson ==
    \A p \in People, d \in Devices : Contains(listed[p], d) => owner[d] = p

\* A device whose registration succeeded stays on its person's list until they remove it,
\* somebody else takes it, its push service reports it gone, or newer ones crowd it out.
RegistrationsStay == \A e \in told.enrolled : Contains(listed[e[1]], e[2])

\* Moving into a status is noticed once, however often and late its events come, as long
\* as the store heard of the task's statuses in the order it had them.
MovesAreToldOnce ==
    ~told.crossed => \A s \in {"done", "blocked"} : told.moved[s] <= told.entered[s]

\* A question is asked of people once, an agent's failures are told once in a window,
\* and nobody who is no active member hears anything.
AsksAndFailuresOnce ==
    /\ told.asked <= 1
    /\ told.failed = Cardinality(told.failures)
    /\ \A s, t \in told.failures : s < t => t - s >= Window
    /\ told.heard \subseteq Active(core.members)
=============================================================================
