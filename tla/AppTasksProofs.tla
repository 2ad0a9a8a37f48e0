--------------------------- MODULE AppTasksProofs ---------------------------
(***************************************************************************)
(* Theorems about the tasks an app hands to an agent: what a call knows of *)
(* its task at every await (Safe), and why the limit on open tasks is      *)
(* passed by no more than the calls that race (Counted).                   *)
(***************************************************************************)
EXTENDS MCAppTasks, FiniteSetTheorems, TLAPS

-----------------------------------------------------------------------------
(* What a call knows of its task                                           *)

Over == Final \cup {"deleted"}

TaskOK(i) ==
    /\ issue[i] \in Final => past[i].final
    /\ issue[i] = "none" => ~link[i].kept
    /\ link[i].closed => past[i].final
    /\ past[i].woken => link[i].kept /\ <<"app_task_start", i>> \in audit

\* k is the record of a call.  Who may close its row has seen the issue finished; who
\* may wake the agent has seen the link committed.
CallOK(k) ==
    /\ k.pc \notin {"idle", "rate", "openRows", "counting", "create"} => k.id \in Ids
    /\ k.pc \in {"close", "refusedClose", "conflict", "audit", "cancelClose", "loadClose"}
         => past[k.id].final
    /\ k.pc \in {"insert", "undo", "wake", "reason", "refused"} => issue[k.id] # "none"
    /\ k.pc = "wake" => link[k.id].kept /\ <<"app_task_start", k.id>> \in audit
    /\ k.done => /\ k.pc \in CancelSteps
                 /\ past[k.id].reopened \/ (k.pc # "update" /\ issue[k.id] \in Over)

Safe == /\ TypeOK
        /\ \A i \in Ids : TaskOK(i)
        /\ \A c \in Callers : CallOK(call[c])

\* What no step undoes, of any task.
Growing ==
    /\ audit \subseteq audit'
    /\ \A i \in Ids :
         /\ link[i].kept => link'[i].kept
         /\ past[i].final => past'[i].final
         /\ past[i].reopened => past'[i].reopened
         /\ issue[i] # "none" => issue'[i] # "none"
         /\ issue[i] \in Over => issue'[i] \in Over \/ past'[i].reopened

LEMMA IdleIs ==
    /\ Idle \in Call /\ Idle.pc = "idle" /\ Idle.done = FALSE /\ AnyPerson \in People
    /\ Idle.open = 0 /\ Idle.todo = {}
BY ConstantsAssumption DEF Idle, Call, AnyPerson, NoId

LEMMA CallStays ==
    ASSUME NEW k \in Call, CallOK(k), Growing
    PROVE  CallOK(k)'
BY DEF CallOK, Growing, CancelSteps

\* A step of a call: the others know what they knew.
LEMMA CallMoves ==
    ASSUME Safe, NEW c \in Callers, NEW k \in Call, Growing,
           call' = [call EXCEPT ![c] = k], CallOK(k)',
           \A i \in Ids : TaskOK(i)',
           issue' \in [Ids -> Status], link' \in [Ids -> Link], clock' = clock,
           audit' \subseteq {"app_task_start", "app_task_cancel"} \X Ids, past' \in [Ids -> Past]
    PROVE  Safe'
BY DEF Safe, TypeOK, CallOK, Growing, CancelSteps

LEMMA SafeKnows ==
    ASSUME Safe
    PROVE  /\ issue \in [Ids -> Status] /\ link \in [Ids -> Link]
           /\ audit \subseteq {"app_task_start", "app_task_cancel"} \X Ids
           /\ call \in [Callers -> Call] /\ clock \in 0..MaxClock /\ past \in [Ids -> Past]
           /\ \A i \in Ids : TaskOK(i)
           /\ \A c \in Callers : call[c] \in Call /\ CallOK(call[c])
BY DEF Safe, TypeOK

\* A step of a call that changes nothing but the call.
LEMMA OnlyTheCallMoves ==
    ASSUME Safe, NEW c \in Callers, NEW k \in Call,
           call' = [call EXCEPT ![c] = k], UNCHANGED <<issue, link, audit, clock, past>>, CallOK(k)
    PROVE  Safe'
BY SafeKnows, CallMoves DEF Growing, CallOK, TaskOK

LEMMA CallEnds ==
    ASSUME Safe, NEW c \in Callers, Return(c), UNCHANGED <<issue, link, audit, clock, past>>
    PROVE  Safe'
BY IdleIs, OnlyTheCallMoves DEF CallOK, Return

-----------------------------------------------------------------------------
LEMMA BeginKeeps ==
    ASSUME Safe, NEW c \in Callers, Begin(c)
    PROVE  Safe'
<1>1. ASSUME NEW who \in People, BeginStart(c, who)
      PROVE  Safe'
  BY IdleIs, <1>1, OnlyTheCallMoves DEF Call, StartSteps, CallOK, BeginStart
<1>2. ASSUME NEW who \in People, NEW i \in Ids, BeginCancel(c, who, i)
      PROVE  Safe'
  <2> DEFINE done == issue[i] \in Final
  <2>1. done \in BOOLEAN
    BY SMT
  <2>2. call' = [call EXCEPT ![c] = [Idle EXCEPT !.pc = "find", !.who = who, !.id = i, !.done = done]]
    BY <1>2 DEF BeginCancel
  <2>3. done => issue[i] \in Over
    BY DEF Over
  <2> HIDE DEF done
  <2>4. PICK k \in Call : k = [Idle EXCEPT !.pc = "find", !.who = who, !.id = i, !.done = done]
    BY <2>1, IdleIs DEF Call, CancelSteps
  <2>5. k.pc = "find" /\ k.id = i /\ k.done = done
    BY <2>4, IdleIs DEF Call
  <2>6. CallOK(k)
    BY <2>3, <2>5 DEF CallOK, CancelSteps
  <2>7. QED
    BY <1>2, <2>2, <2>4, <2>6, OnlyTheCallMoves DEF BeginCancel
<1>3. ASSUME NEW who \in People, NEW i \in Ids, BeginLoad(c, who, i)
      PROVE  Safe'
  BY IdleIs, <1>3, OnlyTheCallMoves DEF Call, ReadSteps, CallOK, BeginLoad
<1>4. QED
  BY <1>1, <1>2, <1>3 DEF Begin

\* The steps that read, and then go on or return.
LEMMA ReadingKeeps ==
    ASSUME Safe, NEW c \in Callers,
           \/ CheckRate(c) \/ ReadOpenRows(c) \/ CountOne(c) \/ CheckOpen(c)
           \/ Find(c) \/ ReadStatus(c) \/ LoadRow(c) \/ LoadIssue(c)
    PROVE  Safe'
<1>1. /\ UNCHANGED <<issue, link, audit, clock, past>>
      /\ issue \in [Ids -> Status] /\ link \in [Ids -> Link] /\ call \in [Callers -> Call]
      /\ call[c] \in Call /\ CallOK(call[c]) /\ \A i \in Ids : TaskOK(i)
  BY SafeKnows DEF CheckRate, ReadOpenRows, CountOne, CheckOpen, Find, ReadStatus, LoadRow, LoadIssue
<1>2. SUFFICES ASSUME ~Return(c)
               PROVE  \E k \in Call : CallOK(k) /\ call' = [call EXCEPT ![c] = k]
  BY <1>1, CallEnds, OnlyTheCallMoves
<1>3. CASE CheckRate(c)
  BY <1>1, <1>3, <1>2 DEF Call, StartSteps, CheckRate, At, CallOK, CancelSteps, Goto
<1>4. CASE ReadOpenRows(c)
  BY <1>1, <1>4 DEF OpenRows, Call, StartSteps, ReadOpenRows, At, CallOK, CancelSteps
<1>5. CASE CountOne(c)
  <2>1. PICK i \in call[c].todo :
           /\ call[c].pc = "counting"
           /\ call' = [call EXCEPT ![c].todo = @ \ {i}, ![c].open = IF IsOpen(i) THEN @ + 1 ELSE @,
                         ![c].id = IF issue[i] \in Final THEN i ELSE NoId,
                         ![c].pc = IF issue[i] \in Final THEN "close" ELSE "counting"]
    BY <1>5 DEF CountOne, At
  <2>2. i \in Ids /\ call[c].todo \ {i} \in SUBSET Ids /\ call[c].open + 1 \in Nat /\ call[c].open \in Nat
    BY <1>1, <2>1 DEF Call
  <2>3. PICK k \in Call :
           k = [call[c] EXCEPT !.todo = call[c].todo \ {i},
                               !.open = IF IsOpen(i) THEN call[c].open + 1 ELSE call[c].open,
                               !.id = IF issue[i] \in Final THEN i ELSE NoId,
                               !.pc = IF issue[i] \in Final THEN "close" ELSE "counting"]
    BY <1>1, <2>2 DEF Call, StartSteps
  <2>4. /\ k.done = call[c].done /\ k.pc = IF issue[i] \in Final THEN "close" ELSE "counting"
        /\ k.id = IF issue[i] \in Final THEN i ELSE NoId
    BY <1>1, <2>3 DEF Call
  <2>5. CallOK(k)
    BY <1>1, <2>1, <2>2, <2>4 DEF CallOK, CancelSteps, TaskOK
  <2>6. QED
    BY <1>1, <2>1, <2>3, <2>5, ZenonT(40)
<1>6. CASE CheckOpen(c)
  BY <1>1, <1>6, <1>2 DEF Call, StartSteps, CheckOpen, At, CallOK, CancelSteps, Goto
<1>7. CASE Find(c)
  BY <1>1, <1>7, <1>2 DEF Find, At, CallOK, Link, Call, CancelSteps
<1>8. CASE ReadStatus(c)
  <2> DEFINE i == call[c].id
  <2>1. call[c].pc = "read" /\ i \in Ids /\ issue[i] \in Status /\ Exists(i)
    BY <1>1, <1>2, <1>8 DEF ReadStatus, At, CallOK
  <2>2. issue[i] \in Working \/ issue[i] \in Final
    BY <2>1 DEF Exists, Status
  <2>3. PICK k \in Call : k = [call[c] EXCEPT !.pc = IF IsOpen(i) THEN "update" ELSE "conflict"]
    BY <1>1 DEF Call, CancelSteps
  <2>4. /\ k.pc = IF IsOpen(i) THEN "update" ELSE "conflict"
        /\ k.done = call[c].done /\ k.id = i
    BY <1>1, <2>3 DEF Call
  <2>5. CASE IsOpen(i)
    <3>1. issue[i] \notin Over /\ k.pc = "update"
      BY <2>4, <2>5 DEF IsOpen, Over, Working, Final
    <3>2. CallOK(k)
      BY <1>1, <2>1, <2>4, <3>1 DEF CallOK, CancelSteps
    <3>3. QED
      BY <1>1, <1>2, <1>8, <2>3, <3>2 DEF ReadStatus, Goto
  <2>6. CASE ~IsOpen(i)
    <3>1. issue[i] \in Final /\ past[i].final /\ k.pc = "conflict" /\ issue[i] \in Over
      BY <1>1, <2>1, <2>2, <2>4, <2>6 DEF IsOpen, TaskOK, Over
    <3>2. CallOK(k)
      BY <1>1, <2>1, <2>4, <3>1 DEF CallOK, CancelSteps
    <3>3. QED
      BY <1>1, <1>2, <1>8, <2>3, <3>2 DEF ReadStatus, Goto
  <2>7. QED
    BY <2>5, <2>6
<1>9. CASE LoadRow(c)
  BY <1>1, <1>9, <1>2 DEF LoadRow, At, CallOK, Link, Call, ReadSteps, CancelSteps
<1>10. CASE LoadIssue(c)
  <2>1. call[c].pc = "loadIssue" /\ call[c].id \in Ids /\ issue[call[c].id] \in Final
    BY <1>1, <1>2, <1>10 DEF LoadIssue, At, CallOK
  <2>2. PICK k \in Call : k = [call[c] EXCEPT !.pc = "loadClose"]
    BY <1>1 DEF Call, ReadSteps
  <2>3. k.pc = "loadClose" /\ k.done = call[c].done /\ k.id = call[c].id
    BY <1>1, <2>2 DEF Call
  <2>4. CallOK(k)
    BY <1>1, <2>1, <2>3 DEF CallOK, CancelSteps, TaskOK
  <2>5. QED
    BY <1>1, <1>2, <1>10, <2>1, <2>2, <2>4 DEF LoadIssue, Goto
<1>11. QED
  BY <1>3, <1>4, <1>5, <1>6, <1>7, <1>8, <1>9, <1>10

-----------------------------------------------------------------------------
(* The steps that write                                                    *)

LEMMA RowCloses ==
    ASSUME Safe, NEW i \in Ids, past[i].final, MarkClosed(i) \/ UNCHANGED link,
           UNCHANGED <<issue, audit, past>>
    PROVE  Growing /\ (\A j \in Ids : TaskOK(j)') /\ link' \in [Ids -> Link]
<1>1. CASE link' = link
  BY <1>1, SafeKnows DEF Growing, TaskOK
<1>2. CASE link' = [link EXCEPT ![i].closed = TRUE]
  BY <1>2, SafeKnows DEF Link, Growing, TaskOK
<1>3. QED
  BY <1>1, <1>2 DEF MarkClosed

LEMMA TaskCancels ==
    ASSUME Safe, NEW i \in Ids, Cancelled(i), UNCHANGED <<link, audit>>
    PROVE  /\ Growing /\ (\A j \in Ids : TaskOK(j)')
           /\ issue' \in [Ids -> Status] /\ past' \in [Ids -> Past]
           /\ past'[i].final /\ issue'[i] = "cancelled"
<1>1. /\ issue' = [issue EXCEPT ![i] = "cancelled"] /\ past' = [past EXCEPT ![i].final = TRUE]
      /\ issue[i] # "none" /\ "cancelled" \in Over /\ "cancelled" \in Status
  BY DEF Cancelled, Exists, Over, Final, Status
<1>2. /\ issue' \in [Ids -> Status] /\ past' \in [Ids -> Past] /\ past'[i].final
      /\ issue'[i] = "cancelled"
      /\ \A j \in Ids : /\ past'[j].reopened = past[j].reopened /\ past'[j].woken = past[j].woken
                        /\ past[j].final => past'[j].final
                        /\ j # i => issue'[j] = issue[j] /\ past'[j] = past[j]
  BY <1>1, SafeKnows DEF Past
<1>3. Growing
  BY <1>1, <1>2 DEF Growing
<1>4. \A j \in Ids : TaskOK(j)'
  BY <1>1, <1>2, SafeKnows DEF TaskOK
<1>5. QED
  BY <1>2, <1>3, <1>4

\* What a step to another await needs.
LEMMA Goes ==
    ASSUME Safe, NEW c \in Callers, NEW step \in {"idle"} \cup StartSteps \cup CancelSteps \cup ReadSteps,
           Goto(c, step)
    PROVE  \E k \in Call : /\ call' = [call EXCEPT ![c] = k]
                           /\ k = [call[c] EXCEPT !.pc = step]
                           /\ k.pc = step /\ k.id = call[c].id /\ k.done = call[c].done
<1>1. call \in [Callers -> Call] /\ call[c] \in Call
  BY SafeKnows
<1>2. PICK k \in Call : k = [call[c] EXCEPT !.pc = step]
  BY <1>1 DEF Call
<1>3. k.pc = step /\ k.id = call[c].id /\ k.done = call[c].done
  BY <1>1, <1>2 DEF Call
<1>4. call' = [call EXCEPT ![c] = k]
  BY <1>1, <1>2 DEF Goto
<1>5. QED
  BY <1>2, <1>3, <1>4

LEMMA ReturnIs ==
    ASSUME NEW c \in Callers, Return(c)
    PROVE  Idle \in Call /\ CallOK(Idle)' /\ call' = [call EXCEPT ![c] = Idle]
BY IdleIs DEF Return, CallOK

LEMMA ClosingKeeps ==
    ASSUME Safe, NEW c \in Callers,
           CloseCounted(c) \/ CloseRefused(c) \/ Conflict(c) \/ CloseCancelled(c) \/ LoadClose(c)
    PROVE  Safe'
<1>1. /\ call[c].pc \in {"close", "refusedClose", "conflict", "cancelClose", "loadClose"}
      /\ MarkClosed(call[c].id) \/ UNCHANGED link
      /\ UNCHANGED <<issue, audit, clock, past>>
      /\ call[c] \in Call /\ CallOK(call[c]) /\ call \in [Callers -> Call]
  BY SafeKnows DEF CloseCounted, CloseRefused, Conflict, CloseCancelled, LoadClose, CloseRow, At
<1>2. call[c].id \in Ids /\ past[call[c].id].final
  BY <1>1 DEF CallOK
<1>3. Growing /\ (\A j \in Ids : TaskOK(j)') /\ link' \in [Ids -> Link]
  BY <1>1, <1>2, RowCloses
<1>4. SUFFICES \E k \in Call : CallOK(k)' /\ call' = [call EXCEPT ![c] = k]
  BY <1>1, <1>3, SafeKnows, CallMoves
<1>5. CASE Return(c)
  BY <1>5, ReturnIs
<1>6. CASE CloseCounted(c)
  BY <1>1, <1>6 DEF Call, StartSteps, CloseCounted, At, CallOK, CancelSteps
<1>7. CASE CloseRefused(c)
  <2>1. call[c].pc = "refusedClose" /\ Goto(c, "refusedAudit") /\ "refusedAudit" \in StartSteps
    BY <1>7 DEF CloseRefused, At, StartSteps
  <2>2. PICK k \in Call : /\ call' = [call EXCEPT ![c] = k]
                          /\ k.pc = "refusedAudit" /\ k.id = call[c].id /\ k.done = call[c].done
    BY <2>1, Goes
  <2>3. CallOK(k)'
    BY <1>1, <1>2, <2>1, <2>2 DEF CallOK, CancelSteps
  <2>4. QED
    BY <2>2, <2>3
<1>8. QED
  BY <1>5, <1>6, <1>7 DEF CloseCounted, CloseRefused, Conflict, CloseCancelled, LoadClose

LEMMA CreateKeeps ==
    ASSUME Safe, NEW c \in Callers, Create(c)
    PROVE  Safe'
<1>1. PICK i \in Ids :
         /\ call[c].pc = "create" /\ issue[i] = "none"
         /\ issue' = [issue EXCEPT ![i] = "todo"]
         /\ past' = [past EXCEPT ![i].final = @ \/ "todo" \in Final]
         /\ call' = [call EXCEPT ![c].pc = "insert", ![c].id = i]
         /\ UNCHANGED <<link, audit, clock>>
  BY DEF Create, At, Set
<1>2. /\ issue \in [Ids -> Status] /\ past \in [Ids -> Past] /\ call \in [Callers -> Call]
      /\ call[c] \in Call /\ CallOK(call[c]) /\ \A j \in Ids : TaskOK(j)
  BY SafeKnows
<1>3. past' = past
  BY <1>1, <1>2 DEF Past, Final
<1>4. issue' \in [Ids -> Status] /\ "todo" \notin Final /\ "none" \notin Over /\ "none" \notin Final
  BY <1>1, <1>2 DEF Status, Working, Final, Over
<1>5. Growing
  BY <1>1, <1>2, <1>3, <1>4 DEF Growing
<1>6. \A j \in Ids : TaskOK(j)'
  BY <1>1, <1>2, <1>3, <1>4 DEF TaskOK
<1>7. PICK k \in Call : k = [call[c] EXCEPT !.pc = "insert", !.id = i]
  BY <1>2 DEF Call, StartSteps
<1>8. k.pc = "insert" /\ k.id = i /\ k.done = call[c].done
  BY <1>2, <1>7 DEF Call
<1>9. CallOK(k)'
  BY <1>1, <1>2, <1>8 DEF CallOK, CancelSteps
<1>10. call' = [call EXCEPT ![c] = k]
  BY <1>1, <1>2, <1>7
<1>11. /\ issue' \in [Ids -> Status] /\ link' \in [Ids -> Link] /\ clock' = clock
       /\ audit' \subseteq {"app_task_start", "app_task_cancel"} \X Ids /\ past' \in [Ids -> Past]
  BY <1>1, <1>3, <1>4, SafeKnows
<1>12. QED
  BY <1>5, <1>6, <1>9, <1>10, <1>11, CallMoves

LEMMA InsertKeeps ==
    ASSUME Safe, NEW c \in Callers, Insert(c)
    PROVE  Safe'
<1> DEFINE i == call[c].id
<1>1. /\ call[c].pc = "insert" /\ UNCHANGED <<issue, clock, past>>
      /\ call[c] \in Call /\ CallOK(call[c]) /\ call \in [Callers -> Call]
      /\ link \in [Ids -> Link] /\ past \in [Ids -> Past]
      /\ audit \subseteq {"app_task_start", "app_task_cancel"} \X Ids
      /\ \A j \in Ids : TaskOK(j)
  BY SafeKnows DEF Insert, At
<1>2. i \in Ids /\ issue[i] # "none" /\ ~call[c].done
  BY <1>1 DEF CallOK, CancelSteps
<1>3. CASE UNCHANGED <<link, audit>> /\ Goto(c, "undo")
  <2>1. "undo" \in StartSteps
    BY DEF StartSteps
  <2>2. PICK k \in Call : /\ call' = [call EXCEPT ![c] = k]
                          /\ k.pc = "undo" /\ k.id = i /\ k.done = call[c].done
    BY <1>3, <2>1, Goes
  <2>3. CallOK(k)
    BY <1>2, <2>2 DEF CallOK
  <2>4. QED
    BY <1>1, <1>3, <2>2, <2>3, OnlyTheCallMoves
<1>4. CASE /\ link' = [link EXCEPT ![i] = NewLink(c)]
           /\ audit' = audit \cup {<<"app_task_start", i>>}
           /\ Goto(c, "wake")
  <2>1. NewLink(c) \in Link /\ NewLink(c).kept = TRUE /\ NewLink(c).closed = FALSE
    <3>1. call[c].who \in People /\ clock \in Nat
      BY <1>1, SafeKnows, ConstantsAssumption DEF Call
    <3>2. NoLink \in Link /\ NoLink.closed = FALSE
      BY IdleIs DEF NoLink, Link
    <3>3. QED
      BY <3>1, <3>2 DEF NewLink, Link
  <2> HIDE DEF i
  <2>2. /\ link' \in [Ids -> Link] /\ link'[i].kept /\ ~link'[i].closed
        /\ \A j \in Ids \ {i} : link'[j] = link[j]
        /\ audit' \subseteq {"app_task_start", "app_task_cancel"} \X Ids
        /\ <<"app_task_start", i>> \in audit' /\ audit \subseteq audit'
    BY <1>1, <1>2, <1>4, <2>1
  <2>3. Growing
    BY <1>1, <2>2 DEF Growing
  <2>4. \A j \in Ids : TaskOK(j)'
    BY <1>1, <1>2, <2>2 DEF TaskOK
  <2>5. "wake" \in StartSteps
    BY DEF StartSteps
  <2>6. PICK k \in Call : /\ call' = [call EXCEPT ![c] = k]
                          /\ k.pc = "wake" /\ k.id = i /\ k.done = call[c].done
    BY <1>4, <2>5, Goes DEF i
  <2>7. CallOK(k)'
    BY <1>1, <1>2, <2>2, <2>6 DEF CallOK
  <2>8. QED
    BY <1>1, <2>2, <2>3, <2>4, <2>6, <2>7, SafeKnows, CallMoves
<1>5. QED
  BY <1>3, <1>4 DEF Insert

LEMMA CancellingKeeps ==
    ASSUME Safe, NEW c \in Callers, Undo(c) \/ CancelRefused(c) \/ Update(c)
    PROVE  Safe'
<1> DEFINE i == call[c].id
<1>1. /\ call[c].pc \in {"undo", "refused", "update"} /\ UNCHANGED <<link, audit, clock>>
      /\ call[c] \in Call /\ CallOK(call[c])
  BY SafeKnows DEF Undo, CancelRefused, Update, At
<1>2. i \in Ids
  BY <1>1 DEF CallOK
<1>3. CASE UNCHANGED <<issue, past>> /\ Return(c)
  BY <1>1, <1>3, CallEnds
<1>4. ASSUME Cancelled(i), NEW k \in Call, CallOK(k)', call' = [call EXCEPT ![c] = k]
      PROVE  Safe'
  BY <1>1, <1>2, <1>4, TaskCancels, SafeKnows, CallMoves
<1>5. CASE Cancelled(i) /\ Return(c)
  BY <1>4, <1>5, ReturnIs
<1>6. CASE CancelRefused(c) /\ Cancelled(i) /\ Goto(c, "refusedClose")
  <2>1. "refusedClose" \in StartSteps /\ call[c].pc = "refused"
    BY <1>6 DEF StartSteps, CancelRefused, At
  <2>2. PICK k \in Call : /\ call' = [call EXCEPT ![c] = k]
                          /\ k.pc = "refusedClose" /\ k.id = i /\ k.done = call[c].done
    BY <1>6, <2>1, Goes
  <2>3. past'[i].final
    BY <1>1, <1>2, <1>6, TaskCancels
  <2>4. CallOK(k)'
    BY <1>1, <1>2, <2>1, <2>2, <2>3 DEF CallOK, CancelSteps
  <2>5. QED
    BY <1>4, <1>6, <2>2, <2>4
<1>7. CASE Update(c)
  <2>1. "audit" \in CancelSteps /\ call[c].pc = "update" /\ Cancelled(i) /\ Goto(c, "audit")
    BY <1>7 DEF CancelSteps, Update, At
  <2>2. PICK k \in Call : /\ call' = [call EXCEPT ![c] = k]
                          /\ k.pc = "audit" /\ k.id = i /\ k.done = call[c].done
    BY <2>1, Goes
  <2>3. past'[i].final /\ issue'[i] \in Over
    BY <1>1, <1>2, <2>1, TaskCancels DEF Over, Final
  <2>4. CallOK(k)'
    BY <1>1, <1>2, <2>1, <2>2, <2>3 DEF CallOK, CancelSteps
  <2>5. QED
    BY <1>4, <2>1, <2>2, <2>4
<1>8. QED
  BY <1>3, <1>5, <1>6, <1>7 DEF Undo, CancelRefused

LEMMA WakeKeeps ==
    ASSUME Safe, NEW c \in Callers, Wake(c)
    PROVE  Safe'
<1> DEFINE i == call[c].id
<1>1. /\ call[c].pc = "wake" /\ UNCHANGED <<issue, link, audit, clock>>
      /\ call[c] \in Call /\ CallOK(call[c]) /\ past \in [Ids -> Past]
      /\ \A j \in Ids : TaskOK(j)
  BY SafeKnows DEF Wake, At
<1>2. i \in Ids /\ issue[i] # "none" /\ ~call[c].done /\ link[i].kept /\ <<"app_task_start", i>> \in audit
  BY <1>1 DEF CallOK, CancelSteps
<1>3. CASE past' = [past EXCEPT ![i].woken = TRUE] /\ (Return(c) \/ Goto(c, "reason"))
  <2>1. /\ past' \in [Ids -> Past]
        /\ \A j \in Ids : /\ past'[j].final = past[j].final /\ past'[j].reopened = past[j].reopened
                          /\ past'[j].woken => past[j].woken \/ j = i
    BY <1>1, <1>3 DEF Past
  <2>2. Growing /\ \A j \in Ids : TaskOK(j)'
    BY <1>1, <1>2, <2>1 DEF Growing, TaskOK
  <2>3. SUFFICES \E k \in Call : CallOK(k)' /\ call' = [call EXCEPT ![c] = k]
    BY <1>1, <2>1, <2>2, SafeKnows, CallMoves
  <2>4. CASE Return(c)
    BY <2>4, ReturnIs
  <2>5. CASE Goto(c, "reason")
    <3>1. "reason" \in StartSteps
      BY DEF StartSteps
    <3>2. PICK k \in Call : /\ call' = [call EXCEPT ![c] = k]
                            /\ k.pc = "reason" /\ k.id = i /\ k.done = call[c].done
      BY <2>5, <3>1, Goes
    <3>3. CallOK(k)'
      BY <1>1, <1>2, <3>2 DEF CallOK
    <3>4. QED
      BY <3>2, <3>3
  <2>6. QED
    BY <1>3, <2>4, <2>5
<1>4. CASE past' = past /\ Goto(c, "refused")
  BY <1>4, Goes, <1>2, <1>1, OnlyTheCallMoves DEF StartSteps, CallOK
<1>5. QED
  BY <1>3, <1>4 DEF Wake

\* The audit rows of a cancel, and the reason a wake-up waits.
LEMMA NotesKeep ==
    ASSUME Safe, NEW c \in Callers, SetReason(c) \/ AuditRefused(c) \/ AuditCancel(c)
    PROVE  Safe'
<1> DEFINE i == call[c].id
<1>1. /\ call[c].pc \in {"reason", "refusedAudit", "audit"} /\ UNCHANGED <<issue, clock, past>>
      /\ call[c] \in Call /\ CallOK(call[c]) /\ link \in [Ids -> Link]
      /\ audit \subseteq {"app_task_start", "app_task_cancel"} \X Ids
      /\ \A j \in Ids : TaskOK(j)
  BY SafeKnows DEF SetReason, AuditRefused, AuditCancel, At
<1>2. i \in Ids
  BY <1>1 DEF CallOK
<1>3. link' = link \/ link' = [link EXCEPT ![i].waiting = TRUE]
  BY DEF SetReason, AuditRefused, AuditCancel
<1>4. audit' = audit \/ audit' = audit \cup {<<"app_task_cancel", i>>}
  BY DEF SetReason, AuditRefused, AuditCancel
<1> HIDE DEF i
<1>5. /\ link' \in [Ids -> Link]
      /\ \A j \in Ids : link'[j].kept = link[j].kept /\ link'[j].closed = link[j].closed
  <2>1. CASE link' = link
    BY <1>1, <2>1
  <2>2. CASE link' = [link EXCEPT ![i].waiting = TRUE]
    BY <1>1, <1>2, <2>2 DEF Link
  <2>3. QED
    BY <1>3, <2>1, <2>2
<1>6. audit \subseteq audit' /\ audit' \subseteq {"app_task_start", "app_task_cancel"} \X Ids
  BY <1>1, <1>2, <1>4
<1>7. Growing /\ \A j \in Ids : TaskOK(j)'
  BY <1>1, <1>5, <1>6 DEF Growing, TaskOK
<1>8. SUFFICES \E k \in Call : CallOK(k)' /\ call' = [call EXCEPT ![c] = k]
  BY <1>1, <1>5, <1>6, <1>7, SafeKnows, CallMoves
<1>9. CASE Return(c)
  BY <1>9, ReturnIs
<1>10. CASE call[c].pc = "audit" /\ Goto(c, "cancelClose")
  <2>1. "cancelClose" \in CancelSteps
    BY DEF CancelSteps
  <2>2. PICK k \in Call : /\ call' = [call EXCEPT ![c] = k]
                          /\ k.pc = "cancelClose" /\ k.id = i /\ k.done = call[c].done
    BY <1>10, <2>1, Goes DEF i
  <2>3. CallOK(k)'
    BY <1>1, <1>2, <1>10, <2>2 DEF CallOK, CancelSteps, i
  <2>4. QED
    BY <2>2, <2>3
<1>11. QED
  BY <1>9, <1>10 DEF SetReason, AuditRefused, AuditCancel, At

LEMMA FailKeeps ==
    ASSUME Safe, NEW c \in Callers, Fail(c)
    PROVE  Safe'
BY CallEnds DEF Fail

-----------------------------------------------------------------------------
\* The agent, people and time: no call moves.
LEMMA CoreIs ==
    ASSUME Safe, Core
    PROVE  /\ Growing /\ (\A j \in Ids : TaskOK(j)') /\ UNCHANGED <<link, audit, call>>
           /\ issue' \in [Ids -> Status] /\ past' \in [Ids -> Past] /\ clock' \in 0..MaxClock
<1>1. /\ issue \in [Ids -> Status] /\ link \in [Ids -> Link] /\ past \in [Ids -> Past]
      /\ call \in [Callers -> Call] /\ clock \in 0..MaxClock
      /\ \A j \in Ids : TaskOK(j)
      /\ \A c \in Callers : call[c] \in Call /\ CallOK(call[c])
      /\ UNCHANGED <<link, audit, call>>
  BY SafeKnows DEF Core, Move, Reopen, Delete, Tick
<1>3. ASSUME NEW i \in Ids, NEW status \in Status \ {"none", "todo", "deleted"}, Move(i, status)
      PROVE  /\ Growing /\ (\A j \in Ids : TaskOK(j)')
             /\ issue' \in [Ids -> Status] /\ past' \in [Ids -> Past] /\ clock' \in 0..MaxClock
  <2> DEFINE final == past[i].final \/ status \in Final
  <2>1. final \in BOOLEAN /\ (past[i].final => final) /\ (status \in Final => final)
    BY SMT
  <2>2. /\ issue[i] \in Working /\ issue' = [issue EXCEPT ![i] = status] /\ clock' = clock
        /\ past' = [past EXCEPT ![i].final = final]
    BY <1>3 DEF Move, Set
  <2> HIDE DEF final
  <2>3. /\ issue' \in [Ids -> Status] /\ past' \in [Ids -> Past] /\ past'[i].final = final
        /\ issue'[i] = status
        /\ \A j \in Ids : /\ past'[j].reopened = past[j].reopened /\ past'[j].woken = past[j].woken
                          /\ past[j].final => past'[j].final
                          /\ j # i => issue'[j] = issue[j] /\ past'[j] = past[j]
    BY <1>1, <2>1, <2>2 DEF Past
  <2>4. issue[i] \notin Over /\ issue[i] # "none" /\ status # "none"
    BY <2>2 DEF Over, Working, Final
  <2>5. Growing
    BY <1>1, <2>3, <2>4 DEF Growing
  <2>6. \A j \in Ids : TaskOK(j)'
    BY <1>1, <2>1, <2>3, <2>4 DEF TaskOK
  <2>7. QED
    BY <1>1, <2>2, <2>3, <2>5, <2>6
<1>4. ASSUME NEW i \in Ids, Reopen(i)
      PROVE  /\ Growing /\ (\A j \in Ids : TaskOK(j)')
             /\ issue' \in [Ids -> Status] /\ past' \in [Ids -> Past] /\ clock' \in 0..MaxClock
  BY <1>4, <1>1 DEF Reopen, Status, Working, Final, Past, Growing, TaskOK
<1>5. ASSUME NEW i \in Ids, Delete(i)
      PROVE  /\ Growing /\ (\A j \in Ids : TaskOK(j)')
             /\ issue' \in [Ids -> Status] /\ past' \in [Ids -> Past] /\ clock' \in 0..MaxClock
  BY <1>5, <1>1 DEF Delete, Status, Final, Over, Growing, TaskOK
<1>6. CASE Tick
  BY <1>1, <1>6, ConstantsAssumption DEF Tick, Growing, TaskOK
<1>7. QED
  BY <1>1, <1>3, <1>4, <1>5, <1>6 DEF Core

LEMMA CoreKeeps ==
    ASSUME Safe, Core
    PROVE  Safe'
BY CoreIs, SafeKnows DEF CallOK, Growing, CancelSteps, Safe, TypeOK

LEMMA SafeInitially == Init => Safe
<1> SUFFICES ASSUME Init
             PROVE  Safe
  OBVIOUS
<1>1. /\ issue = [i \in Ids |-> "none"] /\ link = [i \in Ids |-> NoLink] /\ audit = {}
      /\ call = [c \in Callers |-> Idle] /\ clock = 0 /\ past = [i \in Ids |-> Untouched]
  BY DEF Init
<1>2. NoLink \in Link /\ Untouched \in Past /\ "none" \in Status /\ "none" \notin Final
  BY IdleIs DEF NoLink, Link, Untouched, Past, Status, Final
<1>3. TypeOK
  BY <1>1, <1>2, IdleIs, ConstantsAssumption DEF TypeOK
<1>4. \A i \in Ids : TaskOK(i)
  BY <1>1, <1>2 DEF TaskOK, NoLink, Untouched
<1>5. \A c \in Callers : CallOK(call[c])
  BY <1>1, IdleIs DEF CallOK
<1>6. QED
  BY <1>3, <1>4, <1>5 DEF Safe

LEMMA StepKeeps ==
    ASSUME Safe, NEW c \in Callers, CallerSteps(c)
    PROVE  Safe'
BY BeginKeeps, ReadingKeeps, ClosingKeeps, CreateKeeps, InsertKeeps, CancellingKeeps, WakeKeeps,
   NotesKeep, FailKeeps DEF CallerSteps, Step

LEMMA SafeInductive == Safe /\ [Next]_vars => Safe'
<1> SUFFICES ASSUME Safe, [Next]_vars
             PROVE  Safe'
  OBVIOUS
<1>1. CASE Next
  BY <1>1, StepKeeps, CoreKeeps DEF Next, CallerSteps
<1>2. CASE UNCHANGED vars
  BY <1>2 DEF vars, Safe, TypeOK, TaskOK, CallOK
<1>3. QED
  BY <1>1, <1>2

\* The scenes of MCAppTasks only take steps of AppTasks.
LEMMA ScenesStep == [ScenesNext]_<<vars, scene>> => [Next]_vars /\ scene' = scene
BY DEF ScenesNext, Racing, Serial, CallerSteps, Next, Core

\* What every call knows of its task holds at every await, however calls, the agent,
\* people and failures cross (TaskService.start, cancel, get).
THEOREM SafeInvariance == Spec => []Safe
<1>1. QED
  BY SafeInitially, SafeInductive, PTL DEF Spec

LEMMA SafeIsEnough == Safe => WokenOnlyWithItsLink /\ ClosedHasBeenFinal /\ CancelSparesTheFinished
BY DEF Safe, TaskOK, CallOK, WokenOnlyWithItsLink, ClosedHasBeenFinal, CancelSparesTheFinished, At

\* No agent is woken for a task without a committed link and audit row (start).
THEOREM WokenWithALink == Spec => []WokenOnlyWithItsLink
<1>1. QED
  BY SafeInvariance, SafeIsEnough, PTL

\* A row's cached flag is only set on a task that has been done or cancelled (close).
THEOREM ClosedWereFinal == Spec => []ClosedHasBeenFinal
<1>1. QED
  BY SafeInvariance, SafeIsEnough, PTL

\* A cancel never cancels a task it began on when finished, unless somebody set it to
\* work again meanwhile (cancel).
THEOREM FinishedAreSpared == Spec => []CancelSparesTheFinished
<1>1. QED
  BY SafeInvariance, SafeIsEnough, PTL

-----------------------------------------------------------------------------
(* The limit on open tasks.  A start reads the app's rows, counts them one *)
(* by one and creates its task only later, so tasks appear between its     *)
(* count and its task.  What bounds them is the order of the reads: of all *)
(* starts that have passed the check, take the one that read last.  It     *)
(* counted fewer than the limit; whatever it did not see was inserted by a *)
(* start that had read before it, and that start inserts once before it    *)
(* has to read again.                                                      *)
(*                                                                         *)
(* The state does not hold who read what when, so the invariant says that  *)
(* there is a way to say it: rows[c] is what start c has read, older[c]    *)
(* the starts that had read before it and are still on their way, and      *)
(* lastRows, before the same of the last reader to have passed, itself     *)
(* included.  S stands for the unfinished tasks, R for the links, F for    *)
(* the starts between their read and their insert, P for those of them     *)
(* that have passed, todo and open for their counts.                       *)

LateReader(S, R, F, t, o, k, b, before, n) ==
    /\ t \subseteq k /\ k \subseteq R
    /\ Cardinality((S \cap k) \ t) <= o
    /\ Cardinality(S \ k) + Cardinality(b) <= n - 1
    /\ before \subseteq b /\ b \subseteq F

ReadAfter(older, c, d) == d \in older[c] /\ older[d] \subseteq older[c]

Tallied(S, R, F, P, todo, open, rows, older, lastRows, before, n) ==
    /\ rows \in [Callers -> SUBSET Ids] /\ older \in [Callers -> SUBSET Callers]
    /\ lastRows \subseteq R /\ P \subseteq before /\ before \subseteq F
    /\ Cardinality(S \cap lastRows) <= OpenLimit - 1
    /\ Cardinality(S \ lastRows) + Cardinality(before) <= n
    /\ \A c \in F \ before :
         /\ c \notin older[c]
         /\ LateReader(S, R, F, todo[c], open[c], rows[c], older[c], before, n)
    /\ \A c, d \in F \ before : c = d \/ ReadAfter(older, c, d) \/ ReadAfter(older, d, c)

\* What a start has read, now; and the starts before each, without one that leaves.
Now(f, c, v)        == [f EXCEPT ![c] = v]
WithoutIt(older, c) == [d \in Callers |-> older[d] \ {c}]

LEMMA Fewer ==
    ASSUME NEW Y, IsFiniteSet(Y), NEW X, X \subseteq Y
    PROVE  /\ IsFiniteSet(X) /\ Cardinality(X) \in Nat /\ Cardinality(Y) \in Nat
           /\ Cardinality(X) <= Cardinality(Y)
BY FS_Subset, FS_CardinalityType

LEMMA SmallSets ==
    /\ \A X \in SUBSET Ids : IsFiniteSet(X) /\ Cardinality(X) \in Nat
    /\ \A X \in SUBSET Callers : IsFiniteSet(X) /\ Cardinality(X) \in Nat
<1>1. IsFiniteSet(Ids)
  BY ConstantsAssumption, FS_Interval DEF Ids
<1>2. QED
  BY <1>1, ConstantsAssumption, Fewer

\* Tasks finish or go, and rows are never taken back.
LEMMA TallyShrinks ==
    ASSUME NEW S \in SUBSET Ids, NEW R \in SUBSET Ids, NEW F \in SUBSET Callers, NEW P \in SUBSET F,
           NEW todo, NEW open \in [Callers -> Nat], NEW n \in Nat,
           NEW rows, NEW older, NEW lastRows, NEW before,
           Tallied(S, R, F, P, todo, open, rows, older, lastRows, before, n),
           NEW S2 \in SUBSET S, NEW R2 \in SUBSET Ids, R \subseteq R2,
           NEW todo2, NEW open2, \A d \in F : todo2[d] = todo[d] /\ open2[d] = open[d]
    PROVE  Tallied(S2, R2, F, P, todo2, open2, rows, older, lastRows, before, n)
<1>1. /\ rows \in [Callers -> SUBSET Ids] /\ older \in [Callers -> SUBSET Callers]
      /\ lastRows \subseteq R /\ P \subseteq before /\ before \subseteq F
      /\ Cardinality(S \cap lastRows) <= OpenLimit - 1
      /\ Cardinality(S \ lastRows) + Cardinality(before) <= n
  BY DEF Tallied
<1>2. ASSUME NEW c \in F \ before
      PROVE  /\ c \notin older[c]
             /\ LateReader(S2, R2, F, todo2[c], open2[c], rows[c], older[c], before, n)
  <2>1. /\ c \notin older[c] /\ todo2[c] = todo[c] /\ open2[c] = open[c]
        /\ LateReader(S, R, F, todo[c], open[c], rows[c], older[c], before, n)
    BY DEF Tallied
  <2>2. /\ Cardinality((S2 \cap rows[c]) \ todo[c]) <= Cardinality((S \cap rows[c]) \ todo[c])
        /\ Cardinality((S2 \cap rows[c]) \ todo[c]) \in Nat /\ Cardinality((S \cap rows[c]) \ todo[c]) \in Nat
    BY Fewer, SmallSets
  <2>3. /\ Cardinality(S2 \ rows[c]) <= Cardinality(S \ rows[c])
        /\ Cardinality(S2 \ rows[c]) \in Nat /\ Cardinality(S \ rows[c]) \in Nat
    BY Fewer, SmallSets
  <2>4. Cardinality(older[c]) \in Nat /\ open[c] \in Nat
    BY <1>1, SmallSets
  <2>5. QED
    BY <2>1, <2>2, <2>3, <2>4 DEF LateReader
<1>3. /\ Cardinality(S2 \cap lastRows) <= Cardinality(S \cap lastRows)
      /\ Cardinality(S2 \cap lastRows) \in Nat /\ Cardinality(S \cap lastRows) \in Nat
  BY Fewer, SmallSets
<1>4. /\ Cardinality(S2 \ lastRows) <= Cardinality(S \ lastRows)
      /\ Cardinality(S2 \ lastRows) \in Nat /\ Cardinality(S \ lastRows) \in Nat
  BY Fewer, SmallSets
<1>5. Cardinality(before) \in Nat /\ OpenLimit \in Nat
  BY <1>1, SmallSets, ConstantsAssumption
<1>6. /\ Cardinality(S2 \cap lastRows) <= OpenLimit - 1
      /\ Cardinality(S2 \ lastRows) + Cardinality(before) <= n
  BY <1>1, <1>3, <1>4, <1>5
<1>7. QED
  BY <1>1, <1>2, <1>6 DEF Tallied

\* A start leaves: refused or failed, or with its one insert.
LEMMA TallyLeaves ==
    ASSUME NEW S \in SUBSET Ids, NEW R \in SUBSET Ids, NEW F \in SUBSET Callers, NEW P \in SUBSET F,
           NEW todo, NEW open \in [Callers -> Nat], NEW n \in Nat,
           NEW rows, NEW older, NEW lastRows, NEW before,
           Tallied(S, R, F, P, todo, open, rows, older, lastRows, before, n),
           NEW c \in F, NEW i, NEW S2 \in SUBSET Ids, NEW R2 \in SUBSET Ids, R \subseteq R2,
           (S2 \subseteq S) \/ (c \in P /\ i \notin R /\ S2 \subseteq S \cup {i}),
           NEW todo2, NEW open2 \in [Callers -> Nat],
           \A d \in F \ {c} : todo2[d] = todo[d] /\ open2[d] = open[d]
    PROVE  Tallied(S2, R2, F \ {c}, P \ {c}, todo2, open2, rows, WithoutIt(older, c), lastRows,
                   before \ {c}, n)
<1> DEFINE older2 == [d \in Callers |-> older[d] \ {c}]
<1>1. /\ rows \in [Callers -> SUBSET Ids] /\ older \in [Callers -> SUBSET Callers]
      /\ lastRows \subseteq R /\ P \subseteq before /\ before \subseteq F
      /\ Cardinality(S \cap lastRows) <= OpenLimit - 1
      /\ Cardinality(S \ lastRows) + Cardinality(before) <= n
  BY DEF Tallied
<1>2. older2 \in [Callers -> SUBSET Callers] /\ \A d \in Callers : older2[d] = older[d] \ {c}
  BY <1>1
\* What a reader has seen stays seen; what it has not seen grows only by an insert of c.
<1>3. ASSUME NEW k \in SUBSET R
      PROVE  S2 \cap k \subseteq S \cap k
  BY <1>3
<1>4. ASSUME NEW k \in SUBSET R, NEW b \in SUBSET Callers, before \subseteq b
      PROVE  Cardinality(S2 \ k) + Cardinality(b \ {c}) <= Cardinality(S \ k) + Cardinality(b)
  <2>1. IsFiniteSet(b) /\ Cardinality(b) \in Nat /\ IsFiniteSet(S \ k) /\ Cardinality(S \ k) \in Nat
    BY SmallSets
  <2>2. Cardinality(b \ {c}) = IF c \in b THEN Cardinality(b) - 1 ELSE Cardinality(b)
    BY <2>1, FS_RemoveElement
  <2>3. CASE S2 \subseteq S
    BY <2>3, <2>1, Fewer, <2>2
  <2>4. CASE c \in P /\ i \notin R /\ S2 \subseteq S \cup {i}
    <3>1. S2 \ k \subseteq (S \ k) \cup {i}
      BY <2>4
    <3>2. /\ IsFiniteSet((S \ k) \cup {i})
          /\ Cardinality((S \ k) \cup {i}) = IF i \in S \ k THEN Cardinality(S \ k) ELSE Cardinality(S \ k) + 1
      BY <2>1, FS_AddElement
    <3>3. /\ Cardinality(S2 \ k) <= Cardinality((S \ k) \cup {i})
          /\ Cardinality(S2 \ k) \in Nat
      BY <3>1, <3>2, Fewer
    <3>4. c \in b
      BY <1>1, <1>4, <2>4
    <3>5. QED
      BY <2>1, <2>2, <3>2, <3>3, <3>4
  <2>5. QED
    BY <2>3, <2>4
<1>5. ASSUME NEW d \in (F \ {c}) \ (before \ {c})
      PROVE  /\ d \notin older2[d]
             /\ LateReader(S2, R2, F \ {c}, todo2[d], open2[d], rows[d], older2[d], before \ {c}, n)
  <2>1. /\ d \in F \ before /\ d # c /\ d \in Callers
        /\ d \notin older[d]
        /\ LateReader(S, R, F, todo[d], open[d], rows[d], older[d], before, n)
    BY DEF Tallied
  <2>2. /\ todo[d] \subseteq rows[d] /\ rows[d] \subseteq R
        /\ Cardinality((S \cap rows[d]) \ todo[d]) <= open[d]
        /\ Cardinality(S \ rows[d]) + Cardinality(older[d]) <= n - 1
        /\ before \subseteq older[d] /\ older[d] \subseteq F
    BY <2>1 DEF LateReader
  <2>3. (S2 \cap rows[d]) \ todo[d] \subseteq (S \cap rows[d]) \ todo[d]
    BY <1>3, <2>2
  <2>4. /\ Cardinality((S2 \cap rows[d]) \ todo[d]) <= Cardinality((S \cap rows[d]) \ todo[d])
        /\ Cardinality((S2 \cap rows[d]) \ todo[d]) \in Nat /\ Cardinality((S \cap rows[d]) \ todo[d]) \in Nat
    BY <2>3, Fewer, SmallSets
  <2>5. Cardinality(S2 \ rows[d]) + Cardinality(older[d] \ {c}) <= Cardinality(S \ rows[d]) + Cardinality(older[d])
    BY <1>1, <1>4, <2>1, <2>2
  <2>6. /\ Cardinality(S2 \ rows[d]) \in Nat /\ Cardinality(older[d] \ {c}) \in Nat
        /\ Cardinality(S \ rows[d]) \in Nat /\ Cardinality(older[d]) \in Nat
    BY <1>1, <2>1, SmallSets
  <2>7. open2[d] = open[d] /\ todo2[d] = todo[d] /\ open[d] \in Nat /\ older2[d] = older[d] \ {c}
    BY <1>2, <2>1
  <2>8. Cardinality((S2 \cap rows[d]) \ todo[d]) <= open[d]
    BY <2>2, <2>4, <2>7
  <2>9. Cardinality(S2 \ rows[d]) + Cardinality(older[d] \ {c}) <= n - 1
    BY <2>2, <2>5, <2>6
  <2>10. rows[d] \subseteq R2 /\ before \ {c} \subseteq older[d] \ {c} /\ older[d] \ {c} \subseteq F \ {c}
    BY <2>2
  <2> HIDE DEF older2
  <2>11. QED
    BY <2>1, <2>2, <2>7, <2>8, <2>9, <2>10 DEF LateReader
<1>6. ASSUME NEW d \in (F \ {c}) \ (before \ {c}), NEW e \in (F \ {c}) \ (before \ {c})
      PROVE  d = e \/ ReadAfter(older2, d, e) \/ ReadAfter(older2, e, d)
  <2>1. d = e \/ ReadAfter(older, d, e) \/ ReadAfter(older, e, d)
    BY DEF Tallied
  <2>2. d # c /\ e # c /\ older2[d] = older[d] \ {c} /\ older2[e] = older[e] \ {c}
    BY <1>2
  <2> HIDE DEF older2
  <2>3. QED
    BY <2>1, <2>2 DEF ReadAfter
<1>7. Cardinality(S2 \cap lastRows) <= OpenLimit - 1
  BY <1>1, <1>3, Fewer, SmallSets, ConstantsAssumption
<1>8. Cardinality(S2 \ lastRows) + Cardinality(before \ {c}) <= n
  <2>1. Cardinality(S2 \ lastRows) + Cardinality(before \ {c}) <= Cardinality(S \ lastRows) + Cardinality(before)
    BY <1>1, <1>4
  <2>2. /\ Cardinality(S2 \ lastRows) \in Nat /\ Cardinality(before \ {c}) \in Nat
        /\ Cardinality(S \ lastRows) \in Nat /\ Cardinality(before) \in Nat
    BY <1>1, SmallSets
  <2>3. QED
    BY <1>1, <2>1, <2>2
<1>9. lastRows \subseteq R2 /\ P \ {c} \subseteq before \ {c} /\ before \ {c} \subseteq F \ {c}
  BY <1>1
<1> HIDE DEF older2
<1>10. Tallied(S2, R2, F \ {c}, P \ {c}, todo2, open2, rows, older2, lastRows, before \ {c}, n)
  BY <1>1, <1>2, <1>5, <1>6, <1>7, <1>8, <1>9 DEF Tallied
<1>11. QED
  BY <1>10 DEF older2, WithoutIt

\* A start reads the rows: it is the last reader, and has seen every unfinished task.
LEMMA TallyReads ==
    ASSUME NEW S \in SUBSET Ids, NEW R \in SUBSET Ids, NEW F \in SUBSET Callers, NEW P \in SUBSET F,
           NEW todo, NEW open \in [Callers -> Nat], NEW n \in Nat,
           NEW rows, NEW older, NEW lastRows, NEW before,
           Tallied(S, R, F, P, todo, open, rows, older, lastRows, before, n),
           NEW c \in Callers \ F, NEW k \in SUBSET R, S \subseteq k,
           Cardinality(F \cup {c}) <= n,
           NEW todo2, NEW open2 \in [Callers -> Nat], todo2[c] = k, open2[c] = 0,
           \A d \in F : todo2[d] = todo[d] /\ open2[d] = open[d]
    PROVE  Tallied(S, R, F \cup {c}, P, todo2, open2, Now(rows, c, k), Now(older, c, F), lastRows,
                   before, n)
<1> DEFINE rows2 == [rows EXCEPT ![c] = k]
           older2 == [older EXCEPT ![c] = F]
<1>1. /\ rows \in [Callers -> SUBSET Ids] /\ older \in [Callers -> SUBSET Callers]
      /\ lastRows \subseteq R /\ P \subseteq before /\ before \subseteq F
      /\ Cardinality(S \cap lastRows) <= OpenLimit - 1
      /\ Cardinality(S \ lastRows) + Cardinality(before) <= n
  BY DEF Tallied
<1>2. /\ rows2 \in [Callers -> SUBSET Ids] /\ older2 \in [Callers -> SUBSET Callers]
      /\ rows2[c] = k /\ older2[c] = F
      /\ \A d \in F : rows2[d] = rows[d] /\ older2[d] = older[d]
  BY <1>1
<1> HIDE DEF rows2, older2
<1>3. LateReader(S, R, F \cup {c}, k, 0, k, F, before, n)
  <2>1. (S \cap k) \ k = {} /\ S \ k = {}
    OBVIOUS
  <2>2. Cardinality((S \cap k) \ k) = 0 /\ Cardinality(S \ k) = 0
    BY <2>1, FS_EmptySet
  <2>3. IsFiniteSet(F) /\ Cardinality(F) \in Nat
    BY SmallSets
  <2>4. Cardinality(F \cup {c}) = Cardinality(F) + 1
    BY <2>3, FS_AddElement
  <2>5. Cardinality(S \ k) + Cardinality(F) <= n - 1
    BY <2>2, <2>3, <2>4
  <2>6. QED
    BY <1>1, <2>2, <2>5 DEF LateReader
<1>4. ASSUME NEW d \in F \ before
      PROVE  /\ d \notin older2[d]
             /\ LateReader(S, R, F \cup {c}, todo2[d], open2[d], rows2[d], older2[d], before, n)
             /\ older2[d] \subseteq F
  BY <1>2 DEF Tallied, LateReader
<1>5. ASSUME NEW d \in (F \cup {c}) \ before
      PROVE  /\ d \notin older2[d]
             /\ LateReader(S, R, F \cup {c}, todo2[d], open2[d], rows2[d], older2[d], before, n)
  BY <1>2, <1>3, <1>4
<1>6. ASSUME NEW d \in (F \cup {c}) \ before, NEW e \in (F \cup {c}) \ before
      PROVE  d = e \/ ReadAfter(older2, d, e) \/ ReadAfter(older2, e, d)
  BY <1>2, <1>4 DEF Tallied, ReadAfter
<1>7. before \subseteq F \cup {c}
  BY <1>1
<1>8. Tallied(S, R, F \cup {c}, P, todo2, open2, rows2, older2, lastRows, before, n)
  BY <1>1, <1>2, <1>5, <1>6, <1>7 DEF Tallied
<1>9. QED
  BY <1>8 DEF rows2, older2, Now

CountsOne(S, t, o, t2, o2) ==
    \E i \in t : t2 = t \ {i} /\ (o2 = o \/ o2 = o + 1) /\ (i \in S => o2 = o + 1)

\* A start counts one row: an unfinished task counts as one.
LEMMA TallyCounts ==
    ASSUME NEW S \in SUBSET Ids, NEW R \in SUBSET Ids, NEW F \in SUBSET Callers, NEW P \in SUBSET F,
           NEW todo, NEW open \in [Callers -> Nat], NEW n \in Nat,
           NEW rows, NEW older, NEW lastRows, NEW before,
           Tallied(S, R, F, P, todo, open, rows, older, lastRows, before, n),
           NEW c \in F, NEW todo2, NEW open2 \in [Callers -> Nat],
           CountsOne(S, todo[c], open[c], todo2[c], open2[c]),
           \A d \in F \ {c} : todo2[d] = todo[d] /\ open2[d] = open[d]
    PROVE  Tallied(S, R, F, P, todo2, open2, rows, older, lastRows, before, n)
<1>0. PICK i \in todo[c] : /\ todo2[c] = todo[c] \ {i}
                           /\ open2[c] = open[c] \/ open2[c] = open[c] + 1
                           /\ i \in S => open2[c] = open[c] + 1
  BY DEF CountsOne
<1>1. /\ rows \in [Callers -> SUBSET Ids] /\ older \in [Callers -> SUBSET Callers]
      /\ lastRows \subseteq R /\ P \subseteq before /\ before \subseteq F
      /\ Cardinality(S \cap lastRows) <= OpenLimit - 1
      /\ Cardinality(S \ lastRows) + Cardinality(before) <= n
      /\ \A d, e \in F \ before : d = e \/ ReadAfter(older, d, e) \/ ReadAfter(older, e, d)
  BY DEF Tallied
<1>2. ASSUME NEW d \in F \ before
      PROVE  d \notin older[d] /\ LateReader(S, R, F, todo2[d], open2[d], rows[d], older[d], before, n)
  <2>1. d \notin older[d] /\ LateReader(S, R, F, todo[d], open[d], rows[d], older[d], before, n)
    BY DEF Tallied
  <2>2. CASE d # c
    BY <2>2, <2>1
  <2>3. CASE d = c
    <3> DEFINE seen == (S \cap rows[c]) \ todo[c]
               now  == (S \cap rows[c]) \ (todo[c] \ {i})
    <3>1. IsFiniteSet(seen) /\ Cardinality(seen) \in Nat
      BY SmallSets
    <3>2. Cardinality(seen) <= open[c] /\ todo[c] \subseteq rows[c]
      BY <2>1, <2>3 DEF LateReader
    <3>3. Cardinality(now) <= open2[c]
      <4>1. CASE i \in S
        <5>1. now \subseteq seen \cup {i}
          OBVIOUS
        <5>2. /\ IsFiniteSet(seen \cup {i})
              /\ Cardinality(seen \cup {i}) = IF i \in seen THEN Cardinality(seen) ELSE Cardinality(seen) + 1
          BY <3>1, FS_AddElement
        <5>3. Cardinality(now) <= Cardinality(seen \cup {i}) /\ Cardinality(now) \in Nat
          BY <5>1, <5>2, Fewer
        <5>4. open[c] \in Nat /\ open2[c] = open[c] + 1
          BY <1>0, <4>1
        <5> HIDE DEF seen, now
        <5>5. QED
          BY <3>1, <3>2, <5>2, <5>3, <5>4
      <4>2. CASE i \notin S
        <5>1. now = seen
          BY <4>2
        <5>2. open[c] \in Nat /\ open2[c] >= open[c] /\ open2[c] \in Nat
          BY <1>0
        <5> HIDE DEF seen, now
        <5>3. QED
          BY <3>1, <3>2, <5>1, <5>2
      <4>3. QED
        BY <4>1, <4>2
    <3>4. todo2[c] \subseteq rows[c] /\ todo2[c] = todo[c] \ {i}
      BY <1>0, <3>2
    <3>5. QED
      BY <2>1, <2>3, <3>3, <3>4 DEF LateReader
  <2>4. QED
    BY <2>2, <2>3
<1>3. QED
  BY <1>1, <1>2 DEF Tallied

\* A start passes: it counted fewer than the limit, and is now the last reader to have
\* passed, unless one that read after it already has.
LEMMA TallyPasses ==
    ASSUME NEW S \in SUBSET Ids, NEW R \in SUBSET Ids, NEW F \in SUBSET Callers, NEW P \in SUBSET F,
           NEW todo, NEW open \in [Callers -> Nat], NEW n \in Nat,
           NEW rows, NEW older, NEW lastRows, NEW before,
           Tallied(S, R, F, P, todo, open, rows, older, lastRows, before, n),
           NEW c \in F, todo[c] = {}, open[c] < OpenLimit
    PROVE  \E lastRows2, before2 :
               Tallied(S, R, F, P \cup {c}, todo, open, rows, older, lastRows2, before2, n)
<1>1. /\ rows \in [Callers -> SUBSET Ids] /\ older \in [Callers -> SUBSET Callers]
      /\ lastRows \subseteq R /\ P \subseteq before /\ before \subseteq F
      /\ Cardinality(S \cap lastRows) <= OpenLimit - 1
      /\ Cardinality(S \ lastRows) + Cardinality(before) <= n
      /\ \A d \in F \ before : d \notin older[d]
           /\ LateReader(S, R, F, todo[d], open[d], rows[d], older[d], before, n)
      /\ \A d, e \in F \ before : d = e \/ ReadAfter(older, d, e) \/ ReadAfter(older, e, d)
  BY DEF Tallied
<1>2. CASE c \in before
  BY <1>1, <1>2 DEF Tallied
<1>3. CASE c \notin before
  <2> DEFINE k == rows[c]
             b == older[c]
  <2>1. /\ c \notin b /\ k \subseteq R /\ before \subseteq b /\ b \subseteq F
        /\ Cardinality((S \cap k) \ {}) <= open[c]
        /\ Cardinality(S \ k) + Cardinality(b) <= n - 1
    BY <1>1, <1>3 DEF LateReader
  <2>2. Cardinality(S \cap k) <= OpenLimit - 1
    BY <2>1, SmallSets, ConstantsAssumption
  <2>3. Cardinality(S \ k) + Cardinality(b \cup {c}) <= n
    <3>1. IsFiniteSet(b) /\ Cardinality(b) \in Nat /\ Cardinality(S \ k) \in Nat
      BY <2>1, SmallSets
    <3> HIDE DEF b
    <3>2. Cardinality(b \cup {c}) = Cardinality(b) + 1
      BY <2>1, <3>1, FS_AddElement
    <3>3. QED
      BY <2>1, <3>1, <3>2
  <2>4. ASSUME NEW d \in F \ (b \cup {c})
        PROVE  /\ d \notin older[d]
               /\ LateReader(S, R, F, todo[d], open[d], rows[d], older[d], b \cup {c}, n)
    <3>1. d \in F \ before /\ d # c
      BY <2>1
    <3>2. ReadAfter(older, d, c)
      BY <1>1, <1>3, <3>1 DEF ReadAfter
    <3>3. d \notin older[d] /\ LateReader(S, R, F, todo[d], open[d], rows[d], older[d], before, n)
      BY <1>1, <3>1
    <3>4. b \cup {c} \subseteq older[d]
      BY <3>2 DEF ReadAfter
    <3> HIDE DEF b
    <3>5. QED
      BY <3>3, <3>4 DEF LateReader
  <2>5. F \ (b \cup {c}) \subseteq F \ before
    BY <2>1
  <2>6. P \cup {c} \subseteq b \cup {c} /\ b \cup {c} \subseteq F
    BY <1>1, <2>1
  <2> HIDE DEF b, k
  <2>7. Tallied(S, R, F, P \cup {c}, todo, open, rows, older, k, b \cup {c}, n)
    BY <1>1, <2>1, <2>2, <2>3, <2>4, <2>5, <2>6 DEF Tallied
  <2>8. QED
    BY <2>7
<1>4. QED
  BY <1>2, <1>3

LEMMA TallyBounds ==
    ASSUME NEW S \in SUBSET Ids, NEW R, NEW F, NEW P, NEW todo, NEW open, NEW n \in Nat,
           NEW rows, NEW older, NEW lastRows, NEW before, F \subseteq Callers,
           Tallied(S, R, F, P, todo, open, rows, older, lastRows, before, n)
    PROVE  Cardinality(S) <= OpenLimit + n - 1
<1>1. /\ Cardinality(S \cap lastRows) <= OpenLimit - 1
      /\ Cardinality(S \ lastRows) + Cardinality(before) <= n
      /\ before \in SUBSET Callers
  BY DEF Tallied
<1>2. /\ Cardinality(S) \in Nat /\ Cardinality(S \cap lastRows) \in Nat
      /\ Cardinality(S \ lastRows) \in Nat /\ Cardinality(before) \in Nat
  BY <1>1, SmallSets
<1>3. Cardinality(S \ lastRows) = Cardinality(S) - Cardinality(S \cap lastRows)
  BY SmallSets, FS_Difference
<1>4. QED
  BY <1>1, <1>2, <1>3, ConstantsAssumption

-----------------------------------------------------------------------------
(* The starts on their way, in the state                                   *)

Counting(k) == k.pc \in {"counting", "close"}
Creating(k) == k.pc \in {"create", "insert"}
OnItsWay(k) == Counting(k) \/ Creating(k)

Flight == {c \in Callers : OnItsWay(call[c])}
Passed == {c \in Callers : Creating(call[c])}
Linked == {i \in Ids : link[i].kept}
Todo   == [c \in Callers |-> call[c].todo]
Opened == [c \in Callers |-> call[c].open]

Counted(n) == \E rows, older, lastRows, before :
    Tallied(NeverFinal, Linked, Flight, Passed, Todo, Opened, rows, older, lastRows, before, n)

LEMMA TalliesAre ==
    ASSUME Safe
    PROVE  /\ NeverFinal \in SUBSET Linked /\ NeverFinal \in SUBSET Ids /\ Linked \in SUBSET Ids
           /\ Flight \in SUBSET Callers /\ Passed \in SUBSET Flight
           /\ Opened \in [Callers -> Nat]
           /\ \A c \in Callers : Todo[c] = call[c].todo /\ Opened[c] = call[c].open
BY SafeKnows DEF NeverFinal, Linked, Flight, Passed, OnItsWay, Todo, Opened, Call

\* Only an insert links a task, and only a creation sets one to work that was not.
LEMMA UnfinishedShrink ==
    ASSUME Safe, Core \/ \E c \in Callers : CallerSteps(c) /\ ~Insert(c)
    PROVE  NeverFinal' \subseteq NeverFinal /\ Linked' = Linked
<1>1. /\ issue \in [Ids -> Status] /\ link \in [Ids -> Link] /\ past \in [Ids -> Past]
      /\ \A i \in Ids : TaskOK(i)
      /\ \A c \in Callers : CallOK(call[c])
  BY SafeKnows
<1>2. SUFFICES \A i \in Ids :
         /\ link'[i].kept = link[i].kept
         /\ (past[i].final => past'[i].final)
         /\ (link[i].kept /\ issue'[i] \in Working => (issue[i] \in Working \/ past[i].final))
  BY DEF NeverFinal, Linked, IsOpen
<1>3. CASE UNCHANGED <<issue, link, past>>
  BY <1>3
<1>4. ASSUME NEW i \in Ids, MarkClosed(i) \/ link' = [link EXCEPT ![i].waiting = TRUE] \/ UNCHANGED link,
             UNCHANGED <<issue, past>>
      PROVE  \A j \in Ids :
         /\ link'[j].kept = link[j].kept
         /\ (past[j].final => past'[j].final)
         /\ (link[j].kept /\ issue'[j] \in Working => (issue[j] \in Working \/ past[j].final))
  BY <1>1, <1>4 DEF Link, MarkClosed
<1>5. ASSUME NEW i \in Ids, Cancelled(i), UNCHANGED link
      PROVE  \A j \in Ids :
         /\ link'[j].kept = link[j].kept
         /\ (past[j].final => past'[j].final)
         /\ (link[j].kept /\ issue'[j] \in Working => (issue[j] \in Working \/ past[j].final))
  BY <1>1, <1>5 DEF Cancelled, Past, Working
<1>6. CASE Core
  <2>1. Growing
    BY <1>6, CoreIs
  <2>2. link' = link
    BY <1>6 DEF Core, Move, Reopen, Delete, Tick
  <2>3. ASSUME NEW i \in Ids, issue'[i] \in Working
        PROVE  issue[i] \in Working \/ past[i].final
    BY <1>1, <1>6, <2>3 DEF Core, Move, Set, Reopen, Delete, Tick, TaskOK, Working
  <2>4. QED
    BY <2>1, <2>2, <2>3 DEF Growing
<1>7. ASSUME NEW c \in Callers, CallerSteps(c), ~Insert(c)
      PROVE  \A j \in Ids :
         /\ link'[j].kept = link[j].kept
         /\ (past[j].final => past'[j].final)
         /\ (link[j].kept /\ issue'[j] \in Working => (issue[j] \in Working \/ past[j].final))
  <2>1. CASE Begin(c) \/ Fail(c)
    BY <1>3, <2>1 DEF Begin, BeginStart, BeginCancel, BeginLoad, Fail
  <2>2. CASE \/ CheckRate(c) \/ ReadOpenRows(c) \/ CountOne(c) \/ CheckOpen(c)
             \/ Find(c) \/ ReadStatus(c) \/ LoadRow(c) \/ LoadIssue(c)
    BY <1>3, <2>2 DEF CheckRate, ReadOpenRows, CountOne, CheckOpen, Find, ReadStatus, LoadRow, LoadIssue
  <2>3. CASE CloseCounted(c) \/ CloseRefused(c) \/ Conflict(c) \/ CloseCancelled(c) \/ LoadClose(c)
    <3>1. call[c].id \in Ids
      BY <1>1, <2>3 DEF CloseCounted, CloseRefused, Conflict, CloseCancelled, LoadClose, At, CallOK
    <3>2. (MarkClosed(call[c].id) \/ UNCHANGED link) /\ UNCHANGED <<issue, past>>
      BY <2>3 DEF CloseCounted, CloseRefused, Conflict, CloseCancelled, LoadClose, CloseRow
    <3>3. QED
      BY <1>4, <3>1, <3>2
  <2>4. CASE Create(c)
    <3>1. PICK i \in Ids : /\ issue[i] = "none" /\ issue' = [issue EXCEPT ![i] = "todo"]
                           /\ past' = [past EXCEPT ![i].final = @ \/ "todo" \in Final] /\ link' = link
      BY <2>4 DEF Create, Set
    <3>2. \A j \in Ids : past[j].final => past'[j].final
      BY <1>1, <3>1 DEF Past, Final
    <3>3. ~link[i].kept
      BY <1>1, <3>1 DEF TaskOK
    <3>4. QED
      BY <1>1, <3>1, <3>2, <3>3
  <2>5. CASE Undo(c) \/ CancelRefused(c) \/ Update(c)
    BY <1>1, <2>5, <1>3, <1>5 DEF Undo, CancelRefused, Update, At, CallOK
  <2>6. CASE Wake(c)
    BY <2>6, <1>1 DEF Wake, Past
  <2>7. CASE SetReason(c) \/ AuditRefused(c) \/ AuditCancel(c)
    BY <1>1, <2>7, <1>4 DEF SetReason, AuditRefused, AuditCancel, At, CallOK
  <2>8. QED
    BY <1>7, <2>1, <2>2, <2>3, <2>4, <2>5, <2>6, <2>7 DEF CallerSteps, Step
<1>8. QED
  BY <1>6, <1>7

\* How a step of a call moves it among the starts on their way.
LEMMA StageMoves ==
    ASSUME Safe, NEW c \in Callers, CallerSteps(c)
    PROVE  /\ \A d \in Callers \ {c} : call'[d] = call[d]
           /\ \/ ~OnItsWay(call'[c])
              \/ ReadOpenRows(c)
              \/ CountOne(c)
              \/ CheckOpen(c) /\ Creating(call'[c])
              \/ /\ Counting(call[c]) /\ Counting(call'[c])
                 /\ call'[c].todo = call[c].todo /\ call'[c].open = call[c].open
              \/ Creating(call[c]) /\ Creating(call'[c])
                 /\ call'[c].todo = call[c].todo /\ call'[c].open = call[c].open
<1>1. call \in [Callers -> Call] /\ call[c] \in Call
  BY SafeKnows
<1>2. Return(c) => call'[c] = Idle /\ \A d \in Callers \ {c} : call'[d] = call[d]
  BY <1>1 DEF Return
<1>3. \A step : Goto(c, step) => call'[c].pc = step /\ \A d \in Callers \ {c} : call'[d] = call[d]
  BY <1>1 DEF Goto, Call
<1>4. ~OnItsWay(Idle)
  BY IdleIs DEF OnItsWay, Counting, Creating
<1>5. CASE Begin(c)
  <2>1. PICK k : call' = [call EXCEPT ![c] = k] /\ k.pc \in {"rate", "find", "load"}
    <3>1. \A who : [Idle EXCEPT !.pc = "rate", !.who = who].pc = "rate"
      BY IdleIs DEF Call
    <3>2. \A who, i, done : [Idle EXCEPT !.pc = "find", !.who = who, !.id = i, !.done = done].pc = "find"
      BY IdleIs DEF Call
    <3>3. \A who, i : [Idle EXCEPT !.pc = "load", !.who = who, !.id = i].pc = "load"
      BY IdleIs DEF Call
    <3>4. ASSUME NEW who, BeginStart(c, who)
          PROVE  \E k : call' = [call EXCEPT ![c] = k] /\ k.pc \in {"rate", "find", "load"}
      BY <3>1, <3>4 DEF BeginStart
    <3>5. ASSUME NEW who, NEW i, BeginCancel(c, who, i)
          PROVE  \E k : call' = [call EXCEPT ![c] = k] /\ k.pc \in {"rate", "find", "load"}
      BY <3>2, <3>5 DEF BeginCancel
    <3>6. ASSUME NEW who, NEW i, BeginLoad(c, who, i)
          PROVE  \E k : call' = [call EXCEPT ![c] = k] /\ k.pc \in {"rate", "find", "load"}
      BY <3>3, <3>6 DEF BeginLoad
    <3>7. QED
      BY <1>5, <3>4, <3>5, <3>6 DEF Begin
  <2>2. call'[c].pc \in {"rate", "find", "load"} /\ \A d \in Callers \ {c} : call'[d] = call[d]
    BY <1>1, <2>1
  <2>3. QED
    BY <2>2 DEF OnItsWay, Counting, Creating
<1>6. CASE Return(c)
  BY <1>2, <1>4, <1>6
<1>7. ASSUME NEW step \in {"openRows", "wake", "undo", "reason", "refused", "refusedClose", "refusedAudit",
                           "update", "conflict", "audit", "cancelClose", "loadClose"}, Goto(c, step)
      PROVE  ~OnItsWay(call'[c]) /\ \A d \in Callers \ {c} : call'[d] = call[d]
  BY <1>3, <1>7 DEF OnItsWay, Counting, Creating
<1>8. CASE CheckRate(c)
  BY <1>6, <1>7, <1>8 DEF CheckRate
<1>9. CASE ReadOpenRows(c)
  BY <1>1, <1>9 DEF ReadOpenRows
<1>10. CASE CountOne(c)
  BY <1>1, <1>10 DEF CountOne
<1>11. CASE CloseCounted(c)
  BY <1>11, <1>1 DEF CloseCounted, At, Call, Counting
<1>12. CASE CheckOpen(c)
  BY <1>12, <1>3, <1>6 DEF CheckOpen, Creating
<1>13. CASE Create(c)
  BY <1>13, <1>1 DEF Create, At, Call, Creating
<1>14. CASE Find(c) \/ LoadRow(c)
  BY <1>14, <1>1, <1>6 DEF Find, LoadRow, OnItsWay, Counting, Creating, Call
<1>15. CASE \/ Insert(c) \/ Undo(c) \/ Wake(c) \/ SetReason(c)
            \/ CancelRefused(c) \/ CloseRefused(c) \/ AuditRefused(c)
            \/ ReadStatus(c) \/ Conflict(c) \/ Update(c) \/ AuditCancel(c) \/ CloseCancelled(c)
            \/ LoadIssue(c) \/ LoadClose(c) \/ Fail(c)
  <2>1. \/ Return(c)
        \/ \E step \in {"openRows", "wake", "undo", "reason", "refused", "refusedClose", "refusedAudit",
                        "update", "conflict", "audit", "cancelClose", "loadClose"} : Goto(c, step)
    BY <1>15 DEF Insert, Undo, Wake, SetReason, CancelRefused, CloseRefused, AuditRefused, ReadStatus,
       Conflict, Update, AuditCancel, CloseCancelled, LoadIssue, LoadClose, Fail
  <2>2. QED
    BY <1>6, <1>7, <2>1
<1>16. QED
  BY <1>5, <1>8, <1>9, <1>10, <1>11, <1>12, <1>13, <1>14, <1>15 DEF CallerSteps, Step

LEMMA OneMoves ==
    ASSUME NEW X \in SUBSET Callers, NEW Y \in SUBSET Callers, NEW c \in Callers,
           \A d \in Callers \ {c} : d \in X <=> d \in Y
    PROVE  /\ (c \in X <=> c \in Y) => X = Y
           /\ c \in X => X = Y \cup {c}
           /\ c \notin X => X = Y \ {c}
OBVIOUS

\* A step of the core: the starts stay where they are.
LEMMA CountedWithTheCore ==
    ASSUME NEW n \in Nat, Safe, Counted(n), Core
    PROVE  Counted(n)'
<1>1. Safe' /\ call' = call /\ NeverFinal' \subseteq NeverFinal /\ Linked' = Linked
  BY CoreKeeps, CoreIs, UnfinishedShrink
<1>2. Flight' = Flight /\ Passed' = Passed /\ Todo' = Todo /\ Opened' = Opened
  BY <1>1 DEF Flight, Passed, Todo, Opened
<1>3. PICK rows, older, lastRows, before :
         Tallied(NeverFinal, Linked, Flight, Passed, Todo, Opened, rows, older, lastRows, before, n)
  BY DEF Counted
<1>4. Tallied(NeverFinal', Linked', Flight, Passed, Todo, Opened, rows, older, lastRows, before, n)
  BY <1>1, <1>3, TalliesAre, TallyShrinks
<1>5. QED
  BY <1>2, <1>4 DEF Counted

LEMMA CountedWithACall ==
    ASSUME NEW n \in Nat, Safe, Counted(n), NEW c \in Callers, CallerSteps(c),
           Cardinality(Flight \cup {c}) <= n
    PROVE  Counted(n)'
<1>1. /\ Safe' /\ \A d \in Callers \ {c} : call'[d] = call[d]
      /\ NeverFinal' \in SUBSET Ids /\ Linked' \in SUBSET Ids /\ NeverFinal \in SUBSET Ids
      /\ NeverFinal \in SUBSET Linked /\ Linked \in SUBSET Ids
      /\ Opened' \in [Callers -> Nat] /\ Opened \in [Callers -> Nat]
      /\ Flight \in SUBSET Callers /\ Passed \in SUBSET Flight
      /\ \A d \in Callers : /\ Todo[d] = call[d].todo /\ Opened[d] = call[d].open
                            /\ Todo'[d] = call'[d].todo /\ Opened'[d] = call'[d].open
  BY StepKeeps, StageMoves, TalliesAre DEF Todo, Opened, NeverFinal, Linked, Safe, TypeOK, Call
<1>2. PICK rows, older, lastRows, before :
         Tallied(NeverFinal, Linked, Flight, Passed, Todo, Opened, rows, older, lastRows, before, n)
  BY DEF Counted
<1>3. /\ \A d \in Callers \ {c} : (d \in Flight' <=> d \in Flight) /\ (d \in Passed' <=> d \in Passed)
      /\ \A d \in Callers \ {c} : Todo'[d] = Todo[d] /\ Opened'[d] = Opened[d]
      /\ c \in Flight <=> OnItsWay(call[c])
      /\ c \in Passed <=> Creating(call[c])
      /\ c \in Flight' <=> OnItsWay(call'[c])
      /\ c \in Passed' <=> Creating(call'[c])
  BY <1>1 DEF Flight, Passed
<1>4. Flight' \subseteq Callers /\ Passed' \subseteq Callers /\ Passed \subseteq Callers
  BY DEF Flight, Passed
<1>5. ~Insert(c) => NeverFinal' \subseteq NeverFinal /\ Linked' = Linked
  BY UnfinishedShrink
<1>6. CASE c \notin Flight /\ c \notin Flight' /\ ~Insert(c)
  <2>1. Flight' = Flight /\ Passed' = Passed
    BY <1>1, <1>3, <1>4, <1>6 DEF OnItsWay
  <2>2. \A d \in Flight : Todo'[d] = Todo[d] /\ Opened'[d] = Opened[d]
    BY <1>1, <1>3, <1>6
  <2>3. Tallied(NeverFinal', Linked', Flight, Passed, Todo', Opened', rows, older, lastRows, before, n)
    BY <1>1, <1>2, <1>5, <1>6, <2>2, TallyShrinks
  <2>4. QED
    BY <2>1, <2>3 DEF Counted
<1>7. CASE c \in Flight /\ c \notin Flight' /\ ~Insert(c)
  <2>1. Flight' = Flight \ {c} /\ Passed' = Passed \ {c}
    BY <1>1, <1>3, <1>4, <1>7 DEF OnItsWay
  <2>2. \A d \in Flight \ {c} : Todo'[d] = Todo[d] /\ Opened'[d] = Opened[d]
    BY <1>1, <1>3
  <2>3. /\ Linked \subseteq Linked'
        /\ (NeverFinal' \subseteq NeverFinal)
           \/ (c \in Passed /\ NoId \notin Linked /\ NeverFinal' \subseteq NeverFinal \cup {NoId})
    BY <1>5, <1>7
  <2>4. Tallied(NeverFinal', Linked', Flight \ {c}, Passed \ {c}, Todo', Opened', rows,
                WithoutIt(older, c), lastRows, before \ {c}, n)
    BY <1>1, <1>2, <1>7, <2>2, <2>3, TallyLeaves
  <2>5. QED
    BY <2>1, <2>4 DEF Counted
<1>8. CASE Insert(c)
  <2>1. /\ call[c].pc = "insert" /\ call[c].id \in Ids
        /\ issue' = issue /\ past' = past
        /\ link' = link \/ link' = [link EXCEPT ![call[c].id] = NewLink(c)]
    BY <1>8, SafeKnows DEF Insert, At, CallOK
  <2>2. c \in Passed /\ c \in Flight
    BY <1>3, <2>1 DEF Creating, OnItsWay
  <2>3. c \notin Flight'
    BY <1>8, SafeKnows, <1>3 DEF Insert, Goto, Call, OnItsWay, Counting, Creating
  <2>4. Flight' = Flight \ {c} /\ Passed' = Passed \ {c}
    BY <1>1, <1>3, <1>4, <2>2, <2>3 DEF OnItsWay
  <2>5. \A d \in Flight \ {c} : Todo'[d] = Todo[d] /\ Opened'[d] = Opened[d]
    BY <1>1, <1>3
  <2>6. /\ \A j \in Ids \ {call[c].id} : link'[j] = link[j]
        /\ link[call[c].id].kept => link'[call[c].id].kept
    BY ZenonT(40), <2>1, SafeKnows DEF NewLink, NoLink
  <2>7. Linked \subseteq Linked'
    BY <2>6 DEF Linked
  <2>8. \/ NeverFinal' \subseteq NeverFinal
        \/ c \in Passed /\ call[c].id \notin Linked /\ NeverFinal' \subseteq NeverFinal \cup {call[c].id}
    BY <2>1, <2>2, <2>6 DEF NeverFinal, Linked, IsOpen
  <2>9. Tallied(NeverFinal', Linked', Flight \ {c}, Passed \ {c}, Todo', Opened', rows,
                WithoutIt(older, c), lastRows, before \ {c}, n)
    BY <1>1, <1>2, <2>1, <2>2, <2>5, <2>7, <2>8, TallyLeaves
  <2>10. QED
    BY <2>4, <2>9 DEF Counted
<1>9. CASE ReadOpenRows(c)
  <2>1. /\ call[c].pc = "openRows" /\ UNCHANGED <<issue, link, past>>
        /\ call' = [call EXCEPT ![c].pc = "counting", ![c].todo = OpenRows, ![c].open = 0]
    BY <1>9 DEF ReadOpenRows, At
  <2>2. call'[c].pc = "counting" /\ call'[c].todo = OpenRows /\ call'[c].open = 0
    BY <2>1, SafeKnows DEF Call
  <2>3. c \notin Flight /\ c \in Flight' /\ c \notin Passed /\ c \notin Passed'
    BY <1>1, <1>3, <2>1, <2>2 DEF OnItsWay, Counting, Creating
  <2>4. Flight' = Flight \cup {c} /\ Passed' = Passed
    BY <1>1, <1>3, <1>4, <2>3
  <2>5. NeverFinal' = NeverFinal /\ Linked' = Linked
    BY <2>1 DEF NeverFinal, Linked, IsOpen
  <2>6. NeverFinal \subseteq OpenRows /\ OpenRows \subseteq Linked
    BY SafeKnows DEF NeverFinal, OpenRows, Linked, TaskOK
  <2>7. Todo'[c] = OpenRows /\ Opened'[c] = 0 /\ \A d \in Flight : Todo'[d] = Todo[d] /\ Opened'[d] = Opened[d]
    BY <1>1, <1>3, <2>2, <2>3
  <2>10. OpenRows \in SUBSET Linked /\ c \in Callers \ Flight
    BY <2>3, <2>6
  <2>8. Tallied(NeverFinal, Linked, Flight \cup {c}, Passed, Todo', Opened', Now(rows, c, OpenRows),
                 Now(older, c, Flight), lastRows, before, n)
    BY <1>1, <1>2, <2>3, <2>6, <2>7, <2>10, TallyReads
  <2>11. QED
    BY <2>4, <2>5, <2>8 DEF Counted
<1>10. CASE CountOne(c)
  <2>1. PICK i \in call[c].todo :
           /\ call[c].pc = "counting" /\ UNCHANGED <<issue, link, past>>
           /\ call' = [call EXCEPT ![c].todo = @ \ {i}, ![c].open = IF IsOpen(i) THEN @ + 1 ELSE @,
                         ![c].id = IF issue[i] \in Final THEN i ELSE NoId,
                         ![c].pc = IF issue[i] \in Final THEN "close" ELSE "counting"]
    BY <1>10 DEF CountOne, At
  <2>2. /\ call'[c].pc \in {"close", "counting"} /\ call'[c].todo = call[c].todo \ {i}
        /\ call'[c].open = IF IsOpen(i) THEN call[c].open + 1 ELSE call[c].open
    BY <2>1, SafeKnows DEF Call
  <2>3. c \in Flight /\ c \in Flight' /\ c \notin Passed /\ c \notin Passed'
    BY <1>1, <1>3, <2>1, <2>2 DEF OnItsWay, Counting, Creating
  <2>9. \A d \in Callers : (d \in Flight' <=> d \in Flight) /\ (d \in Passed' <=> d \in Passed)
    BY <1>3, <2>3
  <2>4. Flight' = Flight /\ Passed' = Passed
    BY <1>1, <1>4, <2>9
  <2>5. NeverFinal' = NeverFinal /\ Linked' = Linked
    BY <2>1 DEF NeverFinal, Linked, IsOpen
  <2>6. CountsOne(NeverFinal, Todo[c], Opened[c], Todo'[c], Opened'[c])
    BY <1>1, <2>1, <2>2 DEF NeverFinal, CountsOne
  <2>7. \A d \in Flight \ {c} : Todo'[d] = Todo[d] /\ Opened'[d] = Opened[d]
    BY <1>1, <1>3
  <2>8. Tallied(NeverFinal, Linked, Flight, Passed, Todo', Opened', rows, older, lastRows, before, n)
    BY <1>1, <1>2, <2>3, <2>6, <2>7, TallyCounts
  <2>10. QED
    BY <2>4, <2>5, <2>8 DEF Counted
<1>11. CASE CheckOpen(c) /\ Creating(call'[c])
  <2>1. /\ call[c].pc = "counting" /\ call[c].todo = {} /\ UNCHANGED <<issue, link, past>>
        /\ Return(c) \/ (Goto(c, "create") /\ ~(call[c].open >= OpenLimit))
    BY <1>11 DEF CheckOpen, At
  <2>2. ~Return(c)
    BY <1>11, SafeKnows, IdleIs DEF Return, Creating
  <2>3. /\ call'[c].pc = "create" /\ call'[c].todo = call[c].todo /\ call'[c].open = call[c].open
        /\ call[c].open < OpenLimit
    BY SafeKnows, ConstantsAssumption, <2>1, <2>2 DEF Call, Goto
  <2>4. c \in Flight /\ c \in Flight' /\ c \in Passed'
    BY <1>1, <1>3, <2>1, <2>3 DEF OnItsWay, Counting, Creating
  <2>11. \A d \in Callers : (d \in Flight' <=> d \in Flight) /\ (d \in Passed' <=> d \in Passed \/ d = c)
    BY <1>3, <2>4
  <2>5. Flight' = Flight /\ Passed' = Passed \cup {c}
    BY <1>1, <1>4, <2>11
  <2>6. NeverFinal' = NeverFinal /\ Linked' = Linked
    BY <2>1 DEF NeverFinal, Linked, IsOpen
  <2>7. Todo' = Todo /\ Opened' = Opened
    BY <1>1, <2>3 DEF Todo, Opened
  <2>8. Todo[c] = {} /\ Opened[c] < OpenLimit
    BY <1>1, <2>1, <2>3
  <2>9. \E lastRows2, before2 :
          Tallied(NeverFinal, Linked, Flight, Passed \cup {c}, Todo, Opened, rows, older, lastRows2, before2, n)
    BY <1>1, <1>2, <2>4, <2>8, TallyPasses
  <2>10. QED
    BY <2>5, <2>6, <2>7, <2>9 DEF Counted
<1>12. CASE /\ ~Insert(c)
            /\ \/ Counting(call[c]) /\ Counting(call'[c])
               \/ Creating(call[c]) /\ Creating(call'[c])
            /\ call'[c].todo = call[c].todo /\ call'[c].open = call[c].open
  <2>4. (c \in Flight' <=> c \in Flight) /\ (c \in Passed' <=> c \in Passed)
    BY <1>3, <1>12 DEF OnItsWay, Counting, Creating
  <2>7. \A d \in Callers : (d \in Flight' <=> d \in Flight) /\ (d \in Passed' <=> d \in Passed)
    BY <1>3, <2>4
  <2>1. Flight' = Flight /\ Passed' = Passed
    BY <1>1, <1>4, <2>7
  <2>2. \A d \in Flight : Todo'[d] = Todo[d] /\ Opened'[d] = Opened[d]
    BY <1>1, <1>3, <1>12
  <2>3. Tallied(NeverFinal', Linked', Flight, Passed, Todo', Opened', rows, older, lastRows, before, n)
    BY <1>1, <1>2, <1>5, <1>12, <2>2, TallyShrinks
  <2>5. QED
    BY <2>1, <2>3 DEF Counted
<1>13. QED
  BY <1>3, <1>6, <1>7, <1>8, <1>9, <1>10, <1>11, <1>12, StageMoves

-----------------------------------------------------------------------------
(* The two scenes: with one call at a time, the limit is never passed      *)

Inv ==
    /\ Safe /\ scene \in {"racing", "serial"}
    /\ scene = "racing" => Counted(Cardinality(Callers))
    /\ scene = "serial" => Counted(1)

LEMMA InvInitially == ScenesInit => Inv
<1> SUFFICES ASSUME ScenesInit
             PROVE  Inv
  OBVIOUS
<1>1. Init /\ scene \in {"racing", "serial"} /\ Safe
  BY SafeInitially DEF ScenesInit
<1>2. call = [c \in Callers |-> Idle] /\ link = [i \in Ids |-> NoLink]
  BY <1>1 DEF Init
<1>3. NeverFinal = {} /\ Linked = {} /\ Flight = {} /\ Passed = {}
  BY <1>2, IdleIs DEF NeverFinal, Linked, Flight, Passed, NoLink, OnItsWay, Counting, Creating
<1>4. Cardinality({} \cap {}) = 0 /\ Cardinality({} \ {}) = 0 /\ Cardinality({}) = 0
  BY FS_EmptySet
<1>5. [c \in Callers |-> {}] \in [Callers -> SUBSET Ids] /\ [c \in Callers |-> {}] \in [Callers -> SUBSET Callers]
  OBVIOUS
<1>6. ASSUME NEW n \in Nat
      PROVE  Counted(n)
  <2>1. Tallied({}, {}, {}, {}, Todo, Opened, [c \in Callers |-> {}], [c \in Callers |-> {}], {}, {}, n)
    BY <1>4, <1>5, ConstantsAssumption DEF Tallied
  <2>2. QED
    BY <1>3, <2>1 DEF Counted
<1>7. Cardinality(Callers) \in Nat /\ 1 \in Nat
  BY SmallSets
<1>9. QED
  BY <1>1, <1>6, <1>7 DEF Inv

LEMMA InvInductive == Inv /\ [ScenesNext]_<<vars, scene>> => Inv'
<1> SUFFICES ASSUME Inv, [ScenesNext]_<<vars, scene>>
             PROVE  Inv'
  OBVIOUS
<1>1. Safe /\ Safe' /\ scene' = scene /\ scene \in {"racing", "serial"} /\ Cardinality(Callers) \in Nat
  BY ScenesStep, SafeInductive, SmallSets DEF Inv
<1>2. CASE UNCHANGED <<vars, scene>>
  <2>1. /\ UNCHANGED vars /\ NeverFinal' = NeverFinal /\ Linked' = Linked /\ Flight' = Flight
        /\ Passed' = Passed /\ Todo' = Todo /\ Opened' = Opened
    BY <1>2 DEF vars, NeverFinal, Linked, Flight, Passed, Todo, Opened, IsOpen
  <2>2. \A n : Counted(n) => Counted(n)'
    BY <2>1 DEF Counted
  <2>3. QED
    BY <1>1, <2>2 DEF Inv
<1>3. ASSUME scene = "racing", Racing
      PROVE  Counted(Cardinality(Callers))'
  BY <1>3, <1>1, CountedWithTheCore, Fewer, ConstantsAssumption, CountedWithACall DEF Inv,
     Flight, Racing, Core
<1>4. ASSUME scene = "serial", Serial
      PROVE  Counted(1)'
  <2>1. Counted(1) /\ 1 \in Nat
    BY <1>4 DEF Inv
  <2>2. CASE Core
    BY <1>1, <2>1, <2>2, CountedWithTheCore
  <2>3. ASSUME NEW c \in Callers, CallerSteps(c), \A d \in Callers \ {c} : At(d, "idle")
        PROVE  Counted(1)'
    <3>1. Flight \cup {c} = {c}
      BY <2>3 DEF Flight, OnItsWay, Counting, Creating, At
    <3>2. Cardinality(Flight \cup {c}) = 1
      BY <3>1, FS_Singleton
    <3>3. QED
      BY <1>1, <2>1, <2>3, <3>2, CountedWithACall
  <2>4. QED
    BY <1>4, <2>2, <2>3 DEF Serial
<1>5. CASE ScenesNext
  BY <1>1, <1>3, <1>4, <1>5 DEF ScenesNext, Inv
<1>6. QED
  BY <1>2, <1>5

LEMMA CountedIsBounded ==
    ASSUME NEW n \in Nat, Safe, Counted(n)
    PROVE  OvershootIsBounded(n)
BY TalliesAre, TallyBounds DEF Counted, OvershootIsBounded

LEMMA InvIsEnough == Inv => LimitsHold
<1> SUFFICES ASSUME Inv
             PROVE  LimitsHold
  OBVIOUS
<1>1. Safe /\ TypeOK /\ scene \in {"racing", "serial"} /\ Cardinality(Callers) \in Nat /\ 1 \in Nat
  BY SmallSets DEF Inv, Safe
<1>2. CASE scene = "serial"
  BY <1>1, <1>2, CountedIsBounded DEF Inv, LimitsHold, OvershootIsBounded
<1>3. CASE scene = "racing"
  BY <1>1, <1>3, CountedIsBounded DEF Inv, LimitsHold, OvershootIsBounded
<1>4. QED
  BY <1>1, <1>2, <1>3

\* However many starts race, an app's unfinished tasks pass its limit by no more than
\* the other calls in flight, and where one call runs at a time they never pass it
\* (TaskService.start, openCount).
THEOREM LimitsAreHeld == ScenesSpec => []LimitsHold
<1>1. QED
  BY InvInitially, InvInductive, InvIsEnough, PTL DEF ScenesSpec
=============================================================================
