-------------------------- MODULE TerminalPageProofs --------------------------
(***************************************************************************)
(* Theorems about TerminalPage, for every number of sessions, calls and    *)
(* generations, whatever requests are lost and whoever ends the session.   *)
(* PageInv is the inductive invariant: what the screen shows up to the     *)
(* tracker's mark (ScreenOK), how far the mark is behind the session       *)
(* (MarkOK), whose the loop is (LoopOK), and that the one request under    *)
(* way asks from the mark (CallsOK).                                       *)
(***************************************************************************)
EXTENDS MCTerminalPage, TerminalSessionsProofs

-----------------------------------------------------------------------------
(* The screen                                                               *)

Seqs(pg) == {e[2] : e \in pg.shown}
\* The screen shows one session's events up to the mark, and a notice stands where some are missing.
ScreenOK(pg) ==
    /\ \A e \in pg.shown : e[1] = pg.about /\ e[2] \in Nat /\ e[2] <= pg.last
    /\ \A g \in pg.notices : g < pg.last /\ <<pg.about, g + 1>> \notin pg.shown
    /\ \A n \in 1..pg.last : n \notin Seqs(pg) =>
          \E g \in pg.notices : g < n /\ \A m \in Seqs(pg) : ~(g < m /\ m < n)
\* The mark is one the session has reached, and past a dead session's last event only with its exit.
MarkOK(pg, sessions) ==
    pg.about \in Sessions =>
        /\ sessions[pg.about].status # "forgotten" => pg.last < sessions[pg.about].next
        /\ sessions[pg.about].status = "dead" /\ pg.last >= sessions[pg.about].next - 1 => pg.exit
\* The loop is the current session's.
LoopOK(pg, lp) ==
    /\ lp.pc # "off" => lp.gen = pg.gen /\ lp.on = pg.about /\ pg.about \in Sessions
    /\ lp.pc = "ended" => pg.exit
\* A request of the current generation.
Live(pg, r) == r.why # "none" /\ r.gen = pg.gen
LiveCall(pg, lp, r, call) ==
    /\ call.pc # "idle" /\ call.on = pg.about /\ pg.about \in Sessions /\ call.after = pg.last
    /\ r.why = "resume" => lp.pc = "off"
    /\ call.pc = "answered" /\ call.answer.kind = "ok" /\ ~call.answer.alive /\ call.answer.events = <<>> => pg.exit
\* At most one is under way, none while the loop does not wait, and it goes on from the mark.
CallsOK(pg, lp, requests, calls) ==
    /\ \A p \in Polls : requests[p].gen <= pg.gen
    /\ \A p, q \in Polls : Live(pg, requests[p]) /\ Live(pg, requests[q]) => p = q
    /\ lp.pc \in {"ready", "sleeping"} => \A p \in Polls : ~Live(pg, requests[p])
    /\ \A p \in Polls : Live(pg, requests[p]) => LiveCall(pg, lp, requests[p], calls[p])

PageInv ==
    /\ SessionsInv /\ PageTypeOK
    /\ ScreenOK(page) /\ MarkOK(page, session) /\ LoopOK(page, loop) /\ CallsOK(page, loop, req, poll)

LEMMA PageIs ==
    ASSUME NEW pg \in Page
    PROVE  /\ pg.gen \in 0..MaxGen /\ pg.gen \in Nat /\ pg.last \in Nat /\ pg.opening \in SUBSET Sessions /\ pg.ending \in BOOLEAN
           /\ pg.about \in Sessions \cup {NoSession} /\ pg.shown \in SUBSET (Sessions \X Nat)
           /\ pg.notices \in SUBSET Nat /\ pg.text \in Nat /\ pg.exit \in BOOLEAN
BY PageAssumption DEF Page

LEMMA LoopIs ==
    ASSUME NEW lp \in Loop
    PROVE  /\ lp.pc \in {"off", "ready", "polling", "sleeping", "ended", "failed"}
           /\ lp.gen \in 0..MaxGen /\ lp.on \in Sessions \cup {NoSession}
BY DEF Loop

\* The greatest of some numbers up to N.
LEMMA GreatestIs ==
    ASSUME NEW N \in Nat, NEW S \in SUBSET (1..N), S # {}
    PROVE  Max(S) \in S
<1>1. PICK T : T = {N - x : x \in S}
  OBVIOUS
<1>2. T \in SUBSET Nat /\ T # {}
  <2>1. \A x \in S : x \in 1..N /\ N - x \in Nat
    OBVIOUS
  <2>2. PICK x : x \in S
    OBVIOUS
  <2>3. QED
    BY <1>1, <2>1, <2>2
<1>3. PICK k \in T : \A m \in T : k <= m
  BY <1>2, LeastNumber
<1>4. PICK x \in S : k = N - x
  BY <1>1, <1>3
<1>5. \A y \in S : x >= y
  <2>1. SUFFICES ASSUME NEW y \in S
                 PROVE  x >= y
    OBVIOUS
  <2>2. N - x <= N - y
    BY <1>1, <1>3, <1>4
  <2>3. x \in Nat /\ y \in Nat
    OBVIOUS
  <2>4. QED
    BY <2>2, <2>3
<1>6. \E z \in S : \A y \in S : z >= y
  BY <1>5
<1>7. (CHOOSE z \in S : \A y \in S : z >= y) \in S
  BY <1>6
<1>8. QED
  BY <1>7 DEF Max

\* What comes of an answer that goes on from the mark.
LEMMA Applied ==
    ASSUME NEW pg \in Page, ScreenOK(pg), pg.about \in Sessions, NEW a \in Answer, Honest(a, pg.last),
           \A i \in 1..Len(a.events) : a.events[i].seq > pg.last
    PROVE  LET r == Apply(pg, pg.about, a)
           IN  /\ r \in Page /\ ScreenOK(r)
               /\ r.gen = pg.gen /\ r.about = pg.about
               /\ pg.exit => r.exit
               /\ a.events = <<>> => r.last = pg.last
               /\ a.events # <<>> => r.last = Last(a.events).seq /\ (Last(a.events).type = "exit" => r.exit)
<1>1. PICK ev \in Seq(Event) : ev = a.events
  BY DEF Answer
<1>2. PICK N \in Nat : N = Len(ev)
  BY BufferIs
<1>3. /\ DOMAIN ev = 1..N
      /\ \A i \in 1..N : /\ ev[i].seq \in Nat /\ ev[i].at \in Nat /\ ev[i].units \in Nat
                         /\ ev[i].type \in {"output", "exit"} /\ ev[i].seq > pg.last
  BY <1>1, <1>2, BufferIs
<1>4. PICK out : out = {i \in 1..N : ev[i].type = "output"}
  OBVIOUS
<1>5. PICK d \in Nat : d = pg.last
  BY PageIs
<1>6. PICK s \in Sessions : s = pg.about
  OBVIOUS
<1>7. {i \in DOMAIN a.events : a.events[i].seq > pg.last} = 1..N
  BY <1>1, <1>3
<1>8. PICK r : r = Apply(pg, s, a)
  OBVIOUS
<1>9. PICK sh, la, tx :
          /\ sh = {<<s, ev[i].seq>> : i \in 1..N}
          /\ la = ev[Len(ev)].seq
          /\ tx = ev[Max(out)].at + ev[Max(out)].units
  OBVIOUS
<1>10. /\ r.notices = IF a.truncated THEN pg.notices \cup {d} ELSE pg.notices
       /\ r.shown = pg.shown \cup sh
       /\ r.last = IF 1..N = {} THEN d ELSE la
       /\ r.text = IF out = {} THEN pg.text ELSE tx
       /\ r.exit = (pg.exit \/ 1..N # out)
       /\ r.gen = pg.gen /\ r.about = s /\ r.opening = pg.opening /\ r.ending = pg.ending
       /\ r = [pg EXCEPT !.notices = r.notices, !.shown = r.shown, !.last = r.last, !.text = r.text, !.exit = r.exit]
  <2>1. PICK past : past = {i \in DOMAIN a.events : a.events[i].seq > pg.last}
    OBVIOUS
  <2>2. past = 1..N
    BY <1>7, <2>1
  <2>3. PICK texts : texts = {i \in past : a.events[i].type = "output"}
    OBVIOUS
  <2>4. texts = out
    BY <1>1, <1>4, <2>2, <2>3
  <2>5. PICK sh1, la1, tx1 :
            /\ sh1 = {<<s, a.events[i].seq>> : i \in past}
            /\ la1 = a.events[Len(a.events)].seq
            /\ tx1 = a.events[Max(texts)].at + a.events[Max(texts)].units
    OBVIOUS
  <2>6. r = [pg EXCEPT
               !.notices = IF a.truncated THEN @ \cup {pg.last} ELSE @,
               !.shown = @ \cup sh1,
               !.last = IF past = {} THEN @ ELSE la1,
               !.text = IF texts = {} THEN @ ELSE tx1,
               !.exit = @ \/ past # texts]
    BY <1>8, <2>1, <2>3, <2>5 DEF Apply
  <2>7. sh1 = sh /\ la1 = la /\ tx1 = tx
    BY <1>1, <1>9, <2>2, <2>4, <2>5
  <2>8. /\ r.notices = IF a.truncated THEN pg.notices \cup {d} ELSE pg.notices
        /\ r.shown = pg.shown \cup sh
        /\ r.last = IF 1..N = {} THEN d ELSE la
        /\ r.text = IF out = {} THEN pg.text ELSE tx
        /\ r.exit = (pg.exit \/ 1..N # out)
        /\ r.gen = pg.gen /\ r.about = s /\ r.opening = pg.opening /\ r.ending = pg.ending
    BY <1>5, <1>6, <2>2, <2>4, <2>6, <2>7 DEF Page
  <2>9. QED
    BY <2>6, <2>8 DEF Page
<1>11. N = 0 <=> 1..N = {}
  OBVIOUS
<1>12. ev = <<>> <=> N = 0
  BY <1>2, EmptySeq
<1>13. N # 0 => N \in 1..N /\ Last(ev) = ev[N] /\ r.last = ev[N].seq /\ ev[N].seq > d
  <2>1. SUFFICES ASSUME N # 0
                 PROVE  N \in 1..N /\ Last(ev) = ev[N] /\ r.last = ev[N].seq /\ ev[N].seq > d
    OBVIOUS
  <2>2. N \in 1..N /\ 1..N # {}
    BY <2>1
  <2>3. Last(ev) = ev[N]
    BY <1>2 DEF Last
  <2>4. r.last = la /\ la = ev[N].seq
    BY <1>2, <1>9, <1>10, <2>2
  <2>5. QED
    BY <1>3, <1>5, <2>2, <2>3, <2>4
<1>14. N = 0 => r.last = d
  BY <1>9, <1>10, <1>11
<1>15. r.last \in Nat /\ r.last >= d
  BY <1>14, <1>3, <1>13
<1>16. \A i \in 1..N : i < N => ev[i + 1].seq = ev[i].seq + 1
  BY <1>1, <1>2 DEF Honest
<1>17. \A i \in 1..N : ev[i].seq = ev[1].seq + i - 1
  <2>1. SUFFICES ASSUME N # 0
                 PROVE  \A i \in 1..N : ev[i].seq = ev[1].seq + i - 1
    OBVIOUS
  <2>2. PICK f \in Nat : f = ev[1].seq
    BY <2>1, <1>3
  <2> DEFINE Good == {i \in Nat : i + 1 \in 1..N => ev[i + 1].seq = f + i}
  <2>3. 0 \in Good
    BY <2>2
  <2>4. ASSUME NEW i \in Nat, i \in Good
        PROVE  i + 1 \in Good
    BY <2>4, <1>16
  <2> HIDE DEF Good
  <2>5. \A i \in Nat : i \in Good
    BY <2>3, <2>4, AllNumbers
  <2>6. ASSUME NEW i \in 1..N
        PROVE  ev[i].seq = f + i - 1
    <3>1. i - 1 \in Nat /\ i - 1 + 1 = i
      OBVIOUS
    <3>2. i - 1 \in Good
      BY <2>5, <3>1
    <3>3. ev[i].seq = f + (i - 1)
      BY <3>1, <3>2 DEF Good
    <3>4. QED
      BY <3>3
  <2>7. QED
    BY <2>2, <2>6
<1>18. r \in Page
  <2>1. r.shown \in SUBSET (Sessions \X Nat)
    <3>1. pg.shown \in SUBSET (Sessions \X Nat)
      BY PageIs
    <3>2. \A i \in 1..N : <<s, ev[i].seq>> \in Sessions \X Nat
      BY <1>3
    <3>3. sh \subseteq Sessions \X Nat
      BY <1>9, <3>2
    <3>4. r.shown = pg.shown \cup sh
      BY <1>10
    <3>5. QED
      BY <3>1, <3>3, <3>4
  <2>2. r.notices \in SUBSET Nat
    BY <1>9, <1>10, PageIs
  <2>3. r.text \in Nat
    <3>1. CASE out = {}
      BY <1>9, <1>10, <3>1, PageIs
    <3>2. CASE out # {}
      <4>1. Max(out) \in out
        BY <1>4, <3>2, GreatestIs
      <4>2. Max(out) \in 1..N
        BY <1>4, <4>1
      <4>3. ev[Max(out)].at \in Nat /\ ev[Max(out)].units \in Nat
        BY <1>3, <4>2
      <4>4. r.text = ev[Max(out)].at + ev[Max(out)].units
        BY <1>9, <1>10, <3>2
      <4>5. QED
        BY <4>3, <4>4
    <3>3. QED
      BY <3>1, <3>2
  <2>4. r.exit \in BOOLEAN
    BY <1>9, <1>10
  <2>5. PICK notes, seen, mark, far, gone :
            /\ notes = r.notices /\ seen = r.shown /\ mark = r.last
            /\ far = r.text /\ gone = r.exit
    OBVIOUS
  <2>6. r = [pg EXCEPT !.notices = notes, !.shown = seen, !.last = mark, !.text = far, !.exit = gone]
    BY <1>9, <1>10, <2>5
  <2>7. QED
    BY <1>15, <2>1, <2>2, <2>3, <2>4, <2>5, <2>6 DEF Page
<1>19. \A e \in r.shown : e[1] = s /\ e[2] \in Nat /\ e[2] <= r.last
  <2>1. ASSUME NEW e \in pg.shown
        PROVE  e[1] = s /\ e[2] \in Nat /\ e[2] <= r.last
    BY <1>5, <1>6, <1>15 DEF ScreenOK
  <2>2. ASSUME NEW i \in 1..N
        PROVE  ev[i].seq \in Nat /\ ev[i].seq <= r.last
    BY <1>3, <1>13, <1>17
  <2>3. ASSUME NEW e \in r.shown
        PROVE  e[1] = s /\ e[2] \in Nat /\ e[2] <= r.last
    <3>1. CASE e \in pg.shown
      BY <2>1, <3>1
    <3>2. CASE e \notin pg.shown
      <4>1. PICK i \in 1..N : e = <<s, ev[i].seq>>
        BY <1>9, <1>10, <3>2
      <4>2. e[1] = s /\ e[2] = ev[i].seq
        BY <4>1
      <4>3. QED
        BY <2>2, <4>2
    <3>3. QED
      BY <3>1, <3>2
  <2>4. QED
    BY <2>3
<1>20. PICK old, new, all : /\ old = Seqs(pg) /\ new = {ev[i].seq : i \in 1..N} /\ all = Seqs(r)
  OBVIOUS
<1>21. all = old \cup new
  <2>1. all = {e[2] : e \in pg.shown} \cup {e[2] : e \in {<<s, ev[i].seq>> : i \in 1..N}}
    BY <1>9, <1>10, <1>20 DEF Seqs
  <2>2. {e[2] : e \in {<<s, ev[i].seq>> : i \in 1..N}} = new
    <3>1. \A i \in 1..N : <<s, ev[i].seq>>[2] = ev[i].seq
      OBVIOUS
    <3>2. {e[2] : e \in {<<s, ev[i].seq>> : i \in 1..N}} \subseteq new
      BY <1>20, <3>1
    <3>3. new \subseteq {e[2] : e \in {<<s, ev[i].seq>> : i \in 1..N}}
      <4>1. SUFFICES ASSUME NEW i \in 1..N
                     PROVE  ev[i].seq \in {e[2] : e \in {<<s, ev[j].seq>> : j \in 1..N}}
        BY <1>20
      <4>2. <<s, ev[i].seq>> \in {<<s, ev[j].seq>> : j \in 1..N}
        OBVIOUS
      <4>3. QED
        BY <3>1, <4>2
    <3>4. QED
      BY <3>2, <3>3
  <2>3. QED
    BY <1>20, <2>1, <2>2 DEF Seqs
<1>22. (\A m \in old : m \in Nat /\ m <= d) /\ (\A m \in new : m \in Nat /\ m > d)
  BY <1>3, <1>5, <1>20 DEF ScreenOK, Seqs
<1>23. a.truncated <=> N # 0 /\ ev[1].seq > d + 1
  BY <1>1, <1>5, <1>12 DEF Honest
<1>24. ASSUME NEW g \in r.notices
       PROVE  g < r.last /\ <<s, g + 1>> \notin r.shown
  <2>1. CASE g \in pg.notices
    <3>1. g \in Nat /\ g < d /\ <<s, g + 1>> \notin pg.shown
      BY <1>5, <1>6, <2>1, PageIs DEF ScreenOK
    <3>2. \A i \in 1..N : g + 1 # ev[i].seq
      BY <1>3, <1>5, <3>1
    <3>3. <<s, g + 1>> \notin {<<s, ev[i].seq>> : i \in 1..N}
      <4>1. SUFFICES ASSUME NEW i \in 1..N, <<s, g + 1>> = <<s, ev[i].seq>>
                     PROVE  FALSE
        OBVIOUS
      <4>2. g + 1 = ev[i].seq
        BY <4>1
      <4>3. QED
        BY <3>2, <4>2
    <3>4. g < r.last
      BY <1>15, <3>1
    <3>5. QED
      BY <1>9, <1>10, <3>1, <3>3, <3>4
  <2>2. CASE g \notin pg.notices
    <3>1. g = d /\ a.truncated
      BY <1>9, <1>10, <2>2
    <3>2. N # 0 /\ ev[1].seq > d + 1
      BY <1>23, <3>1
    <3>3. d < r.last
      BY <1>3, <1>13, <3>2
    <3>4. PICK f \in Nat : f = ev[1].seq
      BY <3>2, <1>3
    <3>5. \A i \in 1..N : d + 1 # ev[i].seq
      <4>1. SUFFICES ASSUME NEW i \in 1..N
                     PROVE  d + 1 # ev[i].seq
        OBVIOUS
      <4>2. ev[i].seq = f + i - 1
        BY <1>17, <3>4
      <4>3. QED
        BY <3>2, <3>4, <4>2
    <3>6. <<s, d + 1>> \notin pg.shown
      <4>1. SUFFICES ASSUME <<s, d + 1>> \in pg.shown
                     PROVE  FALSE
        OBVIOUS
      <4>2. <<s, d + 1>>[2] <= d
        BY <1>5, <4>1 DEF ScreenOK
      <4>3. QED
        BY <4>2
    <3>7. <<s, d + 1>> \notin {<<s, ev[i].seq>> : i \in 1..N}
      <4>1. SUFFICES ASSUME NEW i \in 1..N, <<s, d + 1>> = <<s, ev[i].seq>>
                     PROVE  FALSE
        OBVIOUS
      <4>2. d + 1 = ev[i].seq
        BY <4>1
      <4>3. QED
        BY <3>5, <4>2
    <3>8. QED
      BY <1>9, <1>10, <3>1, <3>3, <3>6, <3>7
  <2>3. QED
    BY <2>1, <2>2
<1>25. ASSUME NEW n \in 1..r.last, n \notin all
       PROVE  \E g \in r.notices : g < n /\ \A m \in all : ~(g < m /\ m < n)
  <2>1. CASE n <= d
    <3>1. n \in 1..pg.last /\ n \notin old
      BY <1>5, <1>15, <1>21, <1>25, <2>1
    <3>2. PICK g \in pg.notices : g < n /\ \A m \in old : ~(g < m /\ m < n)
      BY <1>20, <3>1 DEF ScreenOK
    <3>3. ASSUME NEW m \in all
          PROVE  ~(g < m /\ m < n)
      BY <3>2, <1>15, <1>22, <2>1, <1>21
    <3>4. g \in r.notices
      BY <1>9, <1>10
    <3>5. QED
      BY <3>2, <3>3, <3>4
  <2>2. CASE ~(n <= d)
    <3>1. n \in Nat /\ n > d /\ n <= r.last
      BY <1>15, <2>2
    <3>2. N # 0
      BY <1>14, <3>1
    <3>3. PICK f \in Nat : f = ev[1].seq
      BY <3>2, <1>3
    <3>4. r.last = f + N - 1
      BY <1>13, <1>17, <3>2, <3>3
    <3>5. n < f
      <4>1. SUFFICES ASSUME n >= f
                     PROVE  FALSE
        BY <3>1
      <4>2. n - f + 1 \in 1..N
        BY <3>1, <3>4, <4>1
      <4>3. ev[n - f + 1].seq = f + (n - f + 1) - 1
        BY <1>17, <3>3, <4>2
      <4>4. ev[n - f + 1].seq = n
        BY <3>1, <4>3
      <4>5. n \in new
        BY <1>20, <4>2, <4>4
      <4>6. QED
        BY <1>21, <1>25, <4>5
    <3>6. a.truncated
      BY <1>23, <3>1, <3>2, <3>3, <3>5
    <3>7. d \in r.notices
      BY <1>9, <1>10, <3>6
    <3>8. ASSUME NEW m \in all
          PROVE  ~(d < m /\ m < n)
      <4>1. CASE m \in old
        BY <1>22, <4>1
      <4>2. CASE m \in new
        BY <1>20, <4>2, <1>17, <3>3, <3>1, <3>5
      <4>3. QED
        BY <1>21, <4>1, <4>2
    <3>9. QED
      BY <3>1, <3>7, <3>8
  <2>3. QED
    BY <2>1, <2>2
<1>26. ScreenOK(r)
  BY <1>9, <1>10, <1>19, <1>20, <1>24, <1>25 DEF ScreenOK
<1>27. a.events # <<>> => r.last = Last(a.events).seq /\ (Last(a.events).type = "exit" => r.exit)
  <2>1. SUFFICES ASSUME N # 0
                 PROVE  r.last = Last(ev).seq /\ (Last(ev).type = "exit" => r.exit)
    BY <1>1, <1>12
  <2>2. ev[N].type = "exit" => N \notin out
    BY <1>4
  <2>3. QED
    BY <1>9, <1>10, <1>13, <2>1, <2>2
<1>28. pg.exit => r.exit
  BY <1>9, <1>10
<1>29. QED
  BY <1>1, <1>5, <1>6, <1>8, <1>9, <1>10, <1>12, <1>14, <1>18, <1>26, <1>27, <1>28

-----------------------------------------------------------------------------
(* How the page's facts move with the sessions                              *)

LEMMA PageFacts ==
    ASSUME PageInv
    PROVE  /\ SessionsInv /\ page \in Page /\ loop \in Loop /\ req \in [Polls -> Request]
           /\ ScreenOK(page) /\ MarkOK(page, session) /\ LoopOK(page, loop) /\ CallsOK(page, loop, req, poll)
BY DEF PageInv, PageTypeOK

LEMMA Numbers ==
    ASSUME SessionsInv
    PROVE  \A s \in Sessions : session[s].next \in Nat /\ session[s] \in SessionState
BY InvFacts, StatusIs, SessionNumbers

LEMMA LaterNumbers ==
    ASSUME SessionsInv'
    PROVE  \A s \in Sessions : session'[s].next \in Nat /\ session'[s] \in SessionState
BY StatusIs, SessionNumbers DEF SessionsInv

LEMMA CallsNow == ASSUME SessionsInv PROVE \A p \in Polls : CallOK(session, poll[p]) /\ poll[p] \in Poll
BY InvFacts DEF CallOK

LEMMA CallsThen == ASSUME SessionsInv' PROVE \A p \in Polls : CallOK(session', poll'[p]) /\ poll'[p] \in Poll
BY DEF SessionsInv, CallOK

LEMMA MarkMoves ==
    ASSUME NEW pg \in Page, NEW before, NEW after, MarkOK(pg, before),
           \A s \in Sessions : before[s].next \in Nat /\ after[s].next \in Nat /\ Later(before[s], after[s])
    PROVE  MarkOK(pg, after)
<1>1. SUFFICES ASSUME pg.about \in Sessions
               PROVE  /\ after[pg.about].status # "forgotten" => pg.last < after[pg.about].next
                      /\ after[pg.about].status = "dead" /\ pg.last >= after[pg.about].next - 1 => pg.exit
  BY DEF MarkOK
<1>2. PICK m, n, d \in Nat : m = before[pg.about].next /\ n = after[pg.about].next /\ d = pg.last
  BY <1>1, PageIs
<1>3. /\ before[pg.about].status # "forgotten" => d < m
      /\ before[pg.about].status = "dead" /\ d >= m - 1 => pg.exit
  BY <1>1, <1>2 DEF MarkOK
<1>4. after[pg.about].status # "forgotten" =>
        /\ before[pg.about].status # "forgotten" /\ m <= n
        /\ before[pg.about].status = "dead" => n = m
        /\ before[pg.about].status # "dead" /\ after[pg.about].status = "dead" => m < n
  BY <1>1, <1>2 DEF Later
<1>5. after[pg.about].status # "forgotten" => d < n
  BY <1>2, <1>3, <1>4
<1>6. ASSUME after[pg.about].status = "dead", d >= n - 1
      PROVE  pg.exit
  BY <1>2, <1>3, <1>4, <1>6
<1>7. QED
  BY <1>2, <1>5, <1>6

\* An end without news is told only when the exit is on the screen.
LEMMA AnswerFits ==
    ASSUME NEW pg \in Page, NEW sessions, NEW call, CallOK(sessions, call), MarkOK(pg, sessions),
           pg.about \in Sessions, call.on = pg.about, call.after = pg.last,
           call.pc = "answered", call.answer.kind = "ok", ~call.answer.alive, call.answer.events = <<>>,
           sessions[pg.about].status # "forgotten"
    PROVE  pg.exit
BY DEF CallOK, Told, MarkOK

\* A step of the class, or of the page, that leaves the screen as it is.
LEMMA PageKeeps ==
    ASSUME PageInv, SessionsInv', GoesOn,
           page' \in Page, loop' \in Loop, req' \in [Polls -> Request],
           page'.gen = page.gen, page'.about = page.about, page'.last = page.last,
           page'.shown = page.shown, page'.notices = page.notices, page'.exit = page.exit,
           LoopOK(page, loop'),
           \A p \in Polls : req'[p].gen <= page.gen,
           \A p \in Polls : Live(page, req'[p]) =>
               /\ req'[p] = req[p] /\ Moves(poll[p], poll'[p], session')
               /\ loop'.pc \notin {"ready", "sleeping"} /\ (req[p].why = "resume" => loop'.pc = "off")
    PROVE  PageInv'
<1>1. /\ page \in Page /\ ScreenOK(page) /\ MarkOK(page, session) /\ LoopOK(page, loop)
      /\ CallsOK(page, loop, req, poll) /\ SessionsInv
  BY PageFacts
<1>2. MarkOK(page, session')
  BY <1>1, Numbers, LaterNumbers, MarkMoves DEF GoesOn
<1>3. ScreenOK(page')
  BY <1>1 DEF ScreenOK, Seqs
<1>4. MarkOK(page', session')
  BY <1>2 DEF MarkOK
<1>5. LoopOK(page', loop')
  BY DEF LoopOK
<1>6. \A r : Live(page', r) <=> Live(page, r)
  BY DEF Live
<1>7. ASSUME NEW p \in Polls, Live(page, req'[p])
      PROVE  LiveCall(page, loop', req'[p], poll'[p])
  <2>1. LiveCall(page, loop, req[p], poll[p])
    BY <1>1, <1>7 DEF CallsOK
  <2>2. /\ req'[p] = req[p] /\ (req[p].why = "resume" => loop'.pc = "off")
        /\ Moves(poll[p], poll'[p], session')
    BY <1>7
  <2>3. CASE poll'[p] = poll[p]
    BY <2>1, <2>2, <2>3 DEF LiveCall
  <2>4. CASE poll'[p] # poll[p]
    <3>1. /\ poll'[p].pc = "answered" /\ poll'[p].on = poll[p].on /\ poll'[p].after = poll[p].after
          /\ session'[poll[p].on].status # "forgotten"
      BY <2>2, <2>4 DEF Moves
    <3>2. poll[p].on = page.about /\ page.about \in Sessions /\ poll[p].after = page.last
      BY <2>1 DEF LiveCall
    <3>3. CallOK(session', poll'[p])
      BY CallsThen
    <3>4. poll'[p].answer.kind = "ok" /\ ~poll'[p].answer.alive /\ poll'[p].answer.events = <<>> => page.exit
      <4>1. SUFFICES ASSUME poll'[p].answer.kind = "ok", ~poll'[p].answer.alive, poll'[p].answer.events = <<>>
                     PROVE  page.exit
        OBVIOUS
      <4>2. PICK call : call = poll'[p]
        OBVIOUS
      <4>3. PICK sessions : sessions = session'
        OBVIOUS
      <4>4. CallOK(sessions, call) /\ MarkOK(page, sessions)
        BY <1>2, <3>3, <4>2, <4>3
      <4>5. /\ call.on = page.about /\ call.after = page.last /\ call.pc = "answered" /\ call.answer.kind = "ok"
            /\ ~call.answer.alive /\ call.answer.events = <<>> /\ sessions[page.about].status # "forgotten"
        BY <3>1, <3>2, <4>1, <4>2, <4>3
      <4>6. QED
        BY <1>1, <3>2, <4>4, <4>5, AnswerFits
    <3>5. QED
      BY <2>2, <3>1, <3>2, <3>4 DEF LiveCall
  <2>5. QED
    BY <2>3, <2>4
<1>8. CallsOK(page', loop', req', poll')
  <2>1. \A p \in Polls : req'[p].gen <= page'.gen
    OBVIOUS
  <2>2. \A p, q \in Polls : Live(page', req'[p]) /\ Live(page', req'[q]) => p = q
    <3>1. SUFFICES ASSUME NEW p \in Polls, NEW q \in Polls, Live(page', req'[p]), Live(page', req'[q])
                   PROVE  p = q
      OBVIOUS
    <3>2. Live(page, req[p]) /\ Live(page, req[q])
      BY <1>6, <3>1
    <3>3. QED
      BY <1>1, <3>2 DEF CallsOK
  <2>3. loop'.pc \in {"ready", "sleeping"} => \A p \in Polls : ~Live(page', req'[p])
    BY <1>6
  <2>4. \A p \in Polls : Live(page', req'[p]) => LiveCall(page', loop', req'[p], poll'[p])
    <3>1. SUFFICES ASSUME NEW p \in Polls, Live(page', req'[p])
                   PROVE  LiveCall(page', loop', req'[p], poll'[p])
      OBVIOUS
    <3>2. LiveCall(page, loop', req'[p], poll'[p])
      BY <1>6, <1>7, <3>1
    <3>3. QED
      BY <3>2 DEF LiveCall
  <2>5. QED
    BY <2>1, <2>2, <2>3, <2>4 DEF CallsOK
<1>9. QED
  BY <1>3, <1>4, <1>5, <1>8 DEF PageInv, PageTypeOK

-----------------------------------------------------------------------------
(* The steps of the class, and the steps that leave the screen as it is     *)

LEMMA ReqIs == ASSUME PageInv, NEW p \in Polls
               PROVE  req[p] \in Request /\ req[p].gen \in 0..MaxGen /\ req[p].gen <= page.gen
BY PageFacts DEF CallsOK, Request

LEMMA NoReqIs == NoReq \in Request /\ NoReq.gen = 0 /\ NoReq.why = "none" /\ \A pg : ~Live(pg, NoReq)
BY PageAssumption DEF NoReq, Request, Live

\* A live call, and what the loop does in the meantime.
LEMMA LiveIs ==
    ASSUME PageInv, NEW p \in Polls, Live(page, req[p])
    PROVE  /\ loop.pc \notin {"ready", "sleeping"} /\ LiveCall(page, loop, req[p], poll[p])
           /\ page.about \in Sessions /\ (req[p].why = "resume" => loop.pc = "off")
           /\ \A q \in Polls : Live(page, req[q]) => q = p
BY PageFacts DEF CallsOK, LiveCall

\* A step of the class alone.
LEMMA ClassSteps ==
    ASSUME PageInv, SessionsInv', GoesOn, CallsMove, UNCHANGED pageVars
    PROVE  PageInv'
BY PageFacts, ReqIs, LiveIs, PageKeeps DEF pageVars, CallsMove

LEMMA ManagerKeeps == ASSUME PageInv, Manager PROVE PageInv'
<1>0. SessionsInv
  BY PageFacts
<1>1. ASSUME WorkerRestarts
      PROVE  PageInv'
  BY <1>1, <1>0, RestartKeeps, PageFacts, NoReqIs, PageIs, PageKeeps DEF WorkerRestarts,
     Page, Loop, LoopOK
<1>2. ASSUME NEW p \in Polls, Orphan(p)
      PROVE  PageInv'
  BY <1>2, <1>0, CollectKeeps, PageFacts, ReqIs, LiveIs, PageKeeps DEF Orphan, pageVars,
     Live, Moves
<1>3. ASSUME UNCHANGED pageVars,
             \/ \E s \in Sessions : \/ FlushTimer(s) \/ Exit(s) \/ Kill(s, Me)
                                    \/ \E n \in 1..MaxWritten : Data(s, n)
             \/ \E p \in Polls : WaitTimeout(p)
             \/ Sweep \/ Tick
      PROVE  PageInv'
  <2>1. ASSUME NEW s \in Sessions, FlushTimer(s)
        PROVE  SessionsInv' /\ GoesOn /\ CallsMove
    BY <1>0, <2>1, FlushTimerKeeps
  <2>2. ASSUME NEW s \in Sessions, Exit(s)
        PROVE  SessionsInv' /\ GoesOn /\ CallsMove
    BY <1>0, <2>2, ExitKeeps
  <2>3. ASSUME NEW s \in Sessions, Kill(s, Me)
        PROVE  SessionsInv' /\ GoesOn /\ CallsMove
    BY <1>0, <2>3, TerminateKeeps DEF Kill
  <2>4. ASSUME NEW s \in Sessions, NEW n \in 1..MaxWritten, Data(s, n)
        PROVE  SessionsInv' /\ GoesOn /\ CallsMove
    BY ConstantsAssumption, <1>0, <2>4, DataKeeps
  <2>5. ASSUME NEW p \in Polls, WaitTimeout(p)
        PROVE  SessionsInv' /\ GoesOn /\ CallsMove
    BY <1>0, <2>5, WaitTimeoutKeeps
  <2>6. ASSUME Sweep
        PROVE  SessionsInv' /\ GoesOn /\ CallsMove
    BY <1>0, <2>6, SweepKeeps
  <2>7. ASSUME Tick
        PROVE  SessionsInv' /\ GoesOn /\ CallsMove
    BY <1>0, <2>7, TickKeeps
  <2>8. SessionsInv' /\ GoesOn /\ CallsMove
    BY <1>3, <2>1, <2>2, <2>3, <2>4, <2>5, <2>6, <2>7
  <2>9. QED
    BY <1>3, <2>8, ClassSteps
<1>4. QED
  BY <1>1, <1>2, <1>3 DEF Manager

\* A step of the page alone that leaves the screen as it is.
LEMMA StillMoves ==
    ASSUME PageInv, UNCHANGED vars
    PROVE  SessionsInv' /\ GoesOn /\ CallsMove
BY PageFacts, StillGoesOn DEF vars, SessionsInv, CallsMove, Moves

LEMMA StartSessionKeeps == ASSUME PageInv, NEW s \in Sessions, StartSession(s) PROVE PageInv'
BY PageFacts, OpenKeeps, PageAssumption, ReqIs, LiveIs, PageKeeps DEF StartSession, Page,
   CallsMove

LEMMA EndSessionKeeps == ASSUME PageInv, EndSession PROVE PageInv'
BY PageFacts, StillMoves, TerminateKeeps, ReqIs, LiveIs, PageKeeps DEF EndSession, LoopOK,
   Close, Page, CallsMove

LEMMA EndedSessionKeeps == ASSUME PageInv, EndedSession PROVE PageInv'
<1>1. page' = [page EXCEPT !.ending = FALSE] /\ loop' = Off /\ req' = req /\ UNCHANGED vars
  BY DEF EndedSession
<1>2. page \in Page /\ req \in [Polls -> Request]
  BY PageFacts
<1>3. SessionsInv' /\ GoesOn /\ CallsMove
  BY <1>1, StillMoves
<1>4. /\ page' \in Page /\ page'.gen = page.gen /\ page'.about = page.about /\ page'.last = page.last
      /\ page'.shown = page.shown /\ page'.notices = page.notices /\ page'.exit = page.exit
  BY <1>1, <1>2 DEF Page
<1>5. Off \in Loop /\ LoopOK(page, Off) /\ Off.pc = "off"
  BY PageAssumption DEF Off, Loop, LoopOK
<1>6. \A p \in Polls : req[p].gen <= page.gen
  BY ReqIs
<1>7. \A p \in Polls : Live(page, req[p]) => Moves(poll[p], poll'[p], session')
  BY <1>3 DEF CallsMove
<1>8. QED
  BY <1>1, <1>2, <1>3, <1>4, <1>5, <1>6, <1>7, PageKeeps

LEMMA LoseKeeps == ASSUME PageInv, NEW p \in Polls, Lose(p) PROVE PageInv'
<1>1. /\ req' = [req EXCEPT ![p] = NoReq] /\ UNCHANGED vars /\ page' = page /\ req[p].why # "none"
      /\ loop' = IF req[p].why = "poll" /\ Active(p) THEN [loop EXCEPT !.pc = "sleeping"] ELSE loop
  BY DEF Lose
<1>2. page \in Page /\ loop \in Loop /\ req \in [Polls -> Request] /\ LoopOK(page, loop)
  BY PageFacts
<1>3. SessionsInv' /\ GoesOn /\ CallsMove
  BY <1>1, StillMoves
<1>4. req' \in [Polls -> Request] /\ \A q \in Polls : req'[q] = IF q = p THEN NoReq ELSE req[q]
  BY <1>1, <1>2, NoReqIs
<1>5. loop' \in Loop /\ LoopOK(page, loop')
  BY <1>1, <1>2 DEF Loop, LoopOK, Active
<1>6. \A q \in Polls : req'[q].gen <= page.gen
  BY <1>2, PageIs, <1>4, ReqIs, NoReqIs
<1>7. ASSUME NEW q \in Polls, Live(page, req'[q])
      PROVE  /\ req'[q] = req[q] /\ Moves(poll[q], poll'[q], session')
             /\ loop'.pc \notin {"ready", "sleeping"} /\ (req[q].why = "resume" => loop'.pc = "off")
  <2>1. q # p
    BY <1>4, <1>7, NoReqIs
  <2>2. req'[q] = req[q] /\ Live(page, req[q])
    BY <1>4, <1>7, <2>1
  <2>3. ~Live(page, req[p])
    BY <2>1, <2>2, LiveIs
  <2>4. ~Active(p)
    <3>1. SUFFICES ASSUME Active(p)
                   PROVE  FALSE
      OBVIOUS
    <3>2. req[p].gen = page.gen
      BY <3>1 DEF Active
    <3>3. QED
      BY <1>1, <2>3, <3>2 DEF Live
  <2>5. loop' = loop
    BY <1>1, <2>4
  <2>6. Moves(poll[q], poll'[q], session')
    BY <1>3 DEF CallsMove
  <2>7. QED
    BY <2>2, <2>5, <2>6, LiveIs
<1>8. QED
  BY <1>1, <1>2, <1>3, <1>4, <1>5, <1>6, <1>7, PageKeeps

LEMMA LoopWakeKeeps == ASSUME PageInv, LoopWake PROVE PageInv'
BY PageFacts, StillMoves, LiveIs, ReqIs, PageKeeps DEF LoopWake, Loop, LoopOK

-----------------------------------------------------------------------------
(* A new generation                                                         *)

\* The blank screen of a new generation.
LEMMA BegunIs ==
    ASSUME NEW pg \in Page, pg.gen < MaxGen, NEW s \in Sessions
    PROVE  LET r == Begun(pg, s)
           IN  /\ r \in Page /\ ScreenOK(r) /\ r.gen = pg.gen + 1 /\ r.about = s /\ r.last = 0
               /\ r.gen \in 0..MaxGen
<1>1. PICK r : r = Begun(pg, s)
  OBVIOUS
<1>2. /\ r = [gen |-> pg.gen + 1, last |-> 0, opening |-> pg.opening, ending |-> pg.ending, about |-> s,
              shown |-> {}, notices |-> {}, text |-> 0, exit |-> FALSE]
  BY <1>1 DEF Begun, Blank
<1>3. pg.gen + 1 \in 0..MaxGen /\ pg.opening \in SUBSET Sessions /\ pg.ending \in BOOLEAN
  BY PageIs, PageAssumption
<1>4. r \in Page
  BY <1>2, <1>3 DEF Page
<1>5. ScreenOK(r)
  BY <1>2 DEF ScreenOK, Seqs
<1>6. QED
  BY <1>1, <1>2, <1>3, <1>4, <1>5

\* A session that is dead has had its exit event, so that nothing of it is on a blank screen.
LEMMA BlankMark ==
    ASSUME NEW pg \in Page, pg.last = 0, NEW sessions, \A s \in Sessions : SessionOK(sessions[s])
    PROVE  MarkOK(pg, sessions)
<1>1. SUFFICES ASSUME pg.about \in Sessions
               PROVE  /\ sessions[pg.about].status # "forgotten" => pg.last < sessions[pg.about].next
                      /\ sessions[pg.about].status = "dead" /\ pg.last >= sessions[pg.about].next - 1 => pg.exit
  BY DEF MarkOK
<1>2. PICK st : st = sessions[pg.about]
  OBVIOUS
<1>3. SessionOK(st)
  BY <1>1, <1>2
<1>4. st.next \in Nat \ {0} /\ st.dropped \in Nat /\ st.buffer \in Seq(Event) /\ Len(st.buffer) \in Nat
  BY <1>3, StatusIs, SessionIs
<1>5. ASSUME st.status = "dead"
      PROVE  st.next > 1
  BY <1>3, <1>5, StatusIs, <1>4, EmptySeq DEF DeadOK, KeptOK, Closed
<1>6. QED
  BY <1>2, <1>4, <1>5

LEMMA StartedKeeps == ASSUME PageInv, NEW s \in Sessions, Started(s) PROVE PageInv'
<1>1. PICK pg : pg = [page EXCEPT !.opening = @ \ {s}]
  OBVIOUS
<1>2. /\ s \in page.opening /\ UNCHANGED vars /\ req' = req
      /\ \/ page.gen < MaxGen /\ page' = Begun(pg, s) /\ loop' = LoopOn(s, page.gen + 1)
         \/ page' = pg /\ loop' = loop
  BY <1>1 DEF Started
<1>3. page \in Page /\ loop \in Loop /\ req \in [Polls -> Request] /\ LoopOK(page, loop)
  BY PageFacts
<1>4. SessionsInv' /\ GoesOn /\ CallsMove
  BY <1>2, StillMoves
<1>5. /\ pg \in Page /\ pg.gen = page.gen /\ pg.about = page.about /\ pg.last = page.last
      /\ pg.shown = page.shown /\ pg.notices = page.notices /\ pg.exit = page.exit
  BY <1>1, <1>3 DEF Page
<1>6. \A p \in Polls : req[p].gen \in Nat /\ page.gen \in Nat /\ req[p].gen <= page.gen
  BY <1>3, ReqIs, PageIs
<1>7. CASE page' = pg /\ loop' = loop
  BY <1>4, LiveIs, <1>6, <1>2, <1>3, <1>5, <1>7, PageKeeps DEF CallsMove
<1>8. CASE page.gen < MaxGen /\ page' = Begun(pg, s) /\ loop' = LoopOn(s, page.gen + 1)
  <2>1. /\ page' \in Page /\ ScreenOK(page') /\ page'.gen = page.gen + 1 /\ page'.about = s /\ page'.last = 0
        /\ page.gen + 1 \in 0..MaxGen
    BY <1>5, <1>8, BegunIs
  <2>2. loop' \in Loop /\ loop'.pc = "ready" /\ loop'.gen = page'.gen /\ loop'.on = s
    BY <1>8, <2>1 DEF LoopOn, Loop
  <2>3. MarkOK(page', session')
    BY <1>4, <2>1, BlankMark DEF SessionsInv
  <2>4. LoopOK(page', loop')
    BY <2>1, <2>2 DEF LoopOK
  <2>5. \A p \in Polls : req'[p].gen <= page'.gen /\ ~Live(page', req'[p])
    BY <1>2, <1>6, <2>1 DEF Live
  <2>6. CallsOK(page', loop', req', poll')
    BY <2>5 DEF CallsOK
  <2>7. QED
    BY <1>2, <1>3, <1>4, <2>1, <2>2, <2>3, <2>4, <2>6 DEF PageInv, PageTypeOK
<1>9. QED
  BY <1>2, <1>7, <1>8

\* A call p made in this step for the session and from the mark of the page.
LEMMA AskedFits ==
    ASSUME SessionsInv', NEW p \in Polls, NEW s \in Sessions, CallMade(p, s, page'.last),
           page' \in Page, page'.about = s, MarkOK(page', session'), NEW lp, NEW r,
           r.why = "resume" => lp.pc = "off"
    PROVE  LiveCall(page', lp, r, poll'[p])
BY CallsThen, AnswerFits DEF CallMade, LiveCall

LEMMA ResumeSessionKeeps ==
    ASSUME PageInv, NEW p \in Polls, NEW s \in Sessions, ResumeSession(p, s) PROVE PageInv'
<1>1. /\ page.gen < MaxGen /\ Attach(p, s, Me, 0) /\ loop' = Off /\ page' = Begun(page, s)
      /\ req' = [req EXCEPT ![p] = [why |-> "resume", gen |-> page.gen + 1]]
  BY DEF ResumeSession
<1>2. page \in Page /\ req \in [Polls -> Request] /\ SessionsInv
  BY PageFacts
<1>3. SessionsInv' /\ CallMade(p, s, 0)
  BY <1>1, <1>2, AttachKeeps
<1>4. /\ page' \in Page /\ ScreenOK(page') /\ page'.gen = page.gen + 1 /\ page'.about = s /\ page'.last = 0
      /\ page.gen + 1 \in 0..MaxGen
  BY <1>1, <1>2, BegunIs
<1>5. loop' \in Loop /\ LoopOK(page', loop') /\ loop'.pc = "off"
  BY <1>1, PageAssumption DEF Off, Loop, LoopOK
<1>6. MarkOK(page', session')
  BY <1>3, <1>4, BlankMark DEF SessionsInv
<1>7. [why |-> "resume", gen |-> page.gen + 1] \in Request
  BY <1>4 DEF Request
<1>8. /\ req' \in [Polls -> Request] /\ req'[p].why = "resume" /\ req'[p].gen = page'.gen
      /\ \A q \in Polls : q # p => req'[q] = req[q]
  BY <1>1, <1>2, <1>4, <1>7
<1>9. \A q \in Polls : req[q].gen \in Nat /\ page.gen \in Nat /\ req[q].gen <= page.gen
  BY <1>2, ReqIs, PageIs
<1>10. \A q \in Polls : req'[q].gen <= page'.gen /\ (Live(page', req'[q]) => q = p)
  <2>1. SUFFICES ASSUME NEW q \in Polls
                 PROVE  req'[q].gen <= page'.gen /\ (Live(page', req'[q]) => q = p)
    OBVIOUS
  <2>2. CASE q = p
    BY <1>4, <1>8, <1>9, <2>2
  <2>3. CASE q # p
    BY <1>4, <1>8, <1>9, <2>3 DEF Live
  <2>4. QED
    BY <2>2, <2>3
<1>11. LiveCall(page', loop', req'[p], poll'[p])
  BY <1>3, <1>4, <1>5, <1>6, AskedFits
<1>12. CallsOK(page', loop', req', poll')
  BY <1>5, <1>10, <1>11 DEF CallsOK
<1>13. QED
  BY <1>3, <1>4, <1>5, <1>6, <1>8, <1>12 DEF PageInv, PageTypeOK

LEMMA LoopPollKeeps == ASSUME PageInv, NEW p \in Polls, LoopPoll(p) PROVE PageInv'
<1>1. /\ loop.pc = "ready" /\ Wait(p, loop.on, Me, page.last, 1) /\ loop' = [loop EXCEPT !.pc = "polling"]
      /\ req' = [req EXCEPT ![p] = [why |-> "poll", gen |-> loop.gen]] /\ page' = page
  BY DEF LoopPoll
<1>2. /\ page \in Page /\ loop \in Loop /\ req \in [Polls -> Request] /\ SessionsInv
      /\ ScreenOK(page) /\ MarkOK(page, session) /\ LoopOK(page, loop)
  BY PageFacts
<1>3. loop.gen = page.gen /\ loop.on = page.about /\ page.about \in Sessions /\ page.last \in Nat /\ page.gen \in 0..MaxGen
  BY <1>1, <1>2, PageIs DEF LoopOK
<1>4. PICK s \in Sessions : s = page.about
  BY <1>3
<1>5. SessionsInv' /\ CallMade(p, s, page.last)
  BY <1>1, <1>3, <1>4, <1>2, WaitKeeps
<1>6. MarkOK(page, session')
  BY <1>2, <1>5, Numbers, LaterNumbers, MarkMoves DEF GoesOn, CallMade
<1>7. loop' \in Loop /\ LoopOK(page, loop') /\ loop'.pc = "polling"
  BY <1>1, <1>2 DEF Loop, LoopOK
<1>8. [why |-> "poll", gen |-> loop.gen] \in Request
  BY <1>3 DEF Request
<1>9. /\ req' \in [Polls -> Request] /\ req'[p].why = "poll" /\ req'[p].gen = page.gen
      /\ \A q \in Polls : q # p => req'[q] = req[q]
  BY <1>1, <1>2, <1>3, <1>8
<1>10. \A q \in Polls : req'[q].gen <= page.gen /\ (Live(page, req'[q]) => q = p)
  <2>1. SUFFICES ASSUME NEW q \in Polls
                 PROVE  req'[q].gen <= page.gen /\ (Live(page, req'[q]) => q = p)
    OBVIOUS
  <2>2. CASE q = p
    BY <1>3, <1>9, <2>2
  <2>3. CASE q # p
    BY <1>1, <1>9, <2>3, LiveIs, ReqIs
  <2>4. QED
    BY <2>2, <2>3
<1>11. LiveCall(page', loop', req'[p], poll'[p])
  BY <1>1, <1>2, <1>4, <1>5, <1>6, <1>9, AskedFits
<1>12. CallsOK(page', loop', req', poll')
  BY <1>1, <1>7, <1>10, <1>11 DEF CallsOK
<1>13. QED
  BY <1>1, <1>2, <1>5, <1>6, <1>7, <1>9, <1>12 DEF PageInv, PageTypeOK

-----------------------------------------------------------------------------
(* Answers                                                                  *)

\* The answer of a live call, put on the screen.
LEMMA AppliedFits ==
    ASSUME PageInv, NEW p \in Polls, Live(page, req[p]), poll[p].pc = "answered", poll[p].answer.kind = "ok"
    PROVE  LET r == Apply(page, poll[p].on, poll[p].answer)
           IN  /\ r \in Page /\ ScreenOK(r) /\ MarkOK(r, session) /\ r.gen = page.gen /\ r.about = page.about
               /\ poll[p].on = page.about /\ page.about \in Sessions
               /\ ~poll[p].answer.alive => r.exit
<1>1. PICK a, s, r : a = poll[p].answer /\ s = poll[p].on /\ r = Apply(page, s, a)
  OBVIOUS
<1>2. /\ page \in Page /\ ScreenOK(page) /\ MarkOK(page, session) /\ SessionsInv
  BY PageFacts
<1>3. LiveCall(page, loop, req[p], poll[p])
  BY LiveIs
<1>4. /\ s = page.about /\ page.about \in Sessions /\ poll[p].after = page.last
      /\ ~a.alive /\ a.events = <<>> => page.exit
  BY <1>1, <1>3 DEF LiveCall
<1>5. CallOK(session, poll[p]) /\ poll[p] \in Poll
  BY <1>2, CallsNow
<1>6. a \in Answer /\ a.events \in Seq(Event)
  BY <1>1, <1>5, CallIs DEF Answer
<1>7. Honest(a, page.last) /\ Told(a, page.last, session[s])
  BY <1>1, <1>4, <1>5 DEF CallOK
<1>8. \A i \in 1..Len(a.events) : a.events[i].seq > page.last
  BY <1>7 DEF Told
<1>9. /\ r \in Page /\ ScreenOK(r) /\ r.gen = page.gen /\ r.about = page.about
      /\ page.exit => r.exit
      /\ a.events = <<>> => r.last = page.last
      /\ a.events # <<>> => r.last = Last(a.events).seq /\ (Last(a.events).type = "exit" => r.exit)
  BY <1>1, <1>4, <1>2, <1>6, <1>7, <1>8, Applied
<1>10. ~a.alive => r.exit
  BY <1>4, <1>9, <1>7 DEF Honest
<1>11. MarkOK(r, session)
  BY <1>2, <1>4, <1>9, <1>6, LastIs, <1>7 DEF MarkOK, Told
<1>12. QED
  BY <1>1, <1>4, <1>9, <1>10, <1>11

\* An answer that is dropped, or only changes the loop.
LEMMA Dropped ==
    ASSUME PageInv, NEW p \in Polls, Collect(p), req' = [req EXCEPT ![p] = NoReq], page' = page,
           loop' \in Loop, LoopOK(page, loop'),
           loop' = loop \/ (Live(page, req[p]) /\ loop'.pc = "failed" /\ loop.pc # "off")
    PROVE  PageInv'
BY PageFacts, CollectKeeps, NoReqIs, PageIs, ReqIs, LiveIs, PageKeeps DEF Moves

\* An answer that is applied.
LEMMA Shown ==
    ASSUME PageInv, NEW p \in Polls, Collect(p), Live(page, req[p]), poll[p].answer.kind = "ok",
           req' = [req EXCEPT ![p] = NoReq], page' = Apply(page, poll[p].on, poll[p].answer),
           loop' \in Loop, loop'.gen = page.gen, loop'.on = poll[p].on,
           loop'.pc \in {"ready", "ended"}, loop'.pc = "ended" => ~poll[p].answer.alive
    PROVE  PageInv'
<1>1. SessionsInv /\ page \in Page /\ loop \in Loop /\ req \in [Polls -> Request]
  BY PageFacts
<1>2. SessionsInv' /\ UNCHANGED session
  BY <1>1, CollectKeeps
<1>3. poll[p].pc = "answered"
  BY DEF Collect
<1>4. PICK r : r = Apply(page, poll[p].on, poll[p].answer)
  OBVIOUS
<1>5. /\ r \in Page /\ ScreenOK(r) /\ MarkOK(r, session) /\ r.gen = page.gen /\ r.about = page.about
      /\ poll[p].on = page.about /\ page.about \in Sessions
      /\ ~poll[p].answer.alive => r.exit
  BY <1>3, <1>4, AppliedFits
<1>6. page' = r
  BY <1>4
<1>7. page' \in Page /\ ScreenOK(page') /\ MarkOK(page', session')
  BY <1>2, <1>5, <1>6
<1>8. LoopOK(page', loop')
  BY <1>5, <1>6 DEF LoopOK
<1>9. req' \in [Polls -> Request] /\ \A q \in Polls : req'[q] = IF q = p THEN NoReq ELSE req[q]
  BY <1>1, NoReqIs
<1>10. \A q \in Polls : req'[q].gen <= page'.gen /\ ~Live(page', req'[q])
  <2>1. SUFFICES ASSUME NEW q \in Polls
                 PROVE  req'[q].gen <= page.gen /\ ~Live(page, req'[q])
    BY <1>5, <1>6 DEF Live
  <2>2. page.gen \in Nat
    BY <1>1, PageIs
  <2>3. CASE q = p
    BY <1>9, <2>2, <2>3, NoReqIs
  <2>4. CASE q # p
    BY <1>9, <2>4, LiveIs, ReqIs
  <2>5. QED
    BY <2>3, <2>4
<1>11. CallsOK(page', loop', req', poll')
  BY <1>10 DEF CallsOK
<1>12. QED
  BY <1>2, <1>7, <1>8, <1>9, <1>11 DEF PageInv, PageTypeOK

LEMMA ResumedKeeps == ASSUME PageInv, NEW p \in Polls, Resumed(p) PROVE PageInv'
<1>1. /\ req[p].why = "resume" /\ Collect(p) /\ req' = [req EXCEPT ![p] = NoReq]
      /\ IF req[p].gen = page.gen /\ poll[p].answer.kind = "ok"
         THEN page' = Apply(page, poll[p].on, poll[p].answer) /\ loop' = LoopOn(poll[p].on, page.gen)
         ELSE page' = page /\ loop' = loop
  BY DEF Resumed
<1>2. page \in Page /\ loop \in Loop /\ LoopOK(page, loop)
  BY PageFacts
<1>3. CASE req[p].gen = page.gen /\ poll[p].answer.kind = "ok"
  <2>1. Live(page, req[p])
    BY <1>1, <1>3 DEF Live
  <2>2. LiveCall(page, loop, req[p], poll[p])
    BY <2>1, LiveIs
  <2>3. poll[p].on \in Sessions /\ page.gen \in 0..MaxGen
    BY <1>2, <2>2, PageIs DEF LiveCall
  <2>4. page' = Apply(page, poll[p].on, poll[p].answer) /\ loop' = LoopOn(poll[p].on, page.gen)
    BY <1>1, <1>3
  <2>5. loop' \in Loop /\ loop'.gen = page.gen /\ loop'.on = poll[p].on /\ loop'.pc = "ready"
    BY <2>3, <2>4 DEF LoopOn, Loop
  <2>6. QED
    BY <1>1, <1>3, <2>1, <2>4, <2>5, Shown
<1>4. CASE ~(req[p].gen = page.gen /\ poll[p].answer.kind = "ok")
  BY <1>1, <1>4, <1>2, Dropped
<1>5. QED
  BY <1>3, <1>4

LEMMA LoopAnswerKeeps == ASSUME PageInv, NEW p \in Polls, LoopAnswer(p) PROVE PageInv'
BY PageFacts, Dropped, LiveIs, Shown DEF LoopAnswer, Active, Live, LoopOK, Loop, LiveCall

-----------------------------------------------------------------------------
(* The invariant and what it says                                           *)

LEMMA PageStarts == PageInit => PageInv
<1>1. SUFFICES ASSUME PageInit
               PROVE  PageInv
  OBVIOUS
<1>2. SessionsInv
  BY <1>1, SessionsStart DEF PageInit
<1>3. page = Blank /\ loop = Off /\ req = [p \in Polls |-> NoReq]
  BY <1>1 DEF PageInit
<1>4. page \in Page /\ page.last = 0
  BY <1>3, PageAssumption DEF Blank, Page
<1>5. ScreenOK(page)
  BY <1>3 DEF Blank, ScreenOK, Seqs
<1>6. MarkOK(page, session)
  BY <1>2, InvFacts, <1>4, BlankMark
<1>7. loop \in Loop /\ LoopOK(page, loop)
  BY <1>3, PageAssumption DEF Off, Loop, LoopOK
<1>8. req \in [Polls -> Request] /\ \A p \in Polls : req[p] = NoReq
  BY <1>3, NoReqIs
<1>9. page.gen = 0
  BY <1>3 DEF Blank
<1>10. CallsOK(page, loop, req, poll)
  BY <1>8, <1>9, NoReqIs DEF CallsOK
<1>11. QED
  BY <1>2, <1>4, <1>5, <1>6, <1>7, <1>8, <1>10 DEF PageInv, PageTypeOK

LEMMA PageSteps == ASSUME PageInv, [PageNext]_allVars PROVE PageInv'
<1>1. ASSUME NEW s \in Sessions, StartSession(s) \/ Started(s)
      PROVE  PageInv'
  BY <1>1, StartSessionKeeps, StartedKeeps
<1>2. ASSUME NEW s \in Sessions, NEW p \in Polls, ResumeSession(p, s)
      PROVE  PageInv'
  BY <1>2, ResumeSessionKeeps
<1>3. CASE EndSession \/ EndedSession
  BY <1>3, EndSessionKeeps, EndedSessionKeeps
<1>4. CASE LoopWake
  BY <1>4, LoopWakeKeeps
<1>5. ASSUME NEW p \in Polls, LoopPoll(p) \/ LoopAnswer(p) \/ Resumed(p) \/ Lose(p)
      PROVE  PageInv'
  BY <1>5, LoopPollKeeps, LoopAnswerKeeps, ResumedKeeps, LoseKeeps
<1>6. CASE Manager
  BY <1>6, ManagerKeeps
<1>7. CASE UNCHANGED allVars
  BY <1>7, StillMoves, ClassSteps DEF allVars
<1>8. QED
  BY <1>1, <1>2, <1>3, <1>4, <1>5, <1>6, <1>7 DEF PageNext, Person, Browser

\* At all times the mark, the loop and the request under way belong to the session on the
\* screen, and what it is told of an end it has shown (session-stream.ts, output-loop.ts).
THEOREM PageInvariance == PageSpec => []PageInv
<1>1. PageInit => PageInv
  BY PageStarts
<1>2. PageInv /\ [PageNext]_allVars => PageInv'
  BY PageSteps
<1>3. QED
  BY <1>1, <1>2, PTL DEF PageSpec

LEMMA ScreenFollows == ASSUME PageInv PROVE NoSilentGap /\ NoFalseAlarm /\ OneSessionOnScreen
BY PageFacts DEF PageInv, ScreenOK, Seqs, NoSilentGap, NoFalseAlarm, OneSessionOnScreen,
   ScreenShowsOneSession

\* Output that never reached the terminal is marked where it is missing, however late, lost or
\* cut short the answers are (replay).
THEOREM GapsAreMarked == PageSpec => []NoSilentGap
<1>1. PageInv => NoSilentGap
  BY ScreenFollows
<1>2. QED
  BY <1>1, PageInvariance, PTL

\* A loss is marked only where output is missing (replay).
THEOREM NoticesAreTrue == PageSpec => []NoFalseAlarm
<1>1. PageInv => NoFalseAlarm
  BY ScreenFollows
<1>2. QED
  BY <1>1, PageInvariance, PTL

\* The screen shows one session's output, however many starts and resumes overlap and whatever
\* answers for another session come late (session-stream.ts).
THEOREM ScreenIsOneSessions == PageSpec => []OneSessionOnScreen
<1>1. PageInv => OneSessionOnScreen
  BY ScreenFollows
<1>2. QED
  BY <1>1, PageInvariance, PTL

\* A loop that has ended has the session's exit on the screen, and so all it kept before it
\* (runOutputLoop, push).
THEOREM EndIsShown == PageSpec => []EndedAfterTheExit
<1>1. PageInv => EndedAfterTheExit
  BY PageFacts DEF LoopOK, EndedAfterTheExit
<1>2. QED
  BY <1>1, PageInvariance, PTL
=============================================================================
