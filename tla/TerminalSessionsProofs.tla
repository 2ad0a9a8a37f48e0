------------------------ MODULE TerminalSessionsProofs ------------------------
(***************************************************************************)
(* Theorems about TerminalSessions, for every number of sessions, callers  *)
(* and calls, every size of an event and of the scrollback, and every      *)
(* course of output, exits, timers and restarts.  SessionsInv is the       *)
(* inductive invariant: how a session's events are numbered, abut and are  *)
(* counted (KeptOK), what that means for a live and for a dead one (LiveOK,*)
(* DeadOK), and what a call may have been told of them (CallOK).           *)
(***************************************************************************)
EXTENDS TerminalSessions, FiniteSetTheorems, SequenceTheorems, WellFoundedInduction, TLAPS

-----------------------------------------------------------------------------
(* Induction over a set of numbers                                          *)

Less == OpToRel(<, Nat)

LEMMA LessIs == \A m, n \in Nat : <<m, n>> \in Less <=> m < n
BY DEF Less, OpToRel

\* Every set of numbers that has one has a least one.
LEMMA LeastNumber == ASSUME NEW S \in SUBSET Nat, S # {} PROVE \E n \in S : \A m \in S : n <= m
<1>1. IsWellFoundedOn(Less, Nat)
  BY NatLessThanWellFounded DEF Less
<1>2. PICK n \in S : \A m \in S : ~ (<<m, n>> \in Less)
  BY <1>1, WFMin
<1>3. ASSUME NEW m \in S
      PROVE  n <= m
  <2>1. m \in Nat /\ n \in Nat
    BY <1>2
  <2>2. ~(m < n)
    BY <1>2, <2>1, LessIs
  <2>3. QED
    BY <2>1, <2>2
<1>4. QED
  BY <1>3

LEMMA AllNumbers == ASSUME NEW S, 0 \in S, \A n \in Nat : n \in S => n + 1 \in S PROVE \A n \in Nat : n \in S
<1>1. SUFFICES ASSUME NEW k \in Nat, k \notin S
               PROVE  FALSE
  OBVIOUS
<1>2. PICK n \in {i \in Nat : i \notin S} : \A m \in {i \in Nat : i \notin S} : n <= m
  BY <1>1, LeastNumber
<1>3. n # 0 /\ n - 1 \in Nat /\ n - 1 \in S
  BY <1>2
<1>4. QED
  BY <1>2, <1>3

-----------------------------------------------------------------------------
(* The weight of a buffer                                                   *)

\* The running totals of a buffer's units.
Totals(b, f) == /\ f \in [0..Len(b) -> Int] /\ f[0] = 0
                /\ \A i \in 1..Len(b) : f[i] = f[i - 1] + b[i].units

LEMMA BufferIs ==
    ASSUME NEW b \in Seq(Event)
    PROVE  /\ Len(b) \in Nat /\ DOMAIN b = 1..Len(b)
           /\ \A i \in 1..Len(b) : /\ b[i] \in Event /\ b[i].units \in Nat /\ b[i].at \in Nat /\ b[i].seq \in Nat
                                   /\ b[i].type \in {"output", "exit"}
<1>1. \A i \in 1..Len(b) : b[i] \in Event
  BY ElementOfSeq
<1>2. QED
  BY <1>1, LenProperties DEF Event

LEMMA TotalsExist == ASSUME NEW b \in Seq(Event) PROVE \E f : Totals(b, f) /\ \A i \in 0..Len(b) : f[i] \in Nat
<1> DEFINE Upto(n) == \E f \in [0..n -> Nat] : f[0] = 0 /\ \A i \in 1..n : f[i] = f[i - 1] + b[i].units
           Good == {n \in Nat : n <= Len(b) => Upto(n)}
<1>1. Upto(0)
  <2>1. PICK f : f = [i \in 0..0 |-> 0]
    OBVIOUS
  <2>2. f \in [0..0 -> Nat] /\ f[0] = 0 /\ \A i \in 1..0 : f[i] = f[i - 1] + b[i].units
    BY <2>1
  <2>3. QED
    BY <2>2
<1>2. ASSUME NEW n \in Nat, Upto(n), n + 1 <= Len(b)
      PROVE  Upto(n + 1)
  BY <1>2, BufferIs
<1>3. \A n \in Nat : n \in Good
  <2>1. 0 \in Good
    BY <1>1
  <2> HIDE DEF Upto
  <2>2. ASSUME NEW n \in Nat, n \in Good
        PROVE  n + 1 \in Good
    BY BufferIs, <2>2, <1>2
  <2> HIDE DEF Good
  <2>3. QED
    BY <2>1, <2>2, AllNumbers
<1>4. Upto(Len(b))
  BY <1>3, BufferIs
<1>5. QED
  BY <1>4, BufferIs DEF Totals

LEMMA TotalsAreOne ==
    ASSUME NEW b \in Seq(Event), NEW f, Totals(b, f), NEW g, Totals(b, g)
    PROVE  \A i \in 0..Len(b) : f[i] = g[i]
<1> DEFINE Good == {n \in Nat : n <= Len(b) => f[n] = g[n]}
<1>1. 0 \in Good
  BY DEF Totals
<1>2. ASSUME NEW n \in Nat, n \in Good, n + 1 <= Len(b)
      PROVE  f[n + 1] = g[n + 1]
  BY <1>2, BufferIs DEF Totals
<1>3. \A n \in Nat : n \in Good
  <2>1. ASSUME NEW n \in Nat, n \in Good
        PROVE  n + 1 \in Good
    BY <1>2, <2>1
  <2> HIDE DEF Good
  <2>2. QED
    BY <1>1, <2>1, AllNumbers
<1>4. QED
  BY <1>3, BufferIs

LEMMA WeightIs == ASSUME NEW b \in Seq(Event), NEW f, Totals(b, f) PROVE Weight(b) = f[Len(b)] /\ Weight(b) \in Int
<1> DEFINE Sums(g) == g = [i \in 0..Len(b) |-> IF i = 0 THEN 0 ELSE g[i - 1] + b[i].units]
<1>1. PICK n : n = Len(b)
  OBVIOUS
<1>2. n \in Nat
  BY <1>1, BufferIs
<1>3. Sums(f)
  BY <1>1, <1>2 DEF Totals
<1>4. PICK g : g = CHOOSE h : Sums(h)
  OBVIOUS
<1>5. Sums(g)
  BY <1>3, <1>4, Zenon
<1>6. Totals(b, g)
  <2>1. DOMAIN g = 0..n /\ \A i \in 0..n : g[i] = IF i = 0 THEN 0 ELSE g[i - 1] + b[i].units
    BY <1>1, <1>5
  <2> DEFINE Good == {k \in Nat : k <= n => g[k] \in Int}
  <2>2. 0 \in Good
    BY <1>2, <2>1
  <2>3. ASSUME NEW k \in Nat, k \in Good, k + 1 <= n
        PROVE  g[k + 1] \in Int
    BY <1>2, <2>3, <1>1, BufferIs, <2>1
  <2>4. \A k \in Nat : k \in Good
    <3>1. ASSUME NEW k \in Nat, k \in Good
          PROVE  k + 1 \in Good
      BY <2>3, <3>1
    <3> HIDE DEF Good
    <3>2. QED
      BY <2>2, <3>1, AllNumbers
  <2>5. \A i \in 0..n : g[i] \in Int
    BY <1>2, <2>4
  <2>6. g[0] = 0 /\ \A i \in 1..n : g[i] = g[i - 1] + b[i].units
    BY <1>2, <2>1
  <2>7. g = [i \in 0..n |-> g[i]]
    BY <1>1, <1>5
  <2>8. QED
    BY <1>1, <2>5, <2>6, <2>7 DEF Totals
<1>7. Weight(b) = g[n]
  BY <1>1, <1>4 DEF Weight
<1>8. QED
  BY SMTT(20), <1>1, <1>2, <1>6, <1>7, TotalsAreOne DEF Totals

LEMMA WeightIsNat == ASSUME NEW b \in Seq(Event) PROVE Weight(b) \in Nat
BY TotalsExist, WeightIs, BufferIs

LEMMA SubBuffer ==
    ASSUME NEW b \in Seq(Event), NEW m \in 1..Len(b) + 1, NEW n \in m - 1..Len(b)
    PROVE  /\ SubSeq(b, m, n) \in Seq(Event) /\ Len(SubSeq(b, m, n)) = n - m + 1
           /\ \A i \in 1..n - m + 1 : SubSeq(b, m, n)[i] = b[m + i - 1]
BY BufferIs, SubSeqProperties

\* A buffer's weight is that of what is cut off and of what stays.
LEMMA WeightIsSplit ==
    ASSUME NEW b \in Seq(Event), NEW f, Totals(b, f), NEW n \in 0..Len(b)
    PROVE  /\ Weight(SubSeq(b, 1, n)) = f[n]
           /\ Weight(SubSeq(b, n + 1, Len(b))) = f[Len(b)] - f[n]
<1>1. PICK N \in Nat : N = Len(b)
  BY BufferIs
<1>2. /\ n \in 0..N /\ 1 \in 1..N + 1 /\ n \in 0..N /\ n + 1 \in 1..N + 1 /\ N \in n..N /\ N - (n + 1) + 1 = N - n
      /\ n - 1 + 1 = n
  BY <1>1
<1>3. \A i \in 0..N : f[i] \in Int
  BY <1>1 DEF Totals
<1>4. Weight(SubSeq(b, 1, n)) = f[n]
  <2>1. PICK c : c = SubSeq(b, 1, n)
    OBVIOUS
  <2>2. c \in Seq(Event) /\ Len(c) = n /\ \A i \in 1..n : c[i] = b[i]
    BY <1>2, <1>1, <2>1, SubBuffer
  <2>3. PICK g : g = [i \in 0..n |-> f[i]]
    OBVIOUS
  <2>4. Totals(c, g)
    BY <1>2, <1>3, <2>3, <1>1, <2>2 DEF Totals
  <2>5. Weight(c) = g[n]
    BY <2>2, <2>4, WeightIs
  <2>6. QED
    BY <1>2, <2>1, <2>3, <2>5
<1>5. Weight(SubSeq(b, n + 1, N)) = f[N] - f[n]
  <2>1. PICK c : c = SubSeq(b, n + 1, N)
    OBVIOUS
  <2>2. c \in Seq(Event) /\ Len(c) = N - n /\ \A i \in 1..N - n : c[i] = b[n + i]
    <3>1. \A i \in 1..N - n : n + 1 + i - 1 = n + i
      BY <1>2
    <3>2. QED
      BY SMTT(20), <1>1, <1>2, <2>1, <3>1, SubBuffer
  <2>3. PICK g : g = [i \in 0..N - n |-> f[n + i] - f[n]]
    OBVIOUS
  <2>4. Totals(c, g)
    <3>1. g \in [0..N - n -> Int] /\ g[0] = 0
      BY <1>2, <1>3, <2>3
    <3>2. ASSUME NEW i \in 1..N - n
          PROVE  g[i] = g[i - 1] + c[i].units
      BY <1>2, <1>1, BufferIs, <2>3, <1>3, <2>2 DEF Totals
    <3>3. QED
      BY <2>2, <3>1, <3>2 DEF Totals
  <2>5. Weight(c) = g[N - n]
    BY <2>2, <2>4, WeightIs
  <2>6. QED
    BY <1>2, <2>1, <2>3, <2>5
<1>6. QED
  BY <1>1, <1>4, <1>5

LEMMA WeightGrows ==
    ASSUME NEW b \in Seq(Event), NEW e \in Event
    PROVE  Weight(Append(b, e)) = Weight(b) + e.units
<1>1. PICK c : c = Append(b, e)
  OBVIOUS
<1>2. /\ c \in Seq(Event) /\ Len(c) = Len(b) + 1 /\ \A i \in 1..Len(b) : c[i] = b[i]
      /\ c[Len(b) + 1] = e
  BY <1>1, AppendProperties
<1>3. PICK f : Totals(c, f)
  BY <1>2, TotalsExist
<1>4. PICK N \in Nat : N = Len(b)
  BY BufferIs
<1>5. N \in 0..N + 1 /\ N + 1 \in 1..N + 1 /\ N + 1 - 1 = N /\ 1 \in 1..N + 2
  BY <1>4
<1>6. SubSeq(c, 1, N) = b
  BY <1>4, <1>2, SubBuffer, SeqEqual
<1>7. Weight(b) = f[N]
  <2>1. N \in 0..Len(c)
    BY <1>2, <1>4
  <2>2. Weight(SubSeq(c, 1, N)) = f[N]
    BY <1>2, <1>3, <2>1, WeightIsSplit
  <2>3. QED
    BY <1>6, <2>2
<1>8. Weight(c) = f[N + 1]
  BY <1>2, <1>3, <1>4, WeightIs
<1>9. f[N + 1] = f[N] + e.units
  BY <1>2, <1>3, <1>4, <1>5 DEF Totals
<1>10. QED
  BY <1>1, <1>7, <1>8, <1>9

-----------------------------------------------------------------------------
(* The events past a number                                                 *)

LEMMA AfterIs ==
    ASSUME NEW st, st.buffer \in Seq(Event), NEW q, NEW k \in 0..Len(st.buffer),
           \A i \in 1..Len(st.buffer) : st.buffer[i].seq > q <=> i > k
    PROVE  After(st, q) = SubSeq(st.buffer, k + 1, Len(st.buffer))
<1>1. PICK b : b = st.buffer
  OBVIOUS
<1>2. PICK N \in Nat : N = Len(b)
  BY <1>1, BufferIs
<1>3. b \in Seq(Event) /\ k \in 0..N /\ \A i \in 1..N : b[i].seq > q <=> i > k
  BY <1>1, <1>2
<1> DEFINE Keeps(g) == g = [i \in 0..N |-> IF i = 0 THEN <<>>
                                           ELSE IF b[i].seq > q THEN Append(g[i - 1], b[i]) ELSE g[i - 1]]
<1>4. PICK f : f = [i \in 0..N |-> SubSeq(b, k + 1, i)]
  OBVIOUS
<1>5. ASSUME NEW i \in 1..N
      PROVE  f[i] = IF b[i].seq > q THEN Append(f[i - 1], b[i]) ELSE f[i - 1]
  <2>1. i \in 0..N /\ i - 1 \in 0..N /\ k + 1 \in Int /\ i \in Int /\ i - 1 \in Int
    BY <1>3
  <2>2. f[i] = SubSeq(b, k + 1, i) /\ f[i - 1] = SubSeq(b, k + 1, i - 1)
    BY <1>4, <2>1
  <2>3. CASE i > k
    <3>1. k + 1 \in 1..Len(b) /\ i \in k + 1..Len(b)
      BY <1>2, <1>3, <2>3
    <3>2. SubSeq(b, k + 1, i) = SubSeq(b, k + 1, i - 1) \o <<b[i]>>
      BY <1>3, <3>1, SubSeqRecursiveSecond
    <3>3. SubSeq(b, k + 1, i - 1) \in Seq(Event) /\ b[i] \in Event
      BY <1>2, <1>3, <2>3, SubBuffer, BufferIs
    <3>4. Append(SubSeq(b, k + 1, i - 1), b[i]) = SubSeq(b, k + 1, i - 1) \o <<b[i]>>
      BY <3>3, AppendIsConcat
    <3>5. QED
      BY <1>3, <2>2, <2>3, <3>2, <3>4
  <2>4. CASE ~(i > k)
    <3>1. i < k + 1 /\ i - 1 < k + 1
      BY <1>3, <2>4
    <3>2. SubSeq(b, k + 1, i) = <<>> /\ SubSeq(b, k + 1, i - 1) = <<>>
      BY <2>1, <3>1, SubSeqEmpty
    <3>3. QED
      BY <1>3, <2>2, <2>4, <3>2
  <2>5. QED
    BY <2>3, <2>4
<1>6. f[0] = <<>>
  BY <1>3, <1>4, SubSeqEmpty
<1>7. Keeps(f)
  <2>1. \A i \in 0..N : f[i] = IF i = 0 THEN <<>>
                               ELSE IF b[i].seq > q THEN Append(f[i - 1], b[i]) ELSE f[i - 1]
    BY <1>2, <1>5, <1>6
  <2>2. f = [i \in 0..N |-> f[i]]
    BY <1>4
  <2>3. QED
    BY <2>1, <2>2
<1>8. PICK g : g = CHOOSE h : Keeps(h)
  OBVIOUS
<1>9. Keeps(g)
  BY <1>7, <1>8, Zenon
<1>10. After(st, q) = g[N]
  BY <1>1, <1>2, <1>8 DEF After
<1>11. g[N] = f[N]
  <2> DEFINE Good == {n \in Nat : n <= N => g[n] = f[n]}
  <2>1. 0 \in Good
    BY <1>2, <1>9, <1>6
  <2>2. ASSUME NEW n \in Nat, n \in Good
        PROVE  n + 1 \in Good
    <3>1. CASE n + 1 <= N
      <4>1. n + 1 \in 0..N /\ n + 1 \in 1..N /\ n + 1 # 0 /\ n + 1 - 1 = n /\ n <= N
        BY <1>2, <3>1
      <4>2. g[n] = f[n]
        BY <2>2, <4>1
      <4>3. g[n + 1] = IF b[n + 1].seq > q THEN Append(g[n], b[n + 1]) ELSE g[n]
        <5>1. \A i \in 0..N : g[i] = IF i = 0 THEN <<>>
                                     ELSE IF b[i].seq > q THEN Append(g[i - 1], b[i]) ELSE g[i - 1]
          BY <1>9
        <5>2. g[n + 1] = IF n + 1 = 0 THEN <<>>
                         ELSE IF b[n + 1].seq > q THEN Append(g[n + 1 - 1], b[n + 1]) ELSE g[n + 1 - 1]
          BY <4>1, <5>1
        <5>3. QED
          BY <4>1, <5>2
      <4>4. f[n + 1] = IF b[n + 1].seq > q THEN Append(f[n], b[n + 1]) ELSE f[n]
        BY <1>5, <4>1
      <4>5. QED
        BY <4>2, <4>3, <4>4
    <3>2. CASE ~(n + 1 <= N)
      BY <3>2
    <3>3. QED
      BY <3>1, <3>2
  <2> HIDE DEF Good
  <2>3. \A n \in Nat : n \in Good
    BY <2>1, <2>2, AllNumbers
  <2>4. QED
    BY <1>2, <2>3 DEF Good
<1>12. QED
  BY <1>1, <1>2, <1>4, <1>10, <1>11

-----------------------------------------------------------------------------
(* A session on its own                                                     *)

Ends(e) == e.at + (IF e.type = "exit" THEN 0 ELSE e.units)
\* The events are numbered on from `dropped`, and their texts abut, up to `end`.
Whole(b, dropped, end) ==
    /\ \A i \in 1..Len(b) : b[i].seq = dropped + i
    /\ \A i \in 1..Len(b) : Ends(b[i]) = IF i < Len(b) THEN b[i + 1].at ELSE end
Text(b)   == \A i \in 1..Len(b) : b[i].type = "output"
Closed(b) == b # <<>> /\ \A i \in 1..Len(b) : b[i].type = "exit" <=> i = Len(b)

\* What holds of a session at every push.
KeptOK(st) ==
    /\ st \in SessionState /\ st.pending <= st.written
    /\ st.next = st.dropped + Len(st.buffer) + 1
    /\ Whole(st.buffer, st.dropped, st.written - st.pending)
    /\ st.bytes = Weight(st.buffer) /\ (st.bytes <= Scrollback \/ Len(st.buffer) = 1)
    /\ st.dropped > 0 => st.buffer # <<>>
HeldOK(st) == KeptOK(st) /\ st.status = "alive" /\ Text(st.buffer)
LiveOK(st) == HeldOK(st) /\ (st.pending > 0 => st.flush)
DeadOK(st) == KeptOK(st) /\ st.status = "dead" /\ Closed(st.buffer) /\ st.pending = 0

LEMMA LastFits ==
    ASSUME NEW b \in Seq(Event), NEW dropped \in Nat, NEW end, Whole(b, dropped, end), NEW e \in Event,
           e.at = end, e.seq = dropped + Len(b) + 1
    PROVE  Whole(Append(b, e), dropped, Ends(e))
<1>1. PICK c : c = Append(b, e)
  OBVIOUS
<1>2. PICK N \in Nat : N = Len(b)
  BY BufferIs
<1>3. c \in Seq(Event) /\ Len(c) = N + 1 /\ c[N + 1] = e /\ \A i \in 1..N : c[i] = b[i]
  BY <1>1, <1>2, AppendProperties
<1>4. \A i \in 1..N + 1 : i = N + 1 \/ i \in 1..N
  BY <1>2
<1>5. \A i \in 1..N + 1 : c[i].seq = dropped + i
  <2>1. c[N + 1].seq = dropped + (N + 1)
    BY <1>2, <1>3
  <2>2. \A i \in 1..N : c[i].seq = dropped + i
    BY <1>2, <1>3 DEF Whole
  <2>3. QED
    BY <1>4, <2>1, <2>2
<1>6. ASSUME NEW i \in 1..N + 1
      PROVE  Ends(c[i]) = IF i < N + 1 THEN c[i + 1].at ELSE Ends(e)
  <2>1. CASE i = N + 1
    BY <1>2, <1>3, <2>1
  <2>2. CASE i # N + 1
    <3>1. i \in 1..N /\ i < N + 1 /\ c[i] = b[i]
      BY <1>2, <1>3, <2>2
    <3>2. CASE i = N
      BY <1>2, <3>1, <3>2, <1>3 DEF Whole
    <3>3. CASE i # N
      BY <1>2, <3>1, <3>3, <1>3 DEF Whole
    <3>4. QED
      BY <3>2, <3>3
  <2>3. QED
    BY <2>1, <2>2
<1>7. QED
  BY <1>1, <1>3, <1>5, <1>6 DEF Whole

LEMMA CutFits ==
    ASSUME NEW b \in Seq(Event), NEW dropped \in Nat, NEW end, Whole(b, dropped, end), NEW n \in 0..Len(b)
    PROVE  LET c == SubSeq(b, n + 1, Len(b))
           IN  /\ Whole(c, dropped + n, end) /\ c \in Seq(Event) /\ Len(c) = Len(b) - n
               /\ \A i \in 1..Len(b) - n : c[i] = b[n + i]
<1>1. PICK c : c = SubSeq(b, n + 1, Len(b))
  OBVIOUS
<1>2. PICK N \in Nat : N = Len(b)
  BY BufferIs
<1>3. c \in Seq(Event) /\ Len(c) = N - n /\ \A i \in 1..N - n : c[i] = b[n + i]
  BY <1>2, <1>1, SubBuffer
<1>4. ASSUME NEW i \in 1..N - n
      PROVE  /\ c[i].seq = dropped + n + i
             /\ Ends(c[i]) = IF i < N - n THEN c[i + 1].at ELSE end
  <2>1. n + i \in 1..N /\ (i < N - n <=> n + i < N) /\ n \in Int /\ i \in Int
    BY <1>2
  <2>2. b[n + i].seq = dropped + (n + i) /\ Ends(b[n + i]) = IF n + i < N THEN b[n + i + 1].at ELSE end
    BY <1>2, <2>1 DEF Whole
  <2>3. c[i] = b[n + i] /\ dropped + (n + i) = dropped + n + i
    BY <1>3, <2>1
  <2>4. i < N - n => c[i + 1] = b[n + i + 1]
    <3>1. i < N - n => i + 1 \in 1..N - n /\ n + (i + 1) = n + i + 1
      BY <1>2
    <3>2. QED
      BY <1>3, <3>1
  <2>5. QED
    BY <2>1, <2>2, <2>3, <2>4
<1>5. QED
  BY <1>1, <1>2, <1>3, <1>4 DEF Whole

LEMMA SessionIs ==
    ASSUME NEW st \in SessionState
    PROVE  /\ st.buffer \in Seq(Event) /\ Len(st.buffer) \in Nat
           /\ st.bytes \in Nat /\ st.dropped \in Nat /\ st.next \in Nat \ {0} /\ st.pending \in Nat
           /\ st.written \in Nat /\ st.flush \in BOOLEAN /\ st.active \in Nat /\ st.died \in Nat
           /\ st.status \in {"new", "alive", "dead", "forgotten"} /\ st.owner \in Caller
BY BufferIs DEF SessionState

LEMMA ShiftedIs ==
    ASSUME NEW b \in Seq(Event), b # <<>>, NEW total \in Int,
           \A k \in 0..Len(b) - 1 : Weight(SubSeq(b, 1, k)) \in Int
    PROVE  LET n == Shifted(b, total)
           IN  /\ n \in 0..Len(b) - 1
               /\ n = Len(b) - 1 \/ total - Weight(SubSeq(b, 1, n)) <= Scrollback
<1> DEFINE Left(k) == total - Weight(SubSeq(b, 1, k))
           Fits(k) == /\ k = Len(b) - 1 \/ Left(k) <= Scrollback
                      /\ \A j \in 0..k - 1 : Left(j) > Scrollback
<1>1. PICK N \in Nat : N = Len(b) - 1
  <2>1. Len(b) \in Nat /\ Len(b) # 0
    BY EmptySeq, BufferIs
  <2>2. Len(b) - 1 \in Nat
    BY <2>1
  <2>3. QED
    BY <2>2
<1>2. \A k \in 0..N : Left(k) \in Int
  BY <1>1
<1> HIDE DEF Left
<1>3. \E k \in 0..N : Fits(k)
  <2> DEFINE Enough == {k \in 0..N : k = N \/ Left(k) <= Scrollback}
  <2>1. Enough \in SUBSET Nat /\ N \in Enough
    OBVIOUS
  <2>2. PICK k \in Enough : \A j \in Enough : k <= j
    <3> HIDE DEF Enough
    <3>1. Enough # {}
      BY <2>1
    <3>2. QED
      BY <2>1, <3>1, LeastNumber
  <2>3. ASSUME NEW j \in 0..k - 1
        PROVE  Left(j) > Scrollback
    BY <2>2, <2>3, <1>2, ConstantsAssumption
  <2>4. k \in 0..N /\ Fits(k)
    BY <1>1, <2>2, <2>3
  <2>5. QED
    BY <2>4
<1>4. PICK n : n = CHOOSE k \in 0..Len(b) - 1 : Fits(k)
  OBVIOUS
<1>5. n \in 0..Len(b) - 1 /\ Fits(n)
  <2> HIDE DEF Fits
  <2>1. \E k \in 0..Len(b) - 1 : Fits(k)
    BY <1>1, <1>3
  <2>2. QED
    BY <1>4, <2>1, Zenon
<1>6. n = Shifted(b, total)
  BY <1>4 DEF Shifted, Left
<1>7. QED
  BY <1>5, <1>6 DEF Left

\* push adds the event and shifts the oldest ones while over the cap.
Pushed(st, type, units, c, n) ==
    /\ Push(st, type, units) = [st EXCEPT !.buffer = c, !.next = st.next + 1, !.bytes = Weight(c), !.dropped = st.dropped + n]
    /\ c \in Seq(Event) /\ Len(c) = Len(st.buffer) + 1 - n
    /\ Whole(c, st.dropped + n, st.written - st.pending + (IF type = "exit" THEN 0 ELSE units))
    /\ Weight(c) <= Scrollback \/ Len(c) = 1
    /\ c[Len(c)].type = type /\ \A i \in 1..Len(c) : i < Len(c) => n + i \in 1..Len(st.buffer) /\ c[i] = st.buffer[n + i]

LEMMA PushIs ==
    ASSUME NEW st, KeptOK(st), NEW type \in {"output", "exit"}, NEW units \in Nat
    PROVE  \E c \in Seq(Event), n \in 0..Len(st.buffer) : Pushed(st, type, units, c, n)
<1>1. /\ st \in SessionState /\ st.buffer \in Seq(Event) /\ st.bytes \in Nat /\ st.dropped \in Nat /\ st.next \in Nat
      /\ st.pending \in Nat /\ st.written \in Nat /\ st.written - st.pending \in Nat
      /\ st.next = st.dropped + Len(st.buffer) + 1 /\ st.bytes = Weight(st.buffer)
      /\ Whole(st.buffer, st.dropped, st.written - st.pending)
  BY SessionIs DEF KeptOK
<1>2. PICK N \in Nat : N = Len(st.buffer)
  BY <1>1, BufferIs
<1>3. PICK at \in Nat : at = st.written - st.pending
  BY <1>1
<1>4. PICK e : e = [seq |-> st.next, type |-> type, at |-> st.written - st.pending, units |-> units]
  OBVIOUS
<1>5. e \in Event /\ e.seq = st.dropped + N + 1 /\ e.at = at /\ e.type = type /\ e.units = units
  BY <1>1, <1>2, <1>3, <1>4 DEF Event
<1>6. PICK buf : buf = Append(st.buffer, e)
  OBVIOUS
<1>7. /\ buf \in Seq(Event) /\ Len(buf) = N + 1 /\ buf[N + 1] = e /\ \A i \in 1..N : buf[i] = st.buffer[i]
      /\ Weight(buf) = st.bytes + units
      /\ Whole(buf, st.dropped, Ends(e))
  <2>1. /\ buf \in Seq(Event) /\ Len(buf) = N + 1 /\ buf[N + 1] = e /\ \A i \in 1..N : buf[i] = st.buffer[i]
    BY <1>1, <1>2, <1>5, <1>6, AppendProperties
  <2>2. Weight(buf) = st.bytes + units
    BY <1>1, <1>5, <1>6, WeightGrows
  <2>3. e.at = st.written - st.pending /\ e.seq = st.dropped + Len(st.buffer) + 1
    BY <1>2, <1>3, <1>5
  <2>4. Whole(buf, st.dropped, Ends(e))
    BY <1>1, <1>5, <1>6, <2>3, LastFits
  <2>5. QED
    BY <2>1, <2>2, <2>4
<1>8. PICK f : Totals(buf, f)
  BY <1>7, TotalsExist
<1>9. \A k \in 0..N : Weight(SubSeq(buf, 1, k)) = f[k]
  BY <1>7, <1>8, WeightIsSplit
<1>10. PICK total \in Int : total = st.bytes + units
  BY <1>1
<1>11. PICK n : n = Shifted(buf, total)
  OBVIOUS
<1>12. /\ n \in 0..Len(buf) - 1
       /\ n = Len(buf) - 1 \/ total - Weight(SubSeq(buf, 1, n)) <= Scrollback
  <2>1. \A k \in 0..N : Weight(SubSeq(buf, 1, k)) \in Int
    BY <1>7, <1>8, <1>9 DEF Totals
  <2>2. Len(buf) - 1 = N
    BY <1>7
  <2>3. buf # <<>>
    BY <1>7, EmptySeq
  <2>4. \A k \in 0..Len(buf) - 1 : Weight(SubSeq(buf, 1, k)) \in Int
    BY <2>1, <2>2
  <2>5. buf \in Seq(Event)
    BY <1>7
  <2>6. QED
    BY <1>11, <2>3, <2>4, <2>5, ShiftedIs
<1>13. n \in 0..N /\ n \in 0..Len(buf) /\ n \in Nat
  BY <1>7, <1>12
<1>14. PICK c : c = SubSeq(buf, n + 1, Len(buf))
  OBVIOUS
<1>15. /\ c \in Seq(Event) /\ Len(c) = N + 1 - n /\ \A i \in 1..N + 1 - n : c[i] = buf[n + i]
       /\ Whole(c, st.dropped + n, Ends(e))
  <2>1. Len(buf) - n = N + 1 - n
    BY <1>7, <1>13
  <2>2. QED
    BY SMTT(20), <1>1, <1>7, <1>13, <1>14, <2>1, CutFits
<1>16. Weight(c) = st.bytes + units - Weight(SubSeq(buf, 1, n))
  <2>1. Weight(c) = f[Len(buf)] - f[n] /\ Weight(buf) = f[Len(buf)]
    BY <1>7, <1>8, <1>13, <1>14, WeightIsSplit, WeightIs
  <2>2. Weight(SubSeq(buf, 1, n)) = f[n]
    BY <1>9, <1>13
  <2>3. Weight(buf) = st.bytes + units
    BY <1>7
  <2>4. f[n] \in Int /\ f[Len(buf)] \in Int
    BY <1>7, <1>8, <1>13 DEF Totals
  <2>5. PICK v \in Int, w \in Int : v = f[n] /\ w = f[Len(buf)]
    BY <2>4
  <2>6. w = st.bytes + units
    BY <2>1, <2>3, <2>5
  <2>7. Weight(c) = w - v /\ Weight(SubSeq(buf, 1, n)) = v
    BY <2>1, <2>2, <2>5
  <2>8. PICK u \in Nat : u = st.bytes
    BY <1>1
  <2>9. w = u + units
    BY <2>6, <2>8
  <2>10. Weight(c) = u + units - v
    BY <2>7, <2>9
  <2>11. QED
    BY <2>7, <2>8, <2>10
<1>17. Weight(c) <= Scrollback \/ Len(c) = 1
  <2>1. CASE n = N
    BY <1>15, <2>1
  <2>2. CASE n # N
    <3>1. Len(buf) - 1 = N
      BY <1>7
    <3>2. total - Weight(SubSeq(buf, 1, n)) <= Scrollback
      BY <1>12, <2>2, <3>1
    <3>3. Weight(c) = total - Weight(SubSeq(buf, 1, n))
      <4>1. PICK w \in Int : w = Weight(SubSeq(buf, 1, n))
        BY <1>8, <1>9, <1>13 DEF Totals
      <4>2. PICK u \in Nat : u = st.bytes
        BY <1>1
      <4>3. Weight(c) = u + units - w /\ total = u + units
        BY <1>10, <1>16, <4>1, <4>2
      <4>4. QED
        BY <4>1, <4>3
    <3>4. QED
      BY <3>2, <3>3
  <2>3. QED
    BY <2>1, <2>2
<1>18. st.dropped + n = IF n = 0 THEN st.dropped ELSE buf[n].seq
  BY SMTT(30), <1>7, <1>13, <1>1 DEF Whole
<1>19. Push(st, type, units) =
          [st EXCEPT !.buffer = c, !.next = st.next + 1, !.bytes = Weight(c), !.dropped = st.dropped + n]
  BY <1>4, <1>6, <1>10, <1>11, <1>14, <1>16, <1>18 DEF Push
<1>20. c[Len(c)].type = type /\ \A i \in 1..Len(c) : i < Len(c) => n + i \in 1..N /\ c[i] = st.buffer[n + i]
  BY <1>13, <1>15, <1>7, <1>5
<1>21. Ends(e) = st.written - st.pending + (IF type = "exit" THEN 0 ELSE units)
  BY <1>3, <1>5 DEF Ends
<1>22. Pushed(st, type, units, c, n)
  BY <1>2, <1>15, <1>17, <1>19, <1>20, <1>21 DEF Pushed
<1>23. QED
  BY <1>2, <1>13, <1>15, <1>22

LEMMA OutputPushed ==
    ASSUME NEW st, HeldOK(st), NEW units \in 0..st.pending
    PROVE  LET r == PushPart(st, units)
           IN  /\ HeldOK(r) /\ r.pending = st.pending - units /\ r.written = st.written /\ r.flush = st.flush
               /\ r.next = st.next + 1
<1>1. KeptOK(st) /\ st.status = "alive" /\ Text(st.buffer)
  BY DEF HeldOK
<1>2. /\ st \in SessionState /\ st.buffer \in Seq(Event) /\ Len(st.buffer) \in Nat /\ st.dropped \in Nat /\ st.next \in Nat \ {0}
      /\ st.pending \in Nat /\ st.written \in Nat /\ st.pending <= st.written /\ units \in Nat
      /\ st.next = st.dropped + Len(st.buffer) + 1
  BY <1>1, SessionIs DEF KeptOK
<1>3. PICK c \in Seq(Event), n \in 0..Len(st.buffer) : Pushed(st, "output", units, c, n)
  BY <1>1, <1>2, PushIs
<1>4. PICK r : r = PushPart(st, units)
  OBVIOUS
<1>5. r = [st EXCEPT !.buffer = c, !.next = st.next + 1, !.bytes = Weight(c), !.dropped = st.dropped + n,
                     !.pending = st.pending - units]
  BY <1>3, <1>4 DEF PushPart, Pushed
<1>6. /\ r.buffer = c /\ r.next = st.next + 1 /\ r.bytes = Weight(c) /\ r.dropped = st.dropped + n
      /\ r.pending = st.pending - units /\ r.written = st.written /\ r.status = st.status /\ r.flush = st.flush
  BY <1>2, <1>5 DEF SessionState
<1>7. PICK N \in Nat : N = Len(st.buffer)
  BY <1>2
<1>8. Weight(c) \in Nat /\ Len(c) \in Nat /\ Len(c) = N + 1 - n /\ n \in Nat
  BY <1>3, <1>7, WeightIsNat, BufferIs DEF Pushed
<1>9. r \in SessionState
  <2>1. st.dropped + n \in Nat /\ st.next + 1 \in Nat \ {0} /\ Weight(c) \in Nat /\ c \in Seq(Event)
    <3>1. PICK d \in Nat, q \in Nat : d = st.dropped /\ q = st.next
      BY <1>2
    <3>2. d + n \in Nat /\ q + 1 \in Nat \ {0}
      BY <1>8
    <3>3. QED
      BY <1>3, <1>8, <3>1, <3>2
  <2>2. st.pending - units \in Nat
    BY <1>2
  <2>3. QED
    BY <1>2, <1>5, <2>1, <2>2 DEF SessionState
<1>10. /\ r.pending \in Nat /\ r.pending <= r.written /\ r.next = r.dropped + Len(r.buffer) + 1
       /\ r.written - r.pending = st.written - st.pending + units
  <2>1. PICK p \in Nat, w \in Nat, d \in Nat, l \in Nat : p = st.pending /\ w = st.written /\ d = st.dropped /\ l = Len(c)
    BY <1>2, <1>8
  <2>2. r.pending = p - units /\ r.written = w /\ r.dropped = d + n /\ Len(r.buffer) = l
    BY <1>6, <2>1
  <2>3. r.next = d + N + 1 + 1 /\ l = N + 1 - n
    BY <1>2, <1>6, <1>7, <1>8, <2>1
  <2>4. units \in 0..p /\ p <= w
    BY <1>2, <2>1
  <2>5. p - units \in Nat /\ p - units <= w /\ w - (p - units) = w - p + units /\ d + N + 1 + 1 = d + n + l + 1
    BY <2>4, <2>3, <1>8
  <2>6. QED
    BY <2>1, <2>2, <2>3, <2>5
<1>11. Whole(r.buffer, r.dropped, r.written - r.pending)
  BY <1>3, <1>6, <1>10 DEF Pushed
<1>12. c # <<>>
  BY <1>7, <1>8, EmptySeq
<1>13. r.bytes <= Scrollback \/ Len(r.buffer) = 1
  BY <1>3, <1>6 DEF Pushed
<1>14. KeptOK(r)
  BY <1>6, <1>9, <1>10, <1>11, <1>12, <1>13 DEF KeptOK
<1>15. Text(c)
  <2>1. ASSUME NEW i \in 1..Len(c)
        PROVE  c[i].type = "output"
    <3>1. CASE i = Len(c)
      BY <1>3, <3>1 DEF Pushed
    <3>2. CASE i # Len(c)
      <4>1. i < Len(c)
        BY <1>8, <3>2
      <4>2. n + i \in 1..Len(st.buffer) /\ c[i] = st.buffer[n + i]
        BY <1>3, <4>1 DEF Pushed
      <4>3. QED
        BY <1>1, <4>2 DEF Text
    <3>3. QED
      BY <3>1, <3>2
  <2>2. QED
    BY <2>1 DEF Text
<1>16. QED
  BY <1>1, <1>4, <1>6, <1>14, <1>15 DEF HeldOK

LEMMA ExitPushed ==
    ASSUME NEW st, KeptOK(st), Text(st.buffer), st.pending = 0, st.status = "dead"
    PROVE  LET r == Push(st, "exit", ExitUnits)
           IN  DeadOK(r) /\ r.next = st.next + 1
<1>2. /\ st \in SessionState /\ st.buffer \in Seq(Event) /\ Len(st.buffer) \in Nat /\ st.dropped \in Nat /\ st.next \in Nat \ {0}
      /\ st.written \in Nat /\ ExitUnits \in Nat
      /\ st.next = st.dropped + Len(st.buffer) + 1
  BY SessionIs, ConstantsAssumption DEF KeptOK
<1>3. PICK c \in Seq(Event), n \in 0..Len(st.buffer) : Pushed(st, "exit", ExitUnits, c, n)
  BY <1>2, PushIs
<1>4. PICK r : r = Push(st, "exit", ExitUnits)
  OBVIOUS
<1>5. r = [st EXCEPT !.buffer = c, !.next = st.next + 1, !.bytes = Weight(c), !.dropped = st.dropped + n]
  BY <1>3, <1>4 DEF Pushed
<1>6. /\ r.buffer = c /\ r.next = st.next + 1 /\ r.bytes = Weight(c) /\ r.dropped = st.dropped + n
      /\ r.pending = 0 /\ r.written = st.written /\ r.status = st.status /\ r.flush = st.flush
  BY <1>2, <1>5 DEF SessionState
<1>7. PICK N \in Nat : N = Len(st.buffer)
  BY <1>2
<1>8. Weight(c) \in Nat /\ Len(c) \in Nat /\ Len(c) = N + 1 - n /\ n \in Nat
  BY <1>3, <1>7, WeightIsNat, BufferIs DEF Pushed
<1>9. r \in SessionState
  <2>1. st.dropped + n \in Nat /\ st.next + 1 \in Nat \ {0} /\ Weight(c) \in Nat /\ c \in Seq(Event)
    <3>1. PICK d \in Nat, q \in Nat : d = st.dropped /\ q = st.next
      BY <1>2
    <3>2. d + n \in Nat /\ q + 1 \in Nat \ {0}
      BY <1>8
    <3>3. QED
      BY <1>3, <1>8, <3>1, <3>2
  <2>2. QED
    BY <1>2, <1>5, <2>1 DEF SessionState
<1>10. /\ r.pending <= r.written /\ r.next = r.dropped + Len(r.buffer) + 1
       /\ r.written - r.pending = st.written - st.pending + 0
  <2>1. PICK w \in Nat, d \in Nat, l \in Nat : w = st.written /\ d = st.dropped /\ l = Len(c)
    BY <1>2, <1>8
  <2>2. r.pending = 0 /\ st.pending = 0 /\ r.written = w /\ r.dropped = d + n /\ Len(r.buffer) = l
    BY <1>6, <2>1
  <2>3. r.next = d + N + 1 + 1 /\ l = N + 1 - n
    BY <1>2, <1>6, <1>7, <1>8, <2>1
  <2>4. 0 <= w /\ w - 0 = w - 0 + 0 /\ d + N + 1 + 1 = d + n + l + 1
    BY <2>3, <1>8
  <2>5. QED
    BY <2>1, <2>2, <2>3, <2>4
<1>11. Whole(r.buffer, r.dropped, r.written - r.pending)
  BY <1>3, <1>6, <1>10 DEF Pushed
<1>12. c # <<>>
  BY <1>7, <1>8, EmptySeq
<1>13. r.bytes <= Scrollback \/ Len(r.buffer) = 1
  BY <1>3, <1>6 DEF Pushed
<1>14. KeptOK(r)
  BY <1>6, <1>9, <1>10, <1>11, <1>12, <1>13 DEF KeptOK
<1>15. Closed(c)
  <2>1. ASSUME NEW i \in 1..Len(c)
        PROVE  c[i].type = "exit" <=> i = Len(c)
    <3>1. CASE i = Len(c)
      BY <1>3, <3>1 DEF Pushed
    <3>2. CASE i # Len(c)
      <4>1. i < Len(c)
        BY <1>8, <3>2
      <4>2. n + i \in 1..Len(st.buffer) /\ c[i] = st.buffer[n + i]
        BY <1>3, <4>1 DEF Pushed
      <4>3. c[i].type = "output"
        BY <4>2 DEF Text
      <4>4. QED
        BY <3>2, <4>3
    <3>3. QED
      BY <3>1, <3>2
  <2>2. QED
    BY <1>12, <2>1 DEF Closed
<1>16. QED
  BY <1>4, <1>6, <1>14, <1>15 DEF DeadOK

-----------------------------------------------------------------------------
(* Flushing in parts                                                        *)

LEMMA TimesGrows == \A a, b, e \in Nat : a <= b => a * e <= b * e
<1>1. SUFFICES ASSUME NEW a \in Nat, NEW b \in Nat, NEW e \in Nat, a <= b PROVE a * e <= b * e
  OBVIOUS
<1>2. PICK d \in Nat : d = b - a
  BY <1>1
<1>3. b * e = a * e + d * e /\ d * e \in Nat /\ a * e \in Nat
  BY <1>2
<1>4. QED
  BY <1>3

\* The parts of a flush are of at most EventUnits and are all there is.
LEMMA PartsAre ==
    ASSUME NEW P \in Nat
    PROVE  /\ Parts(P) \in Nat
           /\ Parts(P) = 0 <=> P = 0
           /\ \A i \in 1..Parts(P) :
                 /\ (i - 1) * EventUnits \in Nat /\ (i - 1) * EventUnits < P
                 /\ PartUnits(P, i) \in 1..P - (i - 1) * EventUnits
                 /\ i < Parts(P) => P - (i - 1) * EventUnits - PartUnits(P, i) = P - i * EventUnits
                 /\ i = Parts(P) => P - (i - 1) * EventUnits - PartUnits(P, i) = 0
BY ConstantsAssumption, TimesGrows DEF Parts, PartUnits

\* What is left of P to be flushed after i parts.
Rest(P, i) == IF i = Parts(P) THEN 0 ELSE P - i * EventUnits

\* flushOutput, part by part.
Flushing(st, g) ==
    /\ g = [i \in 0..Parts(st.pending) |-> IF i = 0 THEN [st EXCEPT !.flush = FALSE]
                                           ELSE PushPart(g[i - 1], PartUnits(st.pending, i))]

LEMMA FlushingExists == ASSUME NEW st, st.pending \in Nat PROVE \E g : Flushing(st, g)
<1>1. PICK P \in Nat : P = st.pending
  OBVIOUS
<1>2. PICK N \in Nat : N = Parts(P)
  BY PartsAre
<1>3. PICK base : base = [st EXCEPT !.flush = FALSE]
  OBVIOUS
<1> DEFINE Upto(n) == \E f : /\ f = [i \in 0..n |-> f[i]] /\ f[0] = base
                             /\ \A i \in 1..n : f[i] = PushPart(f[i - 1], PartUnits(P, i))
           Good == {n \in Nat : n <= N => Upto(n)}
<1>4. Upto(0)
  <2>1. PICK f : f = [i \in 0..0 |-> base]
    OBVIOUS
  <2>2. f = [i \in 0..0 |-> f[i]] /\ f[0] = base /\ \A i \in 1..0 : f[i] = PushPart(f[i - 1], PartUnits(P, i))
    BY <2>1
  <2>3. QED
    BY <2>2
<1>5. ASSUME NEW n \in Nat, Upto(n)
      PROVE  Upto(n + 1)
  <2>1. PICK f : /\ f = [i \in 0..n |-> f[i]] /\ f[0] = base
                 /\ \A i \in 1..n : f[i] = PushPart(f[i - 1], PartUnits(P, i))
    BY <1>5
  <2>2. PICK g : g = [i \in 0..n + 1 |-> IF i = n + 1 THEN PushPart(f[n], PartUnits(P, n + 1)) ELSE f[i]]
    OBVIOUS
  <2>3. g = [i \in 0..n + 1 |-> g[i]] /\ g[0] = base
    BY <2>1, <2>2
  <2>4. ASSUME NEW i \in 1..n + 1
        PROVE  g[i] = PushPart(g[i - 1], PartUnits(P, i))
    <3>1. i \in 0..n + 1 /\ i - 1 \in 0..n + 1 /\ i - 1 # n + 1 /\ (i # n + 1 => i \in 1..n) /\ n + 1 - 1 = n
      OBVIOUS
    <3>2. g[i - 1] = f[i - 1]
      BY <2>2, <3>1
    <3>3. CASE i = n + 1
      BY <2>2, <3>1, <3>2, <3>3
    <3>4. CASE i # n + 1
      BY <2>1, <2>2, <3>1, <3>2, <3>4
    <3>5. QED
      BY <3>3, <3>4
  <2>5. QED
    BY <2>3, <2>4
<1>6. \A n \in Nat : n \in Good
  <2>1. 0 \in Good
    BY <1>4
  <2> HIDE DEF Upto
  <2>2. ASSUME NEW n \in Nat, n \in Good
        PROVE  n + 1 \in Good
    BY <2>2, <1>5
  <2> HIDE DEF Good
  <2>3. QED
    BY <2>1, <2>2, AllNumbers
<1>7. PICK f : /\ f = [i \in 0..N |-> f[i]] /\ f[0] = base
               /\ \A i \in 1..N : f[i] = PushPart(f[i - 1], PartUnits(P, i))
  BY <1>6
<1>8. \A i \in 0..N : f[i] = IF i = 0 THEN base ELSE PushPart(f[i - 1], PartUnits(P, i))
  <2>1. \A i \in 0..N : i = 0 \/ i \in 1..N
    OBVIOUS
  <2>2. QED
    BY <1>7, <2>1
<1>9. f = [i \in 0..N |-> IF i = 0 THEN base ELSE PushPart(f[i - 1], PartUnits(P, i))]
  BY <1>7, <1>8
<1>10. QED
  BY <1>1, <1>2, <1>3, <1>9 DEF Flushing

\* What stays of a session in every part of a flush.
Draining(st, P, i, r) ==
    HeldOK(r) /\ r.pending = Rest(P, i) /\ r.flush = FALSE /\ r.next = st.next + i

LEMMA DrainingStep ==
    ASSUME NEW st, st.next \in Nat, NEW P \in Nat, NEW i \in 1..Parts(P), NEW r, Draining(st, P, i - 1, r)
    PROVE  Draining(st, P, i, PushPart(r, PartUnits(P, i)))
<1>1. PICK N \in Nat : N = Parts(P)
  BY PartsAre
<1>2. PICK u : u = PartUnits(P, i)
  OBVIOUS
<1>3. i - 1 # N /\ i \in Nat
  BY <1>1
<1>4. r.pending = P - (i - 1) * EventUnits
  BY <1>1, <1>3 DEF Draining, Rest
<1>5. /\ u \in 1..r.pending /\ r.pending \in Nat
      /\ (i < N => r.pending - u = P - i * EventUnits) /\ (i = N => r.pending - u = 0)
  BY PartsAre, <1>4, <1>1, <1>2
<1>6. r.pending - u = Rest(P, i)
  BY <1>1, <1>5 DEF Rest
<1>7. HeldOK(r) /\ u \in 0..r.pending
  BY <1>5 DEF Draining
<1>8. /\ HeldOK(PushPart(r, u)) /\ PushPart(r, u).pending = r.pending - u /\ PushPart(r, u).flush = r.flush
      /\ PushPart(r, u).next = r.next + 1
  BY <1>7, OutputPushed
<1>9. PushPart(r, u).next = st.next + i
  BY <1>3, <1>8 DEF Draining
<1>10. QED
  BY <1>2, <1>6, <1>8, <1>9 DEF Draining

LEMMA UnflaggedHolds ==
    ASSUME NEW st, HeldOK(st), NEW flag \in BOOLEAN
    PROVE  LET r == [st EXCEPT !.flush = flag]
           IN  HeldOK(r) /\ r.pending = st.pending /\ r.flush = flag /\ r.next = st.next
BY DEF HeldOK, KeptOK, SessionState

LEMMA DrainingStarts ==
    ASSUME NEW st, LiveOK(st)
    PROVE  Draining(st, st.pending, 0, [st EXCEPT !.flush = FALSE])
<1>1. HeldOK(st) /\ st.pending \in Nat
  BY SessionIs DEF LiveOK, HeldOK, KeptOK
<1>2. Rest(st.pending, 0) = st.pending
  BY ConstantsAssumption, <1>1, PartsAre DEF Rest
<1>3. st.next + 0 = st.next
  BY <1>1, SessionIs DEF HeldOK, KeptOK
<1>4. QED
  BY <1>1, <1>2, <1>3, UnflaggedHolds DEF Draining

LEMMA FlushedIs ==
    ASSUME NEW st, LiveOK(st)
    PROVE  LET r == Flushed(st)
           IN  HeldOK(r) /\ r.pending = 0 /\ r.flush = FALSE /\ r.next = st.next + Parts(st.pending)
<1>1. st.status = "alive" /\ st.pending \in Nat /\ st.next \in Nat
  BY SessionIs DEF LiveOK, HeldOK, KeptOK
<1>2. PICK P \in Nat : P = st.pending
  BY <1>1
<1>3. PICK N \in Nat : N = Parts(P)
  BY PartsAre
<1>4. PICK g : g = CHOOSE h : Flushing(st, h)
  OBVIOUS
<1>5. Flushing(st, g)
  BY <1>1, <1>4, FlushingExists, Zenon
<1>6. /\ g[0] = [st EXCEPT !.flush = FALSE]
      /\ \A i \in 1..N : g[i] = PushPart(g[i - 1], PartUnits(P, i))
  <2>1. \A i \in 0..N : g[i] = IF i = 0 THEN [st EXCEPT !.flush = FALSE] ELSE PushPart(g[i - 1], PartUnits(P, i))
    BY <1>2, <1>3, <1>5 DEF Flushing
  <2>2. 0 \in 0..N /\ \A i \in 1..N : i \in 0..N /\ i # 0
    OBVIOUS
  <2>3. QED
    BY <2>1, <2>2
<1> DEFINE Good == {n \in Nat : n <= N => Draining(st, P, n, g[n])}
<1>7. 0 \in Good
  BY <1>2, <1>6, DrainingStarts
<1>8. ASSUME NEW n \in Nat, n \in Good
      PROVE  n + 1 \in Good
  BY <1>3, <1>8, <1>1, DrainingStep, <1>6
<1> HIDE DEF Good
<1>9. \A n \in Nat : n \in Good
  BY <1>7, <1>8, AllNumbers
<1>10. Draining(st, P, N, g[N])
  BY <1>9 DEF Good
<1>11. Flushed(st) = g[N]
  BY <1>1, <1>2, <1>3, <1>4 DEF Flushed, Flushing
<1>12. QED
  BY <1>2, <1>3, <1>10, <1>11 DEF Draining, Rest

LEMMA FirstFlushedIs ==
    ASSUME NEW st, LiveOK(st), Pushes(st)
    PROVE  HeldOK(FirstFlushed(st)) /\ FirstFlushed(st).next = st.next + 1 /\ Parts(st.pending) \in Nat \ {0}
<1>1. st.pending \in Nat /\ st.next \in Nat
  BY SessionIs DEF LiveOK, HeldOK, KeptOK
<1>2. PICK P \in Nat \ {0} : P = st.pending
  BY <1>1 DEF Pushes
<1>3. 1 \in 1..Parts(P)
  BY PartsAre
<1>4. Draining(st, P, 0, [st EXCEPT !.flush = FALSE])
  BY <1>2, DrainingStarts
<1>5. 1 - 1 = 0
  OBVIOUS
<1>6. Draining(st, P, 1, PushPart([st EXCEPT !.flush = FALSE], PartUnits(P, 1)))
  BY <1>1, <1>3, <1>4, <1>5, DrainingStep
<1>7. Parts(P) \in Nat \ {0}
  BY PartsAre
<1>8. QED
  BY <1>2, <1>6, <1>7 DEF FirstFlushed, Draining

LEMMA EndedIs == ASSUME NEW st, LiveOK(st), clock \in Nat PROVE DeadOK(Ended(st)) /\ Ended(st).next = st.next + Parts(st.pending) + 1
<1>1. PICK r : r = Flushed(st)
  OBVIOUS
<1>2. HeldOK(r) /\ r.pending = 0 /\ r.next = st.next + Parts(st.pending)
  BY <1>1, FlushedIs
<1>3. PICK d : d = [r EXCEPT !.status = "dead", !.died = clock]
  OBVIOUS
<1>4. r \in SessionState
  BY <1>2 DEF HeldOK, KeptOK
<1>5. /\ d \in SessionState /\ d.status = "dead" /\ d.buffer = r.buffer /\ d.bytes = r.bytes
      /\ d.dropped = r.dropped /\ d.next = r.next /\ d.pending = r.pending /\ d.written = r.written
  BY <1>3, <1>4 DEF SessionState
<1>6. KeptOK(d) /\ Text(d.buffer) /\ d.pending = 0 /\ d.status = "dead"
  BY <1>2, <1>5 DEF HeldOK, KeptOK
<1>7. DeadOK(Push(d, "exit", ExitUnits)) /\ Push(d, "exit", ExitUnits).next = d.next + 1
  BY <1>6, ExitPushed
<1>8. QED
  BY <1>1, <1>2, <1>3, <1>5, <1>7 DEF Ended

-----------------------------------------------------------------------------
(* What a call is told                                                      *)

Honest(answer, after) ==
    /\ answer.truncated <=> answer.events # <<>> /\ answer.events[1].seq > after + 1
    /\ \A i \in 1..Len(answer.events) - 1 : answer.events[i + 1].seq = answer.events[i].seq + 1
    /\ answer.events # <<>> => (~answer.alive <=> Last(answer.events).type = "exit")

\* A session only goes on: its numbers grow, with its end they have grown, and then they stay.
Later(st, r) ==
    r.status # "forgotten" =>
        /\ st.status # "forgotten" /\ st.next <= r.next
        /\ st.status = "dead" => r.status = "dead" /\ r.next = st.next
        /\ st.status # "dead" /\ r.status = "dead" => st.next < r.next

\* What an answer says stays true of the session as it goes on.
Told(answer, after, r) ==
    /\ \A i \in 1..Len(answer.events) : answer.events[i].seq > after
    /\ r.status # "forgotten" => \A i \in 1..Len(answer.events) : answer.events[i].seq < r.next
    /\ r.status = "dead" /\ answer.events # <<>> /\ Last(answer.events).seq >= r.next - 1
          => Last(answer.events).type = "exit"
    /\ r.status # "forgotten" /\ ~answer.alive /\ answer.events = <<>> => r.status = "dead" /\ after >= r.next - 1

LEMMA LastIs ==
    ASSUME NEW ev \in Seq(Event), ev # <<>>
    PROVE  Len(ev) \in 1..Len(ev) /\ Last(ev) = ev[Len(ev)] /\ Last(ev).seq \in Nat
BY BufferIs, EmptySeq DEF Last

LEMMA ToldLater ==
    ASSUME NEW a, a.events \in Seq(Event), NEW q, NEW st, NEW r, st.next \in Nat, r.next \in Nat,
           Told(a, q, st), Later(st, r)
    PROVE  Told(a, q, r)
<1>1. PICK ev \in Seq(Event) : ev = a.events
  OBVIOUS
<1>2. PICK m \in Nat, n \in Nat : m = st.next /\ n = r.next
  OBVIOUS
<1>3. ASSUME r.status # "forgotten", NEW i \in 1..Len(ev)
      PROVE  ev[i].seq < n
  BY <1>2, <1>3, <1>1, BufferIs DEF Later, Told
<1>4. ASSUME r.status = "dead", ev # <<>>, Last(ev).seq >= n - 1
      PROVE  Last(ev).type = "exit"
  <2>1. CASE st.status = "dead"
    BY <1>2, <1>4, <2>1, <1>1 DEF Later, Told
  <2>2. CASE st.status # "dead"
    BY <1>2, <1>4, <2>2, LastIs, <1>1 DEF Later, Told
  <2>3. QED
    BY <2>1, <2>2
<1>5. ASSUME r.status # "forgotten", ~a.alive, ev = <<>>
      PROVE  r.status = "dead" /\ q >= n - 1
  BY <1>5, <1>1, <1>2 DEF Later, Told
<1>6. QED
  BY <1>1, <1>2, <1>3, <1>4, <1>5 DEF Told

LEMMA SameEvents == ASSUME NEW st, NEW r, NEW q, r.buffer = st.buffer PROVE After(r, q) = After(st, q)
BY DEF After

LEMMA SnapshotIs ==
    ASSUME NEW st, HeldOK(st) \/ DeadOK(st), NEW q \in Nat
    PROVE  /\ Snapshot(st, q) \in Answer /\ Honest(Snapshot(st, q), q) /\ Snapshot(st, q).events = After(st, q)
           /\ Told(Snapshot(st, q), q, st) /\ Snapshot(st, q).kind = "ok"
<1>1. KeptOK(st)
  BY DEF HeldOK, DeadOK
<1>2. /\ st \in SessionState /\ st.buffer \in Seq(Event) /\ Len(st.buffer) \in Nat /\ st.dropped \in Nat
      /\ Whole(st.buffer, st.dropped, st.written - st.pending) /\ (st.dropped > 0 => st.buffer # <<>>)
  BY <1>1, SessionIs DEF KeptOK
<1>3. PICK b \in Seq(Event) : b = st.buffer
  BY <1>2
<1>4. PICK N \in Nat : N = Len(b)
  BY <1>2, <1>3
<1>5. PICK d \in Nat : d = st.dropped
  BY <1>2
<1>6. \A i \in 1..N : b[i].seq = d + i
  BY <1>2, <1>3, <1>4, <1>5 DEF Whole
<1>7. PICK k \in 0..N : k = IF q <= d THEN 0 ELSE IF q - d <= N THEN q - d ELSE N
  <2>1. (IF q <= d THEN 0 ELSE IF q - d <= N THEN q - d ELSE N) \in 0..N
    OBVIOUS
  <2>2. QED
    BY <2>1
<1>8. \A i \in 1..N : b[i].seq > q <=> i > k
  BY <1>7, <1>6
<1>9. PICK ev : ev = SubSeq(b, k + 1, N)
  OBVIOUS
<1>10. After(st, q) = ev
  BY <1>3, <1>4, <1>8, <1>9, AfterIs
<1>11. ev \in Seq(Event) /\ Len(ev) = N - k /\ \A i \in 1..N - k : ev[i] = b[k + i]
  BY <1>4, <1>9, SubBuffer
<1>12. ev # <<>> <=> k < N
  BY <1>11, EmptySeq
<1>13. PICK a : a = Snapshot(st, q)
  OBVIOUS
<1>14. a = [kind |-> "ok", alive |-> st.status = "alive", events |-> ev, truncated |-> q < st.dropped]
  BY <1>10, <1>13 DEF Snapshot
<1>15. a.kind = "ok" /\ a.events = ev /\ a.alive = (st.status = "alive") /\ a.truncated = (q < st.dropped)
  BY <1>14
<1>16. a \in Answer
  BY <1>11, <1>14 DEF Answer
<1>17. a.truncated <=> ev # <<>> /\ ev[1].seq > q + 1
  <2>1. k < N => ev[1].seq = d + (k + 1)
    BY <1>6, <1>11
  <2>2. q < d => k = 0 /\ N # 0
    BY <1>2, <1>3, <1>4, <1>5, EmptySeq, <1>7
  <2>3. k < N => (d + (k + 1) > q + 1 <=> q < d)
    BY <1>7
  <2>4. CASE k < N
    BY <1>5, <1>15, <1>12, <2>1, <2>3, <2>4
  <2>5. CASE ~(k < N)
    <3>1. ~(q < d)
      BY <2>2, <2>5
    <3>2. QED
      BY <1>5, <1>12, <1>15, <2>5, <3>1
  <2>6. QED
    BY <2>4, <2>5
<1>18. ASSUME NEW i \in 1..Len(ev) - 1
       PROVE  ev[i + 1].seq = ev[i].seq + 1
  <2>1. i \in 1..N - k /\ i + 1 \in 1..N - k /\ k + i \in 1..N /\ k + (i + 1) \in 1..N
    BY <1>11
  <2>2. ev[i + 1].seq = d + (k + (i + 1)) /\ ev[i].seq = d + (k + i)
    BY <1>6, <1>11, <2>1
  <2>3. d + (k + (i + 1)) = d + (k + i) + 1
    BY <2>1
  <2>4. QED
    BY <2>2, <2>3
<1>19. ev # <<>> => (~a.alive <=> Last(ev).type = "exit")
  <2>1. SUFFICES ASSUME k < N
                 PROVE  ~a.alive <=> Last(ev).type = "exit"
    BY <1>12
  <2>2. N - k \in 1..N - k /\ k + (N - k) = N /\ N \in 1..N
    BY <2>1
  <2>3. Last(ev) = b[N]
    BY <1>11, <2>2 DEF Last
  <2>4. HeldOK(st) => st.status = "alive" /\ b[N].type = "output"
    BY <1>3, <1>4, <2>2 DEF HeldOK, Text
  <2>5. DeadOK(st) => st.status = "dead" /\ b[N].type = "exit"
    BY <1>3, <1>4, <2>2 DEF DeadOK, Closed
  <2>6. QED
    BY <1>15, <2>3, <2>4, <2>5
<1>20. Honest(a, q)
  BY <1>15, <1>17, <1>18, <1>19 DEF Honest
<1>21. Told(a, q, st)
  <2>1. PICK m \in Nat : m = st.next
    BY <1>2, SessionIs
  <2>2. m = d + N + 1
    BY <1>1, <1>3, <1>4, <1>5, <2>1 DEF KeptOK
  <2>3. ASSUME NEW i \in 1..Len(ev)
        PROVE  ev[i].seq > q /\ ev[i].seq < m
    <3>1. i \in 1..N - k /\ k + i \in 1..N /\ k + i > k
      BY <1>11, <2>3
    <3>2. ev[i].seq = d + (k + i) /\ ev[i].seq > q
      BY <1>6, <1>8, <1>11, <3>1
    <3>3. QED
      BY <2>2, <3>1, <3>2
  <2>4. st.status = "dead" /\ ev # <<>> => Last(ev).type = "exit"
    BY <1>15, <1>19
  <2>5. ASSUME ~a.alive, ev = <<>>
        PROVE  st.status = "dead" /\ q >= m - 1
    <3>1. DeadOK(st) /\ st.status = "dead"
      BY <1>15, <2>5 DEF HeldOK, DeadOK
    <3>2. N # 0
      BY <1>3, <1>4, <3>1, EmptySeq DEF DeadOK, Closed
    <3>3. ~(k < N)
      BY <1>12, <2>5
    <3>4. ~(q <= d) /\ q - d >= N
      BY <1>7, <3>2, <3>3
    <3>5. QED
      BY <2>2, <3>1, <3>4
  <2>6. QED
    BY <1>15, <2>1, <2>3, <2>4, <2>5 DEF Told
<1>22. QED
  BY <1>10, <1>13, <1>15, <1>16, <1>20, <1>21

LEMMA QuietStays == ASSUME NEW st, LiveOK(st), ~Pushes(st) PROVE Flushed(st).buffer = st.buffer
BY SessionIs, PartsAre, FlushingExists DEF LiveOK, HeldOK, KeptOK, Pushes, Flushing,
   Flushed, SessionState

-----------------------------------------------------------------------------
(* The invariant of the sessions and their calls                            *)

SessionOK(st) ==
    /\ st \in SessionState
    /\ st.status = "new" => st = Unopened
    /\ st.status = "alive" => LiveOK(st)
    /\ st.status = "dead" => DeadOK(st)

CallOK(sessions, call) ==
    /\ call \in Poll
    /\ call.pc = "parked" => /\ call.on \in Sessions /\ sessions[call.on].status = "alive"
                             /\ After(sessions[call.on], call.after) = <<>>
    /\ call.pc = "answered" => Honest(call.answer, call.after)
    /\ call.pc = "answered" /\ call.answer.kind = "ok" =>
          call.on \in Sessions /\ Told(call.answer, call.after, sessions[call.on])

SessionsInv ==
    /\ session = [s \in Sessions |-> session[s]] /\ \A s \in Sessions : SessionOK(session[s])
    /\ poll = [p \in Polls |-> poll[p]] /\ \A p \in Polls : CallOK(session, poll[p])
    /\ shell \in [Sessions -> {"none", "running", "hungup", "gone"}]
    /\ clock \in 0..MaxClock /\ clock \in Nat

LEMMA UnopenedIs == /\ Unopened \in SessionState /\ Unopened.status = "new" /\ Unopened.flush = FALSE
                    /\ Unopened.pending = 0 /\ Unopened.buffer = <<>> /\ Unopened.written = 0
                    /\ Unopened.bytes = 0 /\ Unopened.dropped = 0 /\ Unopened.next = 1
<1>1. PICK who : who = CHOOSE w \in Caller : TRUE
  OBVIOUS
<1>2. who \in Caller
  <2>1. PICK u \in Users, c \in Companies : TRUE
    BY ConstantsAssumption
  <2>2. [user |-> u, company |-> c] \in Caller
    BY DEF Caller
  <2>3. QED
    BY <1>1, <2>2
<1>3. <<>> \in Seq(Event)
  OBVIOUS
<1>4. Unopened = [status |-> "new", owner |-> who, buffer |-> <<>>, bytes |-> 0, dropped |-> 0, next |-> 1,
                  pending |-> 0, flush |-> FALSE, active |-> 0, died |-> 0, written |-> 0]
  BY <1>1 DEF Unopened
<1>5. QED
  BY <1>2, <1>3, <1>4 DEF SessionState

LEMMA NothingIsWhole == ASSUME NEW end PROVE Whole(<<>>, 0, end) /\ Text(<<>>) /\ Weight(<<>>) = 0
<1>1. <<>> \in Seq(Event) /\ Len(<<>>) = 0
  BY EmptySeq
<1>2. PICK f : Totals(<<>>, f)
  BY <1>1, TotalsExist
<1>3. Weight(<<>>) = f[0] /\ f[0] = 0
  BY <1>1, <1>2, WeightIs DEF Totals
<1>4. QED
  BY <1>1, <1>3 DEF Whole, Text

LEMMA CallIs ==
    ASSUME NEW call \in Poll
    PROVE  /\ call.pc \in {"idle", "parked", "answered"} /\ call.on \in Sessions \cup {NoSession}
           /\ call.after \in Nat /\ call.answer \in Answer
BY DEF Poll

LEMMA CallStays ==
    ASSUME NEW sessions, NEW later, NEW call, CallOK(sessions, call),
           \A s \in Sessions : sessions[s].next \in Nat /\ later[s].next \in Nat /\ Later(sessions[s], later[s]),
           call.pc = "parked" => /\ later[call.on].status = "alive"
                                 /\ later[call.on].buffer = sessions[call.on].buffer
    PROVE  CallOK(later, call)
BY SameEvents, CallIs, ToldLater DEF CallOK, Answer

LEMMA AnsweredOK ==
    ASSUME NEW sessions, NEW later, NEW p \in Polls, CallOK(sessions, poll[p]), NEW st, HeldOK(st) \/ DeadOK(st),
           poll[p].on \in Sessions, later[poll[p].on].next \in Nat, Later(st, later[poll[p].on])
    PROVE  CallOK(later, Answered(p, Snapshot(st, poll[p].after)))
<1>1. poll[p] \in Poll /\ poll[p].after \in Nat
  BY CallIs DEF CallOK
<1>2. PICK a : a = Snapshot(st, poll[p].after)
  OBVIOUS
<1>3. a \in Answer /\ Honest(a, poll[p].after) /\ Told(a, poll[p].after, st)
  BY <1>1, <1>2, SnapshotIs
<1>4. a.events \in Seq(Event) /\ st.next \in Nat
  BY <1>3, SessionIs DEF Answer, HeldOK, DeadOK, KeptOK
<1>5. PICK r : r = later[poll[p].on]
  OBVIOUS
<1>6. Told(a, poll[p].after, r)
  BY <1>5, <1>3, <1>4, ToldLater
<1>7. PICK call : call = Answered(p, a)
  OBVIOUS
<1>8. call = [poll[p] EXCEPT !.pc = "answered", !.answer = a]
  BY <1>7 DEF Answered
<1>9. call \in Poll /\ call.pc = "answered" /\ call.answer = a /\ call.after = poll[p].after /\ call.on = poll[p].on
  BY <1>1, <1>3, <1>8 DEF Poll
<1>10. QED
  BY <1>2, <1>3, <1>5, <1>6, <1>7, <1>9 DEF CallOK

-----------------------------------------------------------------------------
(* One lemma per kind of step                                               *)

LEMMA InvFacts ==
    ASSUME SessionsInv
    PROVE  /\ session = [s \in Sessions |-> session[s]] /\ \A s \in Sessions : SessionOK(session[s])
           /\ poll = [p \in Polls |-> poll[p]] /\ \A p \in Polls : CallOK(session, poll[p])
           /\ shell \in [Sessions -> {"none", "running", "hungup", "gone"}]
           /\ clock \in 0..MaxClock /\ clock \in Nat
BY DEF SessionsInv

LEMMA InvKept ==
    ASSUME SessionsInv,
           session' = [s \in Sessions |-> session'[s]], \A s \in Sessions : SessionOK(session'[s]),
           poll' = [p \in Polls |-> poll'[p]], \A p \in Polls : CallOK(session', poll'[p]),
           UNCHANGED shell \/ shell' \in [Sessions -> {"none", "running", "hungup", "gone"}],
           UNCHANGED clock
    PROVE  SessionsInv'
BY DEF SessionsInv

\* A call stays as it is, or is answered while its session is there.
Moves(before, after, later) ==
    \/ after = before
    \/ /\ before.pc = "parked" /\ after.pc = "answered" /\ after.on = before.on /\ after.after = before.after
       /\ later[before.on].status # "forgotten"
\* What every step of the class keeps to, but for a restart.
GoesOn    == \A s \in Sessions : Later(session[s], session'[s])
CallsMove == \A p \in Polls : Moves(poll[p], poll'[p], session')
\* What a step does that takes the call p.
CallMade(p, s, after) ==
    /\ GoesOn
    /\ \A q \in Polls : q # p => Moves(poll[q], poll'[q], session')
    /\ poll'[p].pc # "idle" /\ poll'[p].on = s /\ poll'[p].after = after
    /\ poll'[p].pc = "answered" /\ poll'[p].answer.kind = "ok" => session'[s].status # "forgotten"

LEMMA SessionNumbers == ASSUME NEW st, SessionOK(st) PROVE st.next \in Nat /\ Later(st, st)
BY SessionIs DEF SessionOK, Later

LEMMA AnsweredMoves ==
    ASSUME NEW later, NEW p \in Polls, CallOK(session, poll[p]), poll[p].pc = "parked", NEW a,
           later[poll[p].on].status # "forgotten"
    PROVE  Moves(poll[p], Answered(p, a), later)
BY DEF CallOK, Answered, Poll, Moves

\* A session's status tells what is known of it.
LEMMA StatusIs ==
    ASSUME NEW st, SessionOK(st)
    PROVE  /\ st.status \in {"new", "alive", "dead", "forgotten"} /\ st \in SessionState
           /\ st.status = "alive" <=> LiveOK(st)
           /\ st.status = "dead" <=> DeadOK(st)
           /\ LiveOK(st) => HeldOK(st)
BY SessionIs DEF SessionOK, LiveOK, HeldOK, DeadOK

LEMMA FlushOf ==
    ASSUME NEW st, SessionOK(st), st.status # "new"
    PROVE  LET r == Flushed(st)
           IN  /\ SessionOK(r) /\ r.status = st.status
               /\ ~Pushes(st) => r.buffer = st.buffer
               /\ Later(st, r)
               /\ Pushes(st) => HeldOK(FirstFlushed(st)) /\ Later(FirstFlushed(st), r)
               /\ (st.status \in {"alive", "dead"} => HeldOK(r) \/ DeadOK(r))
<1>1. PICK r : r = Flushed(st)
  OBVIOUS
<1>2. CASE st.status = "alive"
  <2>1. LiveOK(st)
    BY <1>2, StatusIs
  <2>2. HeldOK(r) /\ r.pending = 0 /\ r.flush = FALSE /\ r.next = st.next + Parts(st.pending)
    BY <1>1, <2>1, FlushedIs
  <2>3. LiveOK(r) /\ r \in SessionState /\ r.status = "alive"
    BY <2>2 DEF LiveOK, HeldOK, KeptOK
  <2>4. ~Pushes(st) => r.buffer = st.buffer
    BY <1>1, <2>1, QuietStays
  <2>5. Pushes(st) => HeldOK(FirstFlushed(st))
    BY <2>1, FirstFlushedIs
  <2>6. PICK m \in Nat, n \in Nat : m = st.next /\ n = Parts(st.pending)
    BY <2>1, SessionIs, PartsAre DEF LiveOK, HeldOK, KeptOK
  <2>7. Later(st, r)
    BY <2>2, <2>6, <1>2, <2>3 DEF Later
  <2>8. Pushes(st) => Later(FirstFlushed(st), r)
    BY <2>1, <2>5, <2>6, FirstFlushedIs, <2>2, <2>3 DEF HeldOK, Later
  <2>9. QED
    BY <1>1, <1>2, <2>2, <2>3, <2>4, <2>5, <2>7, <2>8 DEF SessionOK
<1>3. CASE st.status # "alive"
  <2>1. r = [st EXCEPT !.flush = FALSE, !.pending = 0]
    BY <1>1, <1>3 DEF Flushed
  <2>2. st \in SessionState
    BY StatusIs
  <2>3. /\ r \in SessionState /\ r.flush = FALSE /\ r.pending = 0
        /\ r.status = st.status /\ r.owner = st.owner /\ r.buffer = st.buffer /\ r.bytes = st.bytes
        /\ r.dropped = st.dropped /\ r.next = st.next /\ r.written = st.written
    BY <2>1, <2>2 DEF SessionState
  <2>4. ~Pushes(st)
    BY <1>3 DEF Pushes
  <2>5. st.status = "dead" => DeadOK(r)
    <3>1. SUFFICES ASSUME st.status = "dead"
                   PROVE  DeadOK(r)
      OBVIOUS
    <3>2. DeadOK(st)
      BY <3>1, StatusIs
    <3>3. QED
      BY <2>3, <3>2 DEF DeadOK, KeptOK
  <2>6. Later(st, r)
    BY <2>2, SessionIs, <1>3, <2>3 DEF Later
  <2>7. QED
    BY <1>1, <1>3, <2>3, <2>4, <2>5, <2>6 DEF SessionOK
<1>4. QED
  BY <1>2, <1>3

\* The calls after a flush of s, which answers those parked on it when it pushes.
FlushCalls(s) == IF Pushes(session[s]) THEN AnswerParked(s, FirstFlushed(session[s])) ELSE poll

LEMMA FlushAnswers ==
    ASSUME SessionsInv, NEW s \in Sessions, session[s].status # "new",
           session' = [session EXCEPT ![s] = Flushed(session[s])]
    PROVE  /\ session' = [i \in Sessions |-> session'[i]] /\ \A i \in Sessions : SessionOK(session'[i])
           /\ session'[s] = Flushed(session[s]) /\ GoesOn
           /\ \A p \in Polls : Moves(poll[p], FlushCalls(s)[p], session')
           /\ FlushCalls(s) = [p \in Polls |-> FlushCalls(s)[p]] /\ \A p \in Polls : CallOK(session', FlushCalls(s)[p])
<1> DEFINE calls == FlushCalls(s)
<1>1. /\ session = [i \in Sessions |-> session[i]] /\ \A i \in Sessions : SessionOK(session[i])
      /\ poll = [p \in Polls |-> poll[p]] /\ \A p \in Polls : CallOK(session, poll[p])
  BY InvFacts
<1>2. PICK r : r = Flushed(session[s])
  OBVIOUS
<1>3. /\ SessionOK(r) /\ r.status = session[s].status
      /\ ~Pushes(session[s]) => r.buffer = session[s].buffer
      /\ Later(session[s], r)
      /\ Pushes(session[s]) => HeldOK(FirstFlushed(session[s])) /\ Later(FirstFlushed(session[s]), r)
  BY <1>1, <1>2, FlushOf
<1>4. \A i \in Sessions : session'[i] = IF i = s THEN r ELSE session[i]
  BY <1>1, <1>2
<1>5. session' = [i \in Sessions |-> session'[i]]
  BY <1>1
<1>6. \A i \in Sessions : SessionOK(session'[i]) /\ Later(session[i], session'[i])
  BY <1>1, <1>3, <1>4, SessionNumbers
<1> HIDE DEF calls
<1>6a. \A i \in Sessions : session[i].next \in Nat /\ session'[i].next \in Nat /\ Later(session[i], session'[i])
  BY <1>1, <1>6, SessionNumbers
<1>7. ASSUME NEW p \in Polls, calls[p] = poll[p], poll[p].pc = "parked" => poll[p].on # s \/ ~Pushes(session[s])
      PROVE  CallOK(session', calls[p]) /\ Moves(poll[p], calls[p], session')
  <2>1. CallOK(session, poll[p])
    BY <1>1
  <2>2. poll[p].pc = "parked" => /\ session'[poll[p].on].status = "alive"
                                 /\ session'[poll[p].on].buffer = session[poll[p].on].buffer
    BY <2>1, <1>3, <1>4, <1>7 DEF CallOK
  <2>3. CallOK(session', poll[p])
    BY <1>6a, <2>1, <2>2, CallStays
  <2>4. QED
    BY <1>7, <2>3 DEF Moves
<1>8. CASE Pushes(session[s])
  <2>1. calls = [p \in Polls |-> IF p \in Parked(s) THEN Answered(p, Snapshot(FirstFlushed(session[s]), poll[p].after))
                                                    ELSE poll[p]]
    BY <1>8 DEF AnswerParked, FlushCalls, calls
  <2>2. calls = [p \in Polls |-> calls[p]]
    BY <2>1
  <2>3. ASSUME NEW p \in Polls
        PROVE  CallOK(session', calls[p]) /\ Moves(poll[p], calls[p], session')
    <3>1. CASE p \in Parked(s)
      <4>1. calls[p] = Answered(p, Snapshot(FirstFlushed(session[s]), poll[p].after))
        BY <2>1, <3>1
      <4>2. PICK x : x = FirstFlushed(session[s])
        OBVIOUS
      <4>3. HeldOK(x) /\ CallOK(session, poll[p]) /\ Later(x, r) /\ r.next \in Nat
        BY <1>1, <1>3, <1>8, <4>2, SessionNumbers
      <4>4. poll[p].pc = "parked" /\ poll[p].on = s /\ session'[poll[p].on] = r
        BY <1>4, <3>1 DEF Parked
      <4>5. CallOK(session', Answered(p, Snapshot(x, poll[p].after)))
        BY <4>3, <4>4, AnsweredOK
      <4>6. session[s].status = "alive"
        BY <4>3, <4>4 DEF CallOK
      <4>7. Moves(poll[p], Answered(p, Snapshot(x, poll[p].after)), session')
        BY <1>3, <4>3, <4>4, <4>6, AnsweredMoves
      <4>8. QED
        BY <4>1, <4>2, <4>5, <4>7
    <3>2. CASE p \notin Parked(s)
      BY <2>1, <3>2, <1>7 DEF Parked
    <3>3. QED
      BY <3>1, <3>2
  <2>4. QED
    BY <1>2, <1>4, <1>5, <1>6, <2>2, <2>3 DEF calls, GoesOn
<1>9. CASE ~Pushes(session[s])
  BY <1>9, <1>7, <1>1, <1>2, <1>4, <1>5, <1>6 DEF FlushCalls, calls, GoesOn
<1>10. QED
  BY <1>8, <1>9

LEMMA FlushTimerKeeps ==
    ASSUME SessionsInv, NEW s \in Sessions, FlushTimer(s)
    PROVE  SessionsInv' /\ GoesOn /\ CallsMove
BY InvFacts, UnopenedIs, FlushAnswers, InvKept DEF SessionOK, FlushTimer, Flush, FlushCalls,
   CallsMove

\* A flush and then an answer of its own, or a place to wait.
LEMMA FlushThenKeeps ==
    ASSUME SessionsInv, NEW s \in Sessions, session[s].status # "new", NEW p \in Polls, NEW result,
           FlushThen(s, p, result), CallOK(session', result), UNCHANGED <<shell, clock>>
    PROVE  /\ SessionsInv' /\ GoesOn /\ poll'[p] = result
           /\ \A q \in Polls : q # p => Moves(poll[q], poll'[q], session')
BY FlushAnswers, InvKept DEF FlushThen, FlushCalls

LEMMA StillGoesOn == ASSUME SessionsInv, UNCHANGED session PROVE GoesOn
BY InvFacts, SessionNumbers DEF GoesOn

LEMMA NoAnswerIs == NoAnswer \in Answer /\ CallOK(session, NoPoll) /\ CallOK(session', NoPoll)
BY DEF NoAnswer, Answer, NoPoll, Poll, CallOK

LEMMA RefuseKeeps ==
    ASSUME SessionsInv, NEW s \in Sessions, NEW p \in Polls, NEW who, NEW after \in Nat,
           Refusal(s, who) # "none", Refuse(p, s, after, Refusal(s, who)), UNCHANGED <<shell, clock>>
    PROVE  SessionsInv' /\ CallMade(p, s, after)
<1>1. PICK why \in {"not_found", "forbidden"} : why = Refusal(s, who)
  BY DEF Refusal
<1>2. PICK a : a = [NoAnswer EXCEPT !.kind = why]
  OBVIOUS
<1>3. a = [kind |-> why, alive |-> FALSE, events |-> <<>>, truncated |-> FALSE]
  BY <1>2 DEF NoAnswer
<1>4. <<>> \in Seq(Event) /\ Len(<<>>) = 0
  BY EmptySeq
<1>5. a \in Answer /\ a.events = <<>> /\ a.truncated = FALSE
  BY <1>1, <1>3, <1>4 DEF Answer
<1>6. Honest(a, after)
  BY <1>4, <1>5 DEF Honest
<1>7. PICK call : call = [pc |-> "answered", on |-> s, after |-> after, answer |-> a]
  OBVIOUS
<1>8. call \in Poll /\ call.pc = "answered" /\ call.answer = a /\ call.after = after
  BY <1>5, <1>7 DEF Poll
<1>9. CallOK(session, call) /\ call.answer.kind # "ok" /\ call.on = s
  BY <1>3, <1>7, <1>6, <1>8 DEF CallOK
<1>10. poll' = [poll EXCEPT ![p] = call] /\ UNCHANGED session
  BY <1>1, <1>2, <1>7 DEF Refuse
<1>11. /\ session = [i \in Sessions |-> session[i]] /\ \A i \in Sessions : SessionOK(session[i])
       /\ poll = [i \in Polls |-> poll[i]] /\ \A i \in Polls : CallOK(session, poll[i])
  BY InvFacts
<1>12. poll' = [i \in Polls |-> poll'[i]] /\ \A i \in Polls : CallOK(session', poll'[i])
  BY <1>9, <1>10, <1>11
<1>13. SessionsInv'
  BY <1>10, <1>11, <1>12, InvKept
<1>14. \A q \in Polls : poll'[q] = IF q = p THEN call ELSE poll[q]
  BY <1>10, <1>11
<1>15. CallMade(p, s, after)
  BY <1>8, <1>9, <1>10, <1>14, StillGoesOn DEF CallMade, Moves
<1>16. QED
  BY <1>13, <1>15

\* What the caller gets who may see the session.
LEMMA NowIs ==
    ASSUME SessionsInv, NEW s \in Sessions, NEW who, Refusal(s, who) = "none", NEW after \in Nat
    PROVE  /\ session[s].status \in {"alive", "dead"}
           /\ Snapshot(Flushed(session[s]), after) \in Answer
           /\ Honest(Snapshot(Flushed(session[s]), after), after)
           /\ Snapshot(Flushed(session[s]), after).events = After(Flushed(session[s]), after)
           /\ Flushed(session[s]).status = session[s].status
           /\ Told(Snapshot(Flushed(session[s]), after), after, Flushed(session[s]))
BY InvFacts, FlushOf, SnapshotIs DEF Refusal, Known

LEMMA AnswerNowKeeps ==
    ASSUME SessionsInv, NEW s \in Sessions, NEW who, Refusal(s, who) = "none", NEW after \in Nat, NEW p \in Polls,
           FlushThen(s, p, [pc |-> "answered", on |-> s, after |-> after,
                            answer |-> Snapshot(Flushed(session[s]), after)]),
           UNCHANGED <<shell, clock>>
    PROVE  SessionsInv' /\ CallMade(p, s, after)
<1>1. PICK a : a = Snapshot(Flushed(session[s]), after)
  OBVIOUS
<1>2. /\ a \in Answer /\ Honest(a, after) /\ session[s].status \in {"alive", "dead"}
      /\ Told(a, after, Flushed(session[s])) /\ Flushed(session[s]).status = session[s].status
  BY <1>1, NowIs
<1>3. PICK call : call = [pc |-> "answered", on |-> s, after |-> after, answer |-> a]
  OBVIOUS
<1>4. call \in Poll /\ call.pc = "answered" /\ call.answer = a /\ call.after = after /\ call.on = s
  BY <1>2, <1>3 DEF Poll
<1>5. FlushThen(s, p, call)
  BY <1>1, <1>3
<1>6. session'[s] = Flushed(session[s])
  BY <1>5, InvFacts DEF FlushThen
<1>7. CallOK(session', call)
  BY <1>2, <1>4, <1>6 DEF CallOK
<1>8. /\ SessionsInv' /\ GoesOn /\ poll'[p] = call
      /\ \A q \in Polls : q # p => Moves(poll[q], poll'[q], session')
  BY <1>2, <1>5, <1>7, FlushThenKeeps
<1>9. QED
  BY <1>2, <1>4, <1>6, <1>8 DEF CallMade

LEMMA AttachKeeps ==
    ASSUME SessionsInv, NEW s \in Sessions, NEW who, NEW after \in Nat, NEW p \in Polls, Attach(p, s, who, after)
    PROVE  SessionsInv' /\ CallMade(p, s, after)
BY RefuseKeeps, AnswerNowKeeps DEF Attach

LEMMA WaitKeeps ==
    ASSUME SessionsInv, NEW s \in Sessions, NEW who, NEW after \in Nat, NEW p \in Polls, NEW timeout,
           Wait(p, s, who, after, timeout)
    PROVE  SessionsInv' /\ CallMade(p, s, after)
<1>1. UNCHANGED <<shell, clock>>
  BY DEF Wait
<1>2. CASE Refusal(s, who) # "none" /\ Refuse(p, s, after, Refusal(s, who))
  BY <1>1, <1>2, RefuseKeeps
<1>3. CASE /\ Refusal(s, who) = "none"
           /\ FlushThen(s, p, [pc |-> "answered", on |-> s, after |-> after,
                               answer |-> Snapshot(Flushed(session[s]), after)])
  BY <1>1, <1>3, AnswerNowKeeps
<1>4. CASE /\ Refusal(s, who) = "none" /\ Alive(s) /\ Snapshot(Flushed(session[s]), after).events = <<>>
           /\ FlushThen(s, p, [pc |-> "parked", on |-> s, after |-> after, answer |-> NoAnswer])
  <2>1. /\ After(Flushed(session[s]), after) = <<>> /\ Flushed(session[s]).status = "alive"
        /\ session[s].status = "alive"
    BY <1>4, NowIs DEF Alive
  <2>2. session' = [session EXCEPT ![s] = Flushed(session[s])]
    BY <1>4 DEF FlushThen
  <2>3. session'[s] = Flushed(session[s])
    BY <2>2, InvFacts
  <2>4. PICK call : call = [pc |-> "parked", on |-> s, after |-> after, answer |-> NoAnswer]
    OBVIOUS
  <2>5. call \in Poll /\ call.pc = "parked" /\ call.on = s /\ call.after = after
    BY <2>4, NoAnswerIs DEF Poll
  <2>6. CallOK(session', call)
    BY <2>1, <2>3, <2>5 DEF CallOK
  <2>7. FlushThen(s, p, call)
    BY <1>4, <2>4
  <2>8. session[s].status # "new"
    BY <2>1
  <2>9. /\ SessionsInv' /\ GoesOn /\ poll'[p] = call
        /\ \A q \in Polls : q # p => Moves(poll[q], poll'[q], session')
    BY <1>1, <2>6, <2>7, <2>8, FlushThenKeeps
  <2>10. QED
    BY <2>5, <2>9 DEF CallMade
<1>5. QED
  BY <1>2, <1>3, <1>4 DEF Wait

\* The calls after the end of s: everybody parked on it is answered.
EndCalls(s) == AnswerParked(s, IF Pushes(session[s]) THEN FirstFlushed(session[s]) ELSE Ended(session[s]))

LEMMA EndingOf ==
    ASSUME NEW st, SessionOK(st), st.status = "alive", clock \in Nat
    PROVE  LET x == IF Pushes(st) THEN FirstFlushed(st) ELSE Ended(st)
           IN  /\ SessionOK(Ended(st)) /\ Ended(st).status = "dead" /\ (HeldOK(x) \/ DeadOK(x))
               /\ Later(st, Ended(st)) /\ Later(x, Ended(st))
<1>1. LiveOK(st)
  BY StatusIs
<1>2. PICK r : r = Ended(st)
  OBVIOUS
<1>3. DeadOK(r) /\ r.next = st.next + Parts(st.pending) + 1
  BY <1>1, <1>2, EndedIs
<1>4. r.status = "dead" /\ r \in SessionState
  BY <1>3 DEF DeadOK, KeptOK
<1>5. Pushes(st) => HeldOK(FirstFlushed(st))
  BY <1>1, FirstFlushedIs
<1>6. PICK m \in Nat, n \in Nat : m = st.next /\ n = Parts(st.pending)
  BY SessionIs, PartsAre DEF SessionOK
<1>7. r.next = m + n + 1 /\ m < m + n + 1 /\ m <= m + n + 1
  BY <1>3, <1>6
<1>8. Later(st, r)
  BY <1>4, <1>6, <1>7 DEF Later
<1>9. ASSUME Pushes(st)
      PROVE  Later(FirstFlushed(st), r)
  BY <1>1, <1>6, <1>9, FirstFlushedIs, <1>4, <1>7 DEF HeldOK, Later
<1>10. SessionOK(r)
  BY <1>3, <1>4 DEF SessionOK
<1>11. Later(r, r)
  BY <1>10, SessionNumbers
<1>12. QED
  BY <1>2, <1>3, <1>4, <1>5, <1>8, <1>9, <1>10, <1>11

LEMMA EndKeeps ==
    ASSUME SessionsInv, NEW s \in Sessions, session[s].status = "alive", End(s),
           shell' \in [Sessions -> {"none", "running", "hungup", "gone"}], UNCHANGED clock
    PROVE  SessionsInv' /\ GoesOn /\ CallsMove
<1>1. /\ session = [i \in Sessions |-> session[i]] /\ \A i \in Sessions : SessionOK(session[i])
      /\ poll = [p \in Polls |-> poll[p]] /\ (\A p \in Polls : CallOK(session, poll[p])) /\ clock \in Nat
  BY InvFacts
<1>2. PICK r : r = Ended(session[s])
  OBVIOUS
<1>3. PICK x : x = IF Pushes(session[s]) THEN FirstFlushed(session[s]) ELSE Ended(session[s])
  OBVIOUS
<1>4. SessionOK(r) /\ (HeldOK(x) \/ DeadOK(x)) /\ Later(session[s], r) /\ Later(x, r) /\ r.status = "dead"
  BY <1>1, EndingOf, <1>2, <1>3
<1>5. session' = [session EXCEPT ![s] = r] /\ poll' = AnswerParked(s, x)
  BY <1>2, <1>3 DEF End
<1>6. poll' = [p \in Polls |-> IF p \in Parked(s) THEN Answered(p, Snapshot(x, poll[p].after)) ELSE poll[p]]
  BY <1>5 DEF AnswerParked
<1>7. session' = [i \in Sessions |-> session'[i]] /\ \A i \in Sessions : session'[i] = IF i = s THEN r ELSE session[i]
  BY <1>1, <1>5
<1>8. \A i \in Sessions : /\ SessionOK(session'[i]) /\ Later(session[i], session'[i])
                          /\ session[i].next \in Nat /\ session'[i].next \in Nat
  BY <1>1, <1>4, <1>7, SessionNumbers
<1>9. ASSUME NEW p \in Polls
      PROVE  CallOK(session', poll'[p]) /\ Moves(poll[p], poll'[p], session')
  <2>1. CASE p \in Parked(s)
    BY <1>6, <2>1, <1>7, <1>8, <1>1, <1>4, AnsweredOK, AnsweredMoves DEF Parked
  <2>2. CASE p \notin Parked(s)
    BY <1>6, <2>2, <1>1, <1>7, <1>8, CallStays DEF Parked, CallOK, Moves
  <2>3. QED
    BY <2>1, <2>2
<1>10. poll' = [p \in Polls |-> poll'[p]]
  BY <1>6
<1>11. SessionsInv'
  BY <1>7, <1>8, <1>9, <1>10, InvKept
<1>12. QED
  BY <1>8, <1>9, <1>11 DEF GoesOn, CallsMove

LEMMA TerminateKeeps ==
    ASSUME SessionsInv, NEW s \in Sessions, Alive(s), Terminate(s), UNCHANGED clock
    PROVE  SessionsInv' /\ GoesOn /\ CallsMove
BY InvFacts, EndKeeps DEF Terminate, Alive

LEMMA ExitKeeps == ASSUME SessionsInv, NEW s \in Sessions, Exit(s) PROVE SessionsInv' /\ GoesOn /\ CallsMove
BY InvFacts, EndKeeps, InvKept, StillGoesOn DEF Exit, Alive, Untouched, CallsMove, Moves

\* One session changes outside its buffer, and no call.
LEMMA OneChanges ==
    ASSUME SessionsInv, NEW s \in Sessions, NEW r, SessionOK(r),
           session' = [session EXCEPT ![s] = r], UNCHANGED <<poll, clock>>,
           session[s].status = "alive" => r.status = "alive" /\ r.buffer = session[s].buffer,
           Later(session[s], r),
           UNCHANGED shell \/ shell' \in [Sessions -> {"none", "running", "hungup", "gone"}]
    PROVE  SessionsInv' /\ GoesOn /\ CallsMove
<1>1. /\ session = [i \in Sessions |-> session[i]] /\ \A i \in Sessions : SessionOK(session[i])
      /\ poll = [p \in Polls |-> poll[p]] /\ \A p \in Polls : CallOK(session, poll[p])
  BY InvFacts
<1>2. session' = [i \in Sessions |-> session'[i]] /\ \A i \in Sessions : session'[i] = IF i = s THEN r ELSE session[i]
  BY <1>1
<1>3. \A i \in Sessions : /\ SessionOK(session'[i]) /\ Later(session[i], session'[i])
                          /\ session[i].next \in Nat /\ session'[i].next \in Nat
  BY <1>1, <1>2, SessionNumbers
<1>4. ASSUME NEW p \in Polls
      PROVE  CallOK(session', poll[p])
  <2>1. CallOK(session, poll[p])
    BY <1>1
  <2>2. poll[p].pc = "parked" => poll[p].on \in Sessions /\ session[poll[p].on].status = "alive"
    BY <2>1 DEF CallOK
  <2>3. poll[p].pc = "parked" => /\ session'[poll[p].on].status = "alive"
                                 /\ session'[poll[p].on].buffer = session[poll[p].on].buffer
    BY <1>2, <2>2
  <2>4. QED
    BY <1>3, <2>1, <2>3, CallStays
<1>5. SessionsInv'
  BY <1>1, <1>2, <1>3, <1>4, InvKept
<1>6. QED
  BY <1>3, <1>5 DEF GoesOn, CallsMove, Moves

LEMMA OpenKeeps == ASSUME SessionsInv, NEW s \in Sessions, NEW who \in Caller, Open(s, who) PROVE SessionsInv' /\ GoesOn /\ CallsMove
<1>1. SessionOK(session[s]) /\ session[s].status = "new"
  BY InvFacts DEF Open
<1>2. session[s] = Unopened
  BY <1>1 DEF SessionOK
<1>3. PICK r : r = [Unopened EXCEPT !.status = "alive", !.owner = who, !.active = clock]
  OBVIOUS
<1>4. clock \in Nat
  BY InvFacts
<1>5. /\ r \in SessionState /\ r.status = "alive" /\ r.flush = FALSE /\ r.pending = 0 /\ r.buffer = <<>>
      /\ r.written = 0 /\ r.bytes = 0 /\ r.dropped = 0 /\ r.next = 1
  BY <1>3, <1>4, UnopenedIs DEF SessionState
<1>6. LiveOK(r)
  BY EmptySeq, <1>5, NothingIsWhole, ConstantsAssumption DEF LiveOK, HeldOK, KeptOK
<1>7. SessionOK(r)
  BY <1>5, <1>6 DEF SessionOK
<1>8. session' = [session EXCEPT ![s] = r] /\ UNCHANGED <<poll, clock>>
  BY <1>2, <1>3 DEF Open
<1>9. shell' \in [Sessions -> {"none", "running", "hungup", "gone"}]
  BY InvFacts DEF Open
<1>10. session[s].status # "alive" /\ Later(session[s], r)
  BY <1>1, <1>2, <1>5, UnopenedIs DEF Later
<1>11. QED
  BY <1>7, <1>8, <1>9, <1>10, OneChanges

LEMMA InputKeeps == ASSUME SessionsInv, NEW s \in Sessions, NEW who, Input(s, who) PROVE SessionsInv' /\ GoesOn /\ CallsMove
<1>1. SessionOK(session[s]) /\ session[s].status = "alive" /\ clock \in Nat
  BY InvFacts DEF Input, Alive
<1>2. PICK st : st = session[s]
  OBVIOUS
<1>3. LiveOK(st) /\ st \in SessionState
  BY <1>1, <1>2, StatusIs
<1>4. PICK r : r = [st EXCEPT !.active = clock]
  OBVIOUS
<1>5. /\ r \in SessionState /\ r.flush = st.flush
      /\ r.status = st.status /\ r.buffer = st.buffer /\ r.bytes = st.bytes
      /\ r.dropped = st.dropped /\ r.next = st.next /\ r.pending = st.pending /\ r.written = st.written
  BY <1>1, <1>3, <1>4 DEF SessionState
<1>6. LiveOK(r)
  BY <1>3, <1>5 DEF LiveOK, HeldOK, KeptOK
<1>7. SessionOK(r)
  BY <1>1, <1>2, <1>5, <1>6 DEF SessionOK
<1>8. session' = [session EXCEPT ![s] = r] /\ UNCHANGED <<shell, poll, clock>>
  BY <1>2, <1>4 DEF Input
<1>9. Later(session[s], r)
  BY <1>2, <1>3, <1>5, SessionIs DEF Later
<1>10. QED
  BY <1>1, <1>2, <1>5, <1>7, <1>8, <1>9, OneChanges

LEMMA DataKeeps == ASSUME SessionsInv, NEW s \in Sessions, NEW units \in Nat, Data(s, units) PROVE SessionsInv' /\ GoesOn /\ CallsMove
<1>1. SessionOK(session[s])
  BY InvFacts
<1>2. CASE ~Alive(s)
  BY <1>2, InvFacts, InvKept, StillGoesOn DEF Data, CallsMove, Moves
<1>3. CASE Alive(s)
  <2>1. PICK st : st = session[s]
    OBVIOUS
  <2>2. LiveOK(st) /\ st \in SessionState /\ st.status = "alive"
    BY <1>1, <1>3, <2>1, StatusIs DEF Alive
  <2>3. PICK r : r = [st EXCEPT !.pending = st.pending + units, !.flush = TRUE, !.written = st.written + units]
    OBVIOUS
  <2>4. PICK p \in Nat, w \in Nat : p = st.pending /\ w = st.written /\ p <= w
    BY <2>2, SessionIs DEF LiveOK, HeldOK, KeptOK
  <2>5. p + units \in Nat /\ w + units \in Nat /\ p + units <= w + units /\ (w + units) - (p + units) = w - p
    BY <2>4
  <2>6. /\ r \in SessionState /\ r.flush = TRUE
        /\ r.status = st.status /\ r.buffer = st.buffer /\ r.bytes = st.bytes
        /\ r.dropped = st.dropped /\ r.next = st.next /\ r.pending = p + units /\ r.written = w + units
    BY <2>2, <2>3, <2>4, <2>5 DEF SessionState
  <2>7. r.pending <= r.written /\ r.written - r.pending = st.written - st.pending
    BY <2>4, <2>5, <2>6
  <2>8. LiveOK(r)
    BY <2>2, <2>6, <2>7 DEF LiveOK, HeldOK, KeptOK
  <2>9. SessionOK(r)
    BY <2>2, <2>6, <2>8 DEF SessionOK
  <2>10. session' = [session EXCEPT ![s] = r] /\ UNCHANGED <<shell, poll, clock>>
    BY <1>3, <2>1, <2>3 DEF Data, Coalesced
  <2>11. Later(session[s], r)
    BY <2>1, <2>2, <2>6, SessionIs DEF Later
  <2>12. QED
    BY <2>1, <2>2, <2>6, <2>9, <2>10, <2>11, OneChanges
<1>4. QED
  BY <1>2, <1>3

\* A call's own step.
LEMMA CallChanges ==
    ASSUME SessionsInv, NEW p \in Polls, NEW call, CallOK(session, call), poll' = [poll EXCEPT ![p] = call],
           UNCHANGED <<session, shell, clock>>
    PROVE  SessionsInv' /\ GoesOn /\ \A q \in Polls : poll'[q] = IF q = p THEN call ELSE poll[q]
BY InvFacts, InvKept, StillGoesOn

LEMMA WaitTimeoutKeeps == ASSUME SessionsInv, NEW p \in Polls, WaitTimeout(p) PROVE SessionsInv' /\ GoesOn /\ CallsMove
<1>1. CallOK(session, poll[p]) /\ poll[p].pc = "parked"
  BY InvFacts DEF WaitTimeout
<1>2. PICK s \in Sessions : s = poll[p].on /\ session[s].status = "alive"
  BY <1>1 DEF CallOK
<1>3. PICK st : st = session[s]
  OBVIOUS
<1>4. HeldOK(st)
  BY <1>2, <1>3, InvFacts, StatusIs
<1>5. PICK a : a = Snapshot(st, poll[p].after)
  OBVIOUS
<1>6. CallOK(session, Answered(p, a)) /\ Moves(poll[p], Answered(p, a), session)
  BY <1>2, <1>3, InvFacts, SessionNumbers, <1>1, <1>4, <1>5, AnsweredOK, AnsweredMoves
<1>7. poll' = [poll EXCEPT ![p] = Answered(p, a)] /\ UNCHANGED <<session, shell, clock>>
  BY <1>2, <1>3, <1>5 DEF WaitTimeout
<1>8. SessionsInv' /\ GoesOn /\ \A q \in Polls : poll'[q] = IF q = p THEN Answered(p, a) ELSE poll[q]
  BY <1>6, <1>7, CallChanges
<1>9. QED
  BY <1>6, <1>7, <1>8 DEF CallsMove, Moves

LEMMA CollectKeeps ==
    ASSUME SessionsInv, NEW p \in Polls, Collect(p)
    PROVE  SessionsInv' /\ GoesOn /\ UNCHANGED session /\ \A q \in Polls : poll'[q] = IF q = p THEN NoPoll ELSE poll[q]
BY NoAnswerIs, CallChanges DEF Collect

LEMMA ForgottenIs == ASSUME NEW st, SessionOK(st) PROVE SessionOK(Forgotten(st)) /\ Later(st, Forgotten(st))
BY SessionIs, UnopenedIs DEF SessionOK, Forgotten, SessionState, Later

\* A pass of the sweep, or the worker's shutdown.
LEMMA SweptKeeps ==
    ASSUME SessionsInv, NEW idle \in SUBSET Sessions, NEW stale \in SUBSET Sessions,
           \A s \in idle : session[s].status = "alive", \A s \in stale : session[s].status = "dead",
           Swept(idle, stale), shell' \in [Sessions -> {"none", "running", "hungup", "gone"}], UNCHANGED clock
    PROVE  SessionsInv' /\ GoesOn /\ CallsMove
<1>1. /\ session = [i \in Sessions |-> session[i]] /\ \A i \in Sessions : SessionOK(session[i])
      /\ poll = [p \in Polls |-> poll[p]] /\ (\A p \in Polls : CallOK(session, poll[p])) /\ clock \in Nat
  BY InvFacts
<1>2. session' = [s \in Sessions |-> IF s \in idle THEN Ended(session[s])
                                     ELSE IF s \in stale THEN Forgotten(session[s]) ELSE session[s]]
  BY DEF Swept
<1>3. session' = [i \in Sessions |-> session'[i]]
  BY <1>2
<1>4. ASSUME NEW s \in Sessions
      PROVE  SessionOK(session'[s]) /\ Later(session[s], session'[s])
  BY <1>2, <1>1, EndingOf, ForgottenIs, SessionNumbers
<1>5. poll' = [p \in Polls |->
                  LET s == poll[p].on  st == session[s]  after == poll[p].after IN
                  CASE p \in Parked(s) /\ s \in stale -> Answered(p, Snapshot(st, after))
                    [] p \in Parked(s) /\ s \in idle ->
                          Answered(p, Snapshot(IF Pushes(st) THEN FirstFlushed(st) ELSE Ended(st), after))
                    [] OTHER -> poll[p]]
  BY DEF Swept
<1>6. poll' = [p \in Polls |-> poll'[p]]
  BY <1>5
<1>6a. \A s \in Sessions : session[s].next \in Nat /\ session'[s].next \in Nat /\ Later(session[s], session'[s])
  BY <1>1, <1>4, SessionNumbers
<1>7. ASSUME NEW p \in Polls
      PROVE  CallOK(session', poll'[p]) /\ Moves(poll[p], poll'[p], session')
  <2>1. CallOK(session, poll[p])
    BY <1>1
  <2>2. PICK s : s = poll[p].on
    OBVIOUS
  <2>3. poll[p].pc = "parked" => s \in Sessions /\ session[s].status = "alive" /\ s \notin stale
    BY <2>1, <2>2 DEF CallOK
  <2>4. p \in Parked(s) <=> poll[p].pc = "parked"
    BY <2>2 DEF Parked
  <2>5. poll'[p] = CASE p \in Parked(s) /\ s \in stale -> Answered(p, Snapshot(session[s], poll[p].after))
                     [] p \in Parked(s) /\ s \in idle ->
                          Answered(p, Snapshot(IF Pushes(session[s]) THEN FirstFlushed(session[s]) ELSE Ended(session[s]),
                                               poll[p].after))
                     [] OTHER -> poll[p]
    BY <1>5, <2>2
  <2>6. CASE p \in Parked(s) /\ s \in idle
    <3>1. PICK x : x = IF Pushes(session[s]) THEN FirstFlushed(session[s]) ELSE Ended(session[s])
      OBVIOUS
    <3>2. ~(p \in Parked(s) /\ s \in stale)
      BY <2>3, <2>4, <2>6
    <3>3. poll'[p] = Answered(p, Snapshot(x, poll[p].after))
      BY <2>5, <2>6, <3>1, <3>2
    <3>4. (HeldOK(x) \/ DeadOK(x)) /\ Later(x, Ended(session[s])) /\ Ended(session[s]).status = "dead"
      BY <1>1, <2>6, EndingOf, <3>1
    <3>5. session'[s] = Ended(session[s]) /\ s \in Sessions
      BY <1>2, <2>6
    <3>6. /\ poll[p].on \in Sessions /\ session'[poll[p].on].next \in Nat /\ Later(x, session'[poll[p].on])
          /\ session'[poll[p].on].status # "forgotten" /\ poll[p].pc = "parked"
      BY <1>6a, <2>2, <2>4, <2>6, <3>4, <3>5
    <3>7. CallOK(session', Answered(p, Snapshot(x, poll[p].after)))
      BY <2>1, <3>4, <3>6, AnsweredOK
    <3>8. Moves(poll[p], Answered(p, Snapshot(x, poll[p].after)), session')
      BY <2>1, <3>6, AnsweredMoves
    <3>9. QED
      BY <3>3, <3>7, <3>8
  <2>7. CASE ~(p \in Parked(s) /\ s \in idle)
    BY <2>3, <2>4, <2>5, <2>7, <1>2, <2>2, <1>6a, <2>1, CallStays DEF Moves
  <2>8. QED
    BY <2>6, <2>7
<1>8. SessionsInv'
  BY <1>3, <1>4, <1>6, <1>7, InvKept
<1>9. QED
  BY <1>4, <1>7, <1>8 DEF GoesOn, CallsMove

LEMMA SweepKeeps == ASSUME SessionsInv, Sweep PROVE SessionsInv' /\ GoesOn /\ CallsMove
BY InvFacts, SweptKeeps DEF Idle, Stale, Alive, Sweep

LEMMA ShutdownKeeps == ASSUME SessionsInv, Shutdown PROVE SessionsInv'
BY InvFacts, SweptKeeps DEF Alive, Shutdown

LEMMA RestartKeeps == ASSUME SessionsInv, Restart PROVE SessionsInv' /\ GoesOn /\ \A p \in Polls : poll'[p] = NoPoll
BY InvFacts, ForgottenIs, SessionNumbers, NoAnswerIs, InvKept DEF Restart, GoesOn

LEMMA TickKeeps == ASSUME SessionsInv, Tick PROVE SessionsInv' /\ GoesOn /\ CallsMove
BY ConstantsAssumption, InvFacts, StillGoesOn DEF Tick, SessionsInv, CallsMove, Moves

LEMMA SessionsStart == Init => SessionsInv
<1>1. SUFFICES ASSUME Init
               PROVE  SessionsInv
  OBVIOUS
<1>2. \A s \in Sessions : SessionOK(session[s])
  BY <1>1, UnopenedIs DEF Init, SessionOK
<1>3. \A p \in Polls : CallOK(session, poll[p])
  BY <1>1, NoAnswerIs DEF Init
<1>4. QED
  BY <1>1, <1>2, <1>3, ConstantsAssumption DEF Init, SessionsInv

LEMMA RequestsKeep == ASSUME SessionsInv, Requests PROVE SessionsInv'
BY OpenKeeps, InputKeeps, TerminateKeeps, AttachKeeps, WaitKeeps DEF Requests, Close, Kill

LEMMA WorkerKeeps == ASSUME SessionsInv, Worker PROVE SessionsInv'
BY DataKeeps, FlushTimerKeeps, ExitKeeps, WaitTimeoutKeeps, CollectKeeps, SweepKeeps,
   ShutdownKeeps, RestartKeeps, TickKeeps DEF Worker

LEMMA SessionsKeep == ASSUME SessionsInv, [Next]_vars PROVE SessionsInv'
BY RequestsKeep, WorkerKeeps DEF Next, vars, SessionsInv

\* At all times the sessions and the parked calls are as the class keeps them: the numbering,
\* the byte count and the place of the exit hold together with what each call has seen.
THEOREM SessionsInvariance == Spec => []SessionsInv
<1>1. Init => SessionsInv
  BY SessionsStart
<1>2. SessionsInv /\ [Next]_vars => SessionsInv'
  BY SessionsKeep
<1>3. QED
  BY <1>1, <1>2, PTL DEF Spec

-----------------------------------------------------------------------------
(* What the invariant says                                                  *)

LEMMA KnownIs ==
    ASSUME SessionsInv, NEW s \in Sessions, Known(s)
    PROVE  /\ KeptOK(session[s]) /\ session[s].status \in {"alive", "dead"}
           /\ session[s].status = "alive" => LiveOK(session[s])
           /\ session[s].status = "dead" => DeadOK(session[s])
BY InvFacts, StatusIs DEF Known, LiveOK, HeldOK, DeadOK

LEMMA OutputFollows == ASSUME SessionsInv PROVE OutputIsWhole
<1>1. SUFFICES ASSUME NEW s \in Sessions, Known(s)
               PROVE  LET st == session[s]  buf == st.buffer  N == Len(buf) IN
                      /\ st.next = st.dropped + N + 1
                      /\ \A i \in 1..N : buf[i].seq = st.dropped + i
                      /\ \A i \in 1..N : LET end == buf[i].at + (IF buf[i].type = "exit" THEN 0 ELSE buf[i].units)
                                          IN  end = IF i < N THEN buf[i + 1].at ELSE st.written - st.pending
                      /\ st.pending > 0 => Alive(s) /\ st.flush
  BY DEF OutputIsWhole
<1>2. KeptOK(session[s])
  BY <1>1, KnownIs
<1>3. session[s].pending > 0 => Alive(s) /\ session[s].flush
  BY <1>1, KnownIs, SessionIs DEF LiveOK, DeadOK, KeptOK, Alive
<1>4. QED
  BY <1>1, <1>2, <1>3 DEF KeptOK, Whole, Ends

LEMMA ScrollbackFollows == ASSUME SessionsInv PROVE ScrollbackIsBounded
BY KnownIs DEF ScrollbackIsBounded, KeptOK

LEMMA ExitFollows == ASSUME SessionsInv PROVE OneExitAndLast
<1>1. SUFFICES ASSUME NEW s \in Sessions, Known(s), NEW i \in DOMAIN session[s].buffer
               PROVE  session[s].buffer[i].type = "exit" <=> session[s].status = "dead" /\ i = Len(session[s].buffer)
  BY DEF OneExitAndLast
<1>2. PICK st : st = session[s]
  OBVIOUS
<1>3. st \in SessionState /\ st.buffer \in Seq(Event)
  BY <1>1, <1>2, KnownIs, SessionIs DEF KeptOK
<1>4. i \in 1..Len(st.buffer)
  BY <1>1, <1>2, <1>3, BufferIs
<1>5. CASE st.status = "alive"
  BY <1>1, <1>2, <1>4, <1>5, KnownIs DEF LiveOK, HeldOK, Text
<1>6. CASE st.status = "dead"
  BY <1>1, <1>2, <1>4, <1>6, KnownIs DEF DeadOK, Closed
<1>7. QED
  BY <1>1, <1>2, <1>5, <1>6, KnownIs

LEMMA TypesFollow == ASSUME SessionsInv PROVE TypeOK
BY InvFacts, StatusIs DEF TypeOK, CallOK

LEMMA NobodySleeps == ASSUME SessionsInv PROVE NobodySleepsOnNews
BY InvFacts DEF NobodySleepsOnNews, CallOK, Alive

LEMMA AnswersFollow == ASSUME SessionsInv PROVE AnswersAreHonest
BY InvFacts DEF AnswersAreHonest, CallOK, Honest

\* A session's output is numbered without a gap, abuts, and is counted right, and its exit is
\* the last event, told once (push, flushOutput, terminate, onExit).
THEOREM OutputStaysWhole == Spec => [](TypeOK /\ OutputIsWhole /\ ScrollbackIsBounded /\ OneExitAndLast)
<1>1. SessionsInv => TypeOK /\ OutputIsWhole /\ ScrollbackIsBounded /\ OneExitAndLast
  BY TypesFollow, OutputFollows, ScrollbackFollows, ExitFollows
<1>2. QED
  BY <1>1, SessionsInvariance, PTL

\* No parked call sleeps on news, and every answer is the session's state as it was (wait,
\* snapshot, answerWaiters).
THEOREM AnswersStayHonest == Spec => [](NobodySleepsOnNews /\ AnswersAreHonest)
<1>1. SessionsInv => NobodySleepsOnNews /\ AnswersAreHonest
  BY NobodySleeps, AnswersFollow
<1>2. QED
  BY <1>1, SessionsInvariance, PTL
=============================================================================
