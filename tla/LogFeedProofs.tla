--------------------------- MODULE LogFeedProofs ----------------------------
(***************************************************************************)
(* Proofs about LogFeed, for a buffer of any capacity and any numbers of   *)
(* entries and streams.  Every sequence of ids in it is a run of numbers,  *)
(* Ids(a, n); the lemmas say what the operators make of one.               *)
(***************************************************************************)
EXTENDS LogFeed, WellFoundedInduction, TLAPS

-----------------------------------------------------------------------------
(* Runs of ids.                                                            *)

\* a + 1, ..., n.
Ids(a, n) == [k \in 1 .. n - a |-> a + k]

\* What was there before the oldest of n entries that are retained.
Dropped(n) == IF n > Capacity THEN n - Capacity ELSE 0

Window(n) == Ids(Dropped(n), n)

\* Induction: a set of numbers with 0 and every successor has all numbers.
LEMMA AllNaturals ==
  ASSUME NEW T \in SUBSET Nat, 0 \in T, \A n \in T : n + 1 \in T
  PROVE  T = Nat
  <1>1. SUFFICES ASSUME Nat \ T # {} PROVE FALSE
    OBVIOUS
  <1>2. \E x \in Nat \ T : \A y \in Nat \ T : ~ (<<y, x>> \in OpToRel(<, Nat))
    <2>1. Nat \ T \subseteq Nat
      OBVIOUS
    <2> QED BY ONLY <1>1, <2>1, WFMin, NatLessThanWellFounded
  <1>3. PICK x \in Nat \ T : \A y \in Nat \ T : ~(y < x)
    BY <1>2 DEF OpToRel
  <1>4. x # 0
    BY <1>3
  <1>5. x - 1 \in T
    BY <1>3, <1>4
  <1> QED BY <1>3, <1>5

LEMMA IdsFacts ==
  ASSUME NEW a \in Nat, NEW n \in Nat, a <= n
  PROVE  /\ Ids(a, n) \in Seq(Nat) /\ Len(Ids(a, n)) = n - a
         /\ \A k \in 1 .. n - a : Ids(a, n)[k] = a + k
         /\ DOMAIN Ids(a, n) = 1 .. n - a
         /\ ToSet(Ids(a, n)) = a + 1 .. n
  <1>1. Ids(a, n) \in [1 .. n - a -> Nat] /\ n - a \in Nat
    BY DEF Ids
  <1>2. ToSet(Ids(a, n)) = a + 1 .. n
    <2>1. ASSUME NEW x \in a + 1 .. n
          PROVE  x \in ToSet(Ids(a, n))
      <3>1. x - a \in 1 .. n - a /\ Ids(a, n)[x - a] = x
        BY DEF Ids
      <3> QED BY <1>1, <3>1 DEF ToSet
    <2>2. ASSUME NEW x \in ToSet(Ids(a, n))
          PROVE  x \in a + 1 .. n
      BY <1>1 DEF ToSet, Ids
    <2> QED BY <2>1, <2>2
  <1> QED BY <1>1, <1>2 DEF Ids

LEMMA IdsAppend ==
  ASSUME NEW a \in Nat, NEW n \in Nat, a <= n
  PROVE  Append(Ids(a, n), n + 1) = Ids(a, n + 1)
  <1>1. Ids(a, n) \in Seq(Nat) /\ Len(Ids(a, n)) = n - a
    BY IdsFacts
  <1>2. Ids(a, n) = [k \in 1 .. n - a |-> a + k]
    BY DEF Ids
  <1>3. Ids(a, n + 1) = [k \in 1 .. n - a + 1 |-> a + k]
    BY DEF Ids
  <1> HIDE DEF Ids
  <1> QED BY <1>1, <1>2, <1>3

LEMMA ConcatFacts ==
  ASSUME NEW s \in Seq(Nat), NEW t \in Seq(Nat)
  PROVE  /\ s \o t \in Seq(Nat) /\ Len(s \o t) = Len(s) + Len(t)
         /\ \A k \in 1 .. Len(s) : (s \o t)[k] = s[k]
         /\ \A k \in 1 .. Len(s) + Len(t) : k > Len(s) =>
              k - Len(s) \in 1 .. Len(t) /\ (s \o t)[k] = t[k - Len(s)]
  <1> DEFINE c == s \o t
             m == Len(s)
  <1>1. /\ m \in Nat /\ Len(t) \in Nat
        /\ c \in Seq(Nat) /\ Len(c) = m + Len(t)
        /\ \A k \in 1 .. m : c[k] = s[k]
        /\ \A k \in 1 .. m + Len(t) : k > m => k - m \in 1 .. Len(t) /\ c[k] = t[k - m]
    OBVIOUS
  <1> QED BY <1>1

LEMMA IdsConcat ==
  ASSUME NEW a \in Nat, NEW b \in Nat, NEW n \in Nat, a <= b, b <= n
  PROVE  Ids(a, b) \o Ids(b, n) = Ids(a, n)
  <1> DEFINE s == Ids(a, b)
             t == Ids(b, n)
             c == s \o t
  <1>1. s \in Seq(Nat) /\ Len(s) = b - a /\ \A k \in 1 .. b - a : s[k] = a + k
    BY IdsFacts
  <1>2. t \in Seq(Nat) /\ Len(t) = n - b /\ \A k \in 1 .. n - b : t[k] = b + k
    BY IdsFacts
  <1> HIDE DEF s, t
  <1>3. n - a \in Nat /\ n - a = (b - a) + (n - b)
    OBVIOUS
  <1>4. /\ c \in Seq(Nat) /\ Len(c) = n - a
        /\ \A k \in 1 .. b - a : c[k] = s[k]
        /\ \A k \in 1 .. n - a : k > b - a => k - (b - a) \in 1 .. n - b /\ c[k] = t[k - (b - a)]
    <2>1. Len(s) + Len(t) = n - a
      BY <1>1, <1>2, <1>3
    <2>2. /\ c \in Seq(Nat) /\ Len(c) = Len(s) + Len(t)
          /\ \A k \in 1 .. Len(s) : c[k] = s[k]
          /\ \A k \in 1 .. Len(s) + Len(t) : k > Len(s) =>
               k - Len(s) \in 1 .. Len(t) /\ c[k] = t[k - Len(s)]
      BY <1>1, <1>2, ConcatFacts
    <2> HIDE DEF c
    <2> QED BY <1>1, <1>2, <2>1, <2>2
  <1> HIDE DEF c
  <1>5. ASSUME NEW k \in 1 .. n - a
        PROVE  c[k] = a + k
    <2>1. CASE k <= b - a
      BY <1>1, <1>4, <2>1
    <2>2. CASE k > b - a
      BY <1>2, <1>4, <2>2
    <2> QED BY <2>1, <2>2
  <1>6. c = [k \in 1 .. n - a |-> a + k]
    BY <1>4, <1>5
  <1> QED BY <1>6 DEF c, s, t, Ids

\* Of a run whose ids up to b are not in S and whose others are, Among leaves
\* the others.
LEMMA IdsAmong ==
  ASSUME NEW a \in Nat, NEW b \in Nat, NEW n \in Nat, a <= b, b <= n,
         NEW S, \A id \in a + 1 .. n : id \in S <=> id > b
  PROVE  Among(Ids(a, n), S) = Ids(b, n)
  <1> DEFINE s == Ids(a, n)
             len == n - a
             Step(f, k) == IF k = 0 THEN <<>>
                           ELSE IF s[k] \in S THEN Append(f[k - 1], s[k])
                           ELSE f[k - 1]
             Eq(f) == f = [k \in 0 .. len |-> Step(f, k)]
             g == [k \in 0 .. len |-> IF a + k <= b THEN <<>> ELSE Ids(b, a + k)]
             kept == CHOOSE f : Eq(f)
  <1>1. Len(s) = len /\ len \in Nat /\ \A k \in 1 .. len : s[k] = a + k
    BY IdsFacts
  <1>2. \A k \in 0 .. len : g[k] = Step(g, k)
    <2> TAKE k \in 0 .. len
    <2>0. g[k] = IF a + k <= b THEN <<>> ELSE Ids(b, a + k)
      OBVIOUS
    <2>1. CASE k = 0
      BY <2>0, <2>1
    <2>2. CASE k # 0
      <3>1. /\ k \in 1 .. len /\ k - 1 \in 0 .. len /\ a + k \in a + 1 .. n
            /\ a + k \in Nat /\ a + (k - 1) = a + k - 1 /\ a + k - 1 \in Nat
        BY <1>1, <2>2
      <3>2. s[k] = a + k
        BY <1>1, <3>1
      <3>3. g[k - 1] = IF a + k - 1 <= b THEN <<>> ELSE Ids(b, a + k - 1)
        BY <3>1
      <3>4. CASE a + k <= b
        <4>1. s[k] \notin S /\ a + k - 1 <= b
          BY <3>1, <3>2, <3>4
        <4> QED BY <2>0, <2>2, <3>3, <3>4, <4>1
      <3>5. CASE a + k > b
        <4>1. s[k] \in S
          BY <3>1, <3>2, <3>5
        <4>2. Step(g, k) = Append(g[k - 1], a + k)
          BY <2>2, <3>2, <4>1
        <4>3. g[k - 1] = Ids(b, a + k - 1)
          <5>1. CASE a + k - 1 = b
            BY <3>3, <5>1 DEF Ids
          <5>2. CASE a + k - 1 > b
            BY <3>1, <3>3, <5>2
          <5> QED BY <3>1, <3>5, <5>1, <5>2
        <4>4. Append(Ids(b, a + k - 1), (a + k - 1) + 1) = Ids(b, (a + k - 1) + 1)
          <5>1. b <= a + k - 1
            BY <3>1, <3>5
          <5> HIDE DEF s, len, g
          <5> QED BY <3>1, <5>1, IdsAppend
        <4>5. (a + k - 1) + 1 = a + k /\ ~(a + k <= b)
          BY <3>1, <3>5
        <4> QED BY <2>0, <4>2, <4>3, <4>4, <4>5
      <3> QED BY <3>1, <3>4, <3>5
    <2> QED BY <2>1, <2>2
  <1>3. Eq(g)
    <2> HIDE DEF Step
    <2> QED BY <1>2
  <1>4. Eq(kept)
    <2> HIDE DEF Eq, g
    <2> QED BY <1>3
  <1>5. \A k \in 0 .. len : kept[k] = g[k]
    <2> DEFINE T == {k \in Nat : k \in 0 .. len => kept[k] = g[k]}
    <2>1. \A k \in 0 .. len : kept[k] = Step(kept, k)
      <3> HIDE DEF kept, Step
      <3> QED BY <1>4
    <2> HIDE DEF kept, g, s
    <2>2. 0 \in T
      <3>1. 0 \in 0 .. len
        BY <1>1
      <3> QED BY <1>2, <2>1, <3>1
    <2>3. ASSUME NEW k \in T
          PROVE  k + 1 \in T
      <3>1. SUFFICES ASSUME k + 1 \in 0 .. len
                     PROVE  kept[k + 1] = g[k + 1]
        OBVIOUS
      <3>2. k \in 0 .. len /\ kept[k] = g[k] /\ (k + 1) - 1 = k /\ k + 1 # 0
        BY <1>1, <3>1
      <3>3. kept[k + 1] = Step(kept, k + 1) /\ g[k + 1] = Step(g, k + 1)
        BY <1>2, <2>1, <3>1
      <3> QED BY <3>2, <3>3
    <2>4. T = Nat
      <3>1. T \in SUBSET Nat
        OBVIOUS
      <3> HIDE DEF T
      <3> QED BY <2>2, <2>3, <3>1, AllNaturals
    <2>5. \A k \in 0 .. len : k \in T
      BY <1>1, <2>4
    <2> QED BY <2>5
  <1>6. Among(s, S) = kept[len]
    BY <1>1 DEF Among
  <1>7. g[len] = Ids(b, n)
    <2>1. len \in 0 .. len /\ a + len = n
      BY <1>1
    <2>2. g[len] = IF n <= b THEN <<>> ELSE Ids(b, n)
      BY <2>1
    <2>3. CASE n = b
      BY <2>2, <2>3 DEF Ids
    <2>4. CASE n > b
      BY <2>2, <2>4
    <2> QED BY <2>3, <2>4
  <1>8. len \in 0 .. len
    BY <1>1
  <1> HIDE DEF kept, g, s, len
  <1>9. Among(s, S) = Ids(b, n)
    BY <1>5, <1>6, <1>7, <1>8
  <1> QED BY <1>9 DEF s

\* The newest entries of a run that goes back far enough are the window.
LEMMA IdsNewest ==
  ASSUME NEW a \in Nat, NEW n \in Nat, a <= Dropped(n)
  PROVE  Newest(Ids(a, n)) = Window(n)
  <1> USE CapacityAssumption
  <1>1. Dropped(n) \in Nat /\ Dropped(n) <= n /\ a <= n
    BY DEF Dropped
  <1> DEFINE s == Ids(a, n)
  <1>2. /\ s \in Seq(Nat) /\ Len(s) = n - a
        /\ \A k \in 1 .. n - a : s[k] = a + k
    BY <1>1, IdsFacts
  <1> HIDE DEF s
  <1>3. CASE n - a > Capacity
    <2>1. Newest(s) = SubSeq(s, n - a - Capacity + 1, n - a)
      BY <1>2, <1>3 DEF Newest
    <2>2. SubSeq(s, n - a - Capacity + 1, n - a) = [k \in 1 .. Capacity |-> s[n - a - Capacity + k]]
      <3> DEFINE lo == n - a - Capacity + 1
      <3>1. lo \in 1 .. n - a /\ n - a - lo + 1 = Capacity
        BY <1>3
      <3>2. SubSeq(s, lo, n - a) = [k \in 1 .. n - a - lo + 1 |-> s[lo + k - 1]]
        BY <1>2, <3>1
      <3>3. \A k \in 1 .. Capacity : lo + k - 1 = n - a - Capacity + k
        BY <3>1
      <3> QED BY <3>1, <3>2, <3>3
    <2>3. \A k \in 1 .. Capacity : s[n - a - Capacity + k] = n - Capacity + k
      <3> TAKE k \in 1 .. Capacity
      <3>1. n - a - Capacity + k \in 1 .. n - a /\ a + (n - a - Capacity + k) = n - Capacity + k
        BY <1>3
      <3> QED BY <1>2, <3>1
    <2>4. Window(n) = [k \in 1 .. Capacity |-> n - Capacity + k]
      <3>1. Dropped(n) = n - Capacity /\ n - (n - Capacity) = Capacity
        BY <1>3 DEF Dropped
      <3> QED BY <3>1 DEF Window, Ids
    <2> QED BY <2>1, <2>2, <2>3, <2>4 DEF s
  <1>4. CASE ~(n - a > Capacity)
    <2>1. a = Dropped(n)
      BY <1>4 DEF Dropped
    <2> QED BY <1>2, <1>4, <2>1 DEF Newest, Window, s
  <1> QED BY <1>3, <1>4

LEMMA WindowFacts ==
  ASSUME NEW n \in Nat
  PROVE  /\ Dropped(n) \in Nat /\ Dropped(n) <= n /\ n - Dropped(n) <= Capacity
         /\ n > 0 => Dropped(n) < n
         /\ Window(n) \in Seq(Nat) /\ Len(Window(n)) = n - Dropped(n)
         /\ \A k \in 1 .. n - Dropped(n) : Window(n)[k] = Dropped(n) + k
         /\ ToSet(Window(n)) = Dropped(n) + 1 .. n
         /\ n <= MaxEntries => Window(n) \in Retained
  <1>1. /\ Dropped(n) \in Nat /\ Dropped(n) <= n /\ n - Dropped(n) <= Capacity
        /\ n > 0 => Dropped(n) < n
    BY CapacityAssumption DEF Dropped
  <1>2. /\ Window(n) \in Seq(Nat) /\ Len(Window(n)) = n - Dropped(n)
        /\ \A k \in 1 .. n - Dropped(n) : Window(n)[k] = Dropped(n) + k
        /\ ToSet(Window(n)) = Dropped(n) + 1 .. n
    BY <1>1, IdsFacts DEF Window
  <1>3. ASSUME n <= MaxEntries
        PROVE  Window(n) \in Retained
    <2>1. \A k \in 1 .. Len(Window(n)) : Window(n)[k] \in Id
      BY <1>1, <1>2, <1>3, CapacityAssumption DEF Id
    <2> QED BY <1>1, <1>2, <2>1 DEF Retained
  <1> QED BY <1>1, <1>2, <1>3

-----------------------------------------------------------------------------
(* The feed.                                                               *)

Count(latest) == IF latest = None THEN 0 ELSE latest

BufferOK ==
    /\ buffer \in [stream: Stream, nextId: 1 .. MaxEntries + 1, entries: Retained]
    /\ buffer.entries = Window(buffer.nextId - 1)

PageOK ==
    /\ page \in [stream: Stream \cup {None}, latest: Id \cup {None}, entries: Retained,
                 inFlight: BOOLEAN, paused: BOOLEAN]
    /\ page.stream = None => page.latest = None
    /\ page.entries = Window(Count(page.latest))
    /\ page.inFlight = (wire # None)

\* The page keeps its cursor while a poll is under way.
PollOK ==
    wire # None /\ wire.kind = "poll" => /\ wire.stream = page.stream
                                         /\ wire.after = page.latest

\* An answer is the window or what continues the page's, whatever has become
\* of the buffer since.
Whole(answer) ==
    \/ page.stream = None \/ page.latest = None
    \/ answer.reset \/ answer.stream # page.stream

AnswerOK(answer) ==
    LET p == Count(page.latest)
        n == Count(answer.latest)
    IN  IF Whole(answer) THEN answer.entries = Window(n)
        ELSE p <= n /\ answer.entries = Ids(p, n)

FeedInv ==
    /\ BufferOK /\ PageOK
    /\ wire \in Message \cup {None}
    /\ PollOK
    /\ wire # None /\ wire.kind = "answer" => AnswerOK(wire)

LEMMA CountIsId ==
  ASSUME NEW latest \in Id \cup {None}
  PROVE  Count(latest) \in Nat /\ Count(latest) <= MaxEntries
  BY CapacityAssumption DEF Count, Id

LEMMA FeedStart == FeedInit => FeedInv
  <1> SUFFICES ASSUME FeedInit PROVE FeedInv
    OBVIOUS
  <1>1. Window(0) = <<>> /\ Window(0) \in Retained
    <2>1. Dropped(0) = 0
      BY CapacityAssumption DEF Dropped
    <2> QED BY <2>1, WindowFacts, CapacityAssumption DEF Window, Ids
  <1>2. BufferOK
    BY <1>1, CapacityAssumption DEF FeedInit, Empty, BufferOK, Stream
  <1>3. PageOK
    BY <1>1 DEF FeedInit, PageOK, Count
  <1> QED BY <1>2, <1>3 DEF FeedInit, FeedInv, PollOK

\* append drops an entry that the window drops.
LEMMA LogKeeps ==
  ASSUME FeedInv, Log
  PROVE  FeedInv'
  <1> DEFINE n == buffer.nextId - 1
  <1>1. /\ n \in Nat /\ n + 1 <= MaxEntries
        /\ buffer.nextId = n + 1 /\ buffer.nextId + 1 = n + 2
        /\ buffer.entries = Window(n)
    BY CapacityAssumption DEF FeedInv, BufferOK, Log
  <1> HIDE DEF n
  <1>2. buffer' = [buffer EXCEPT !.nextId = n + 2,
                                 !.entries = Newest(Append(Window(n), n + 1))]
    BY <1>1 DEF Log
  <1>3. Newest(Append(Window(n), n + 1)) = Window(n + 1)
    <2>1. /\ Dropped(n) \in Nat /\ Dropped(n) <= n /\ Dropped(n) <= Dropped(n + 1)
          /\ n + 1 \in Nat
      BY <1>1, CapacityAssumption DEF Dropped
    <2>2. Append(Window(n), n + 1) = Ids(Dropped(n), n + 1)
      BY <1>1, <2>1, IdsAppend DEF Window
    <2> QED BY <2>1, <2>2, IdsNewest
  <1>4. Window(n + 1) \in Retained
    BY <1>1, WindowFacts
  <1>5. BufferOK'
    <2>1. n + 2 \in 1 .. MaxEntries + 1 /\ (n + 2) - 1 = n + 1
      BY <1>1, CapacityAssumption
    <2> QED BY <1>2, <1>3, <1>4, <2>1 DEF FeedInv, BufferOK
  <1> QED BY <1>5 DEF FeedInv, Log, PageOK, PollOK, AnswerOK, Whole

\* A new stream has no entries; an answer under way is as good as before.
LEMMA RestartKeeps ==
  ASSUME FeedInv, Restart
  PROVE  FeedInv'
  <1>1. Window(0) = <<>> /\ Window(0) \in Retained
    <2>1. Dropped(0) = 0
      BY CapacityAssumption DEF Dropped
    <2> QED BY <2>1, WindowFacts, CapacityAssumption DEF Window, Ids
  <1>2. BufferOK'
    BY <1>1, CapacityAssumption DEF FeedInv, BufferOK, Restart, Empty, Stream
  <1> QED BY <1>2 DEF FeedInv, Restart, PageOK, PollOK, AnswerOK, Whole

\* What the cursor is compared with.
LEMMA BufferEnds ==
  ASSUME BufferOK
  PROVE  LET n == buffer.nextId - 1
         IN  /\ n \in Nat /\ n <= MaxEntries
             /\ buffer.entries = <<>> <=> n = 0
             /\ n > 0 => /\ Last(buffer.entries) = n
                         /\ Head(buffer.entries) = Dropped(n) + 1
             /\ Latest(buffer) \in Id \cup {None}
             /\ Count(Latest(buffer)) = n
  <1> DEFINE n == buffer.nextId - 1
  <1>1. n \in Nat /\ n <= MaxEntries /\ buffer.entries = Window(n)
    BY CapacityAssumption DEF BufferOK
  <1> HIDE DEF n
  <1>2. /\ Window(n) \in Seq(Nat) /\ Len(Window(n)) = n - Dropped(n)
        /\ \A k \in 1 .. n - Dropped(n) : Window(n)[k] = Dropped(n) + k
        /\ Dropped(n) \in Nat /\ Dropped(n) <= n /\ (n > 0 => Dropped(n) < n)
    BY <1>1, WindowFacts
  <1>3. Window(n) = <<>> <=> n = 0
    BY <1>1, <1>2
  <1>4. ASSUME n > 0
        PROVE  Last(Window(n)) = n /\ Head(Window(n)) = Dropped(n) + 1
    BY <1>1, <1>2, <1>4 DEF Last
  <1>5. Latest(buffer) = IF n = 0 THEN None ELSE n
    BY <1>1, <1>3, <1>4 DEF Latest
  <1>6. Latest(buffer) \in Id \cup {None} /\ Count(Latest(buffer)) = n
    BY <1>1, <1>5, CapacityAssumption DEF Id, Count
  <1> QED BY <1>1, <1>3, <1>4, <1>6 DEF n

LEMMA ServeKeeps ==
  ASSUME FeedInv, Serve
  PROVE  FeedInv'
  <1> DEFINE n == buffer.nextId - 1
             answer == Answer(buffer, wire.stream, wire.after)
             cursor == page.stream # None /\ page.latest # None
  <1>1. /\ n \in Nat /\ n <= MaxEntries /\ buffer.entries = Window(n)
        /\ buffer.entries = <<>> <=> n = 0
        /\ n > 0 => Last(buffer.entries) = n /\ Head(buffer.entries) = Dropped(n) + 1
        /\ Latest(buffer) \in Id \cup {None}
        /\ Count(Latest(buffer)) = n
        /\ buffer.stream \in Stream
    BY BufferEnds DEF FeedInv, BufferOK
  <1>2. wire.stream = page.stream /\ wire.after = page.latest
    BY DEF FeedInv, PollOK, Serve
  <1>3. /\ answer.kind = "answer" /\ answer.stream = buffer.stream
        /\ answer.latest = Latest(buffer)
        /\ answer.reset = (cursor /\ ~Continues(buffer, page.stream, page.latest))
        /\ answer.entries = IF cursor /\ ~answer.reset
                            THEN Among(buffer.entries, {id \in Id : id > page.latest})
                            ELSE buffer.entries
        /\ answer = [kind |-> answer.kind, stream |-> answer.stream, latest |-> answer.latest,
                     reset |-> answer.reset, entries |-> answer.entries]
    BY <1>2 DEF Answer
  <1> HIDE DEF n, answer
  <1>4. /\ Dropped(n) \in Nat /\ Dropped(n) <= n /\ Window(n) \in Retained
    BY <1>1, WindowFacts
  <1>5. ASSUME cursor, ~answer.reset
        PROVE  /\ page.latest \in Nat /\ page.latest <= n
               /\ answer.stream = page.stream
               /\ answer.entries = Ids(page.latest, n)
    <2>1. page.latest \in Id /\ Continues(buffer, page.stream, page.latest)
      BY <1>3, <1>5 DEF FeedInv, PageOK
    <2>2. page.latest \in Nat /\ page.latest > 0
      BY <2>1, CapacityAssumption DEF Id
    <2>3. /\ page.latest <= n /\ Dropped(n) <= page.latest
          /\ page.stream = buffer.stream
      BY <1>1, <1>4, <2>1, <2>2 DEF Continues
    <2>4. \A id \in Dropped(n) + 1 .. n : id \in {i \in Id : i > page.latest} <=> id > page.latest
      BY <1>1, <1>4, CapacityAssumption DEF Id
    <2>5. Among(Window(n), {i \in Id : i > page.latest}) = Ids(page.latest, n)
      BY <1>1, <1>4, <2>2, <2>3, <2>4, IdsAmong DEF Window
    <2> QED BY <1>1, <1>3, <1>5, <2>2, <2>3, <2>5
  <1>6. ASSUME ~(cursor /\ ~answer.reset)
        PROVE  answer.entries = Window(n) /\ Whole(answer)
    BY <1>1, <1>3, <1>6 DEF Whole
  <1>7. answer.entries \in Seq(Id)
    <2>1. CASE cursor /\ ~answer.reset
      <3>1. /\ page.latest \in Nat /\ page.latest <= n /\ answer.entries = Ids(page.latest, n)
        BY <1>5, <2>1
      <3>2. /\ Ids(page.latest, n) \in Seq(Nat) /\ Len(Ids(page.latest, n)) = n - page.latest
            /\ \A k \in 1 .. n - page.latest : Ids(page.latest, n)[k] = page.latest + k
        BY <1>1, <3>1, IdsFacts
      <3>3. \A k \in 1 .. n - page.latest : page.latest + k \in Id
        BY <1>1, <3>1, CapacityAssumption DEF Id
      <3> QED BY <3>1, <3>2, <3>3
    <2>2. CASE ~(cursor /\ ~answer.reset)
      BY <1>4, <1>6, <2>2 DEF Retained
    <2> QED BY <2>1, <2>2
  <1>8. answer \in Message
    BY <1>1, <1>3, <1>7 DEF Message
  <1>9. AnswerOK(answer)
    <2>1. CASE cursor /\ ~answer.reset
      <3>1. Count(page.latest) = page.latest /\ ~Whole(answer)
        BY <1>5, <2>1 DEF Count, Whole
      <3> QED BY <1>1, <1>3, <1>5, <2>1, <3>1 DEF AnswerOK
    <2>2. CASE ~(cursor /\ ~answer.reset)
      BY <1>1, <1>3, <1>6, <2>2 DEF AnswerOK
    <2> QED BY <2>1, <2>2
  <1>10. wire' = answer /\ UNCHANGED <<buffer, page>> /\ wire # None /\ answer # None
    BY <1>8, MessageAssumption DEF Serve, answer
  <1>11. BufferOK' /\ PageOK'
    BY <1>10 DEF FeedInv, BufferOK, PageOK
  <1>12. AnswerOK(wire)'
    BY <1>9, <1>10 DEF AnswerOK, Whole
  <1> QED BY <1>3, <1>8, <1>10, <1>11, <1>12 DEF FeedInv, PollOK

\* The merge, given what the answer holds.
LEMMA ReceiveKeeps ==
  ASSUME FeedInv, Receive
  PROVE  FeedInv'
  <1> DEFINE p == Count(page.latest)
             n == Count(wire.latest)
             reset == wire.reset \/ wire.stream # page.stream
             merged == Merged(wire.entries, reset)
  <1>1. /\ wire.stream \in Stream /\ wire.latest \in Id \cup {None}
        /\ wire.reset \in BOOLEAN
        /\ AnswerOK(wire)
    BY DEF FeedInv, Message, Receive
  <1>2. /\ n \in Nat /\ n <= MaxEntries /\ p \in Nat /\ p <= MaxEntries
    BY <1>1, CountIsId DEF FeedInv, PageOK
  <1>3. /\ page.entries = Window(p)
        /\ Whole(wire) => wire.entries = Window(n)
        /\ ~Whole(wire) => p <= n /\ wire.entries = Ids(p, n)
    BY <1>1 DEF AnswerOK, FeedInv, PageOK
  <1>4. /\ page.stream = None \/ reset => Whole(wire)
        /\ Whole(wire) /\ ~(page.stream = None \/ reset) => p = 0
    BY DEF Whole, Count
  <1>5. merged = Newest(IF page.stream = None \/ reset THEN wire.entries
                        ELSE page.entries \o Among(wire.entries, Id \ ToSet(page.entries)))
    BY DEF Merged
  <1> HIDE DEF p, n, merged
  <1>6. /\ Dropped(n) \in Nat /\ Dropped(n) <= n /\ Window(n) \in Retained
        /\ Dropped(p) \in Nat /\ Dropped(p) <= p /\ ToSet(Window(p)) = Dropped(p) + 1 .. p
    BY <1>2, WindowFacts
  <1>7. merged = Window(n)
    <2>1. CASE page.stream = None \/ reset
      <3>1. merged = Newest(Ids(Dropped(n), n))
        BY <1>3, <1>4, <1>5, <2>1 DEF Window
      <3> QED BY <1>2, <1>6, <3>1, IdsNewest
    <2>2. CASE ~(page.stream = None \/ reset)
      <3> DEFINE a == IF p = 0 THEN Dropped(n) ELSE p
                 S == Id \ ToSet(page.entries)
      <3>1. a \in Nat /\ a <= n /\ wire.entries = Ids(a, n)
        <4>1. CASE Whole(wire)
          BY <1>3, <1>4, <1>6, <2>2, <4>1 DEF Window
        <4>2. CASE ~Whole(wire)
          <5>1. p # 0
            BY <4>2, <1>1 DEF Whole, p, Count, FeedInv, PageOK, Id
          <5> QED BY <1>2, <1>3, <4>2, <5>1
        <4> QED BY <4>1, <4>2
      <3>2. a >= p
        BY <1>2, <1>6
      <3> HIDE DEF a
      <3>3. \A id \in a + 1 .. n : id \in S <=> id > a
        BY <1>2, <1>3, <1>6, <3>1, <3>2, CapacityAssumption DEF Id
      <3> HIDE DEF S
      <3>4. Among(Ids(a, n), S) = Ids(a, n)
        BY <1>2, <3>1, <3>3, IdsAmong
      <3>5. merged = Newest(Window(p) \o Ids(a, n))
        BY <1>3, <1>5, <2>2, <3>1, <3>4 DEF S
      <3>6. CASE p = 0
        <4>1. a = Dropped(n) /\ Window(p) = Ids(a, a)
          BY <1>6, <3>1, <3>6 DEF a, Window, Ids
        <4>2. Ids(a, a) \o Ids(a, n) = Ids(a, n)
          <5>1. a \in Nat /\ n \in Nat /\ a <= a /\ a <= n
            BY <1>2, <3>1
          <5> QED BY ONLY <5>1, IdsConcat
        <4> QED BY <1>2, <3>1, <3>5, <4>1, <4>2, IdsNewest
      <3>7. CASE p # 0
        <4>1. a = p
          BY <3>7 DEF a
        <4>2. Window(p) \o Ids(p, n) = Ids(Dropped(p), n)
          BY <1>2, <1>6, <3>1, <4>1, IdsConcat DEF Window
        <4>3. Dropped(p) <= Dropped(n)
          BY <1>2, <3>1, <4>1, CapacityAssumption DEF Dropped
        <4> QED BY <1>2, <1>6, <3>5, <4>1, <4>2, <4>3, IdsNewest
      <3> QED BY <3>6, <3>7
    <2> QED BY <2>1, <2>2
  <1>8. /\ page' = [page EXCEPT !.entries = Window(n), !.stream = wire.stream,
                                !.latest = wire.latest, !.inFlight = FALSE]
        /\ wire' = None /\ buffer' = buffer
    BY <1>7 DEF Receive, merged
  <1>9. PageOK'
    <2>1. wire.stream # None
      BY <1>1, CapacityAssumption DEF Stream
    <2>2. Count(wire.latest) = n
      BY DEF n
    <2> QED BY <1>1, <1>6, <1>8, <2>1, <2>2 DEF FeedInv, PageOK
  <1>10. BufferOK'
    BY <1>8 DEF FeedInv, BufferOK
  <1> QED BY <1>8, <1>9, <1>10 DEF FeedInv, PollOK

\* The steps that move no entries.
LEMMA OthersKeep ==
  ASSUME FeedInv, Refresh \/ Fail \/ Pause \/ UNCHANGED feedVars
  PROVE  FeedInv'
  <1>1. CASE Refresh
    <2>1. wire' \in Message /\ wire'.kind = "poll" /\ wire' # None
      BY <1>1, MessageAssumption DEF Refresh, FeedInv, PageOK, Message
    <2>2. BufferOK' /\ PageOK'
      BY <1>1, <2>1 DEF Refresh, FeedInv, BufferOK, PageOK
    <2>3. PollOK'
      BY <1>1 DEF Refresh, PollOK, FeedInv, PageOK
    <2> QED BY <2>1, <2>2, <2>3 DEF FeedInv
  <1>2. CASE Fail
    BY <1>2 DEF Fail, FeedInv, BufferOK, PageOK, PollOK
  <1>3. CASE Pause
    <2>1. BufferOK' /\ PageOK' /\ PollOK'
      BY <1>3 DEF Pause, FeedInv, BufferOK, PageOK, PollOK
    <2>2. wire # None /\ wire.kind = "answer" => AnswerOK(wire)'
      BY <1>3 DEF Pause, FeedInv, PageOK, AnswerOK, Whole
    <2> QED BY <1>3, <2>1, <2>2 DEF Pause, FeedInv
  <1>4. CASE UNCHANGED feedVars
    BY <1>4 DEF feedVars, FeedInv, BufferOK, PageOK, PollOK, AnswerOK, Whole
  <1> QED BY <1>1, <1>2, <1>3, <1>4

LEMMA FeedAlways == FeedSpec => []FeedInv
  <1>1. FeedInv /\ [FeedNext]_feedVars => FeedInv'
    BY LogKeeps, RestartKeeps, ServeKeeps, ReceiveKeeps, OthersKeep DEF FeedNext
  <1> QED BY <1>1, FeedStart, PTL DEF FeedSpec

\* Neither the buffer nor the page ever holds more than its capacity, and the
\* page knows whether a poll is under way (devlogs.py:76-116, logs.js:111-149).
THEOREM FeedTyped == FeedSpec => []FeedTypeOK
  <1>1. FeedInv => FeedTypeOK
    BY DEF FeedInv, BufferOK, PageOK, FeedTypeOK
  <1> QED BY <1>1, FeedAlways, PTL

\* Whatever is evicted, restarted, delayed or lost, the page shows the newest
\* entries up to the latest it has heard of (devlogs.py:141-162,
\* logs.js:111-139).
THEOREM PageShowsWindow == FeedSpec => []PageIsWindow
  <1>1. FeedInv => PageIsWindow
    <2> SUFFICES ASSUME FeedInv PROVE PageIsWindow
      OBVIOUS
    <2> DEFINE n == Count(page.latest)
    <2>1. n \in Nat /\ page.entries = Window(n)
      BY CountIsId DEF FeedInv, PageOK
    <2>2. [k \in 1 .. n |-> k] = Ids(0, n)
      BY <2>1 DEF Ids
    <2>3. Newest(Ids(0, n)) = Window(n)
      <3>1. 0 <= Dropped(n)
        BY <2>1, WindowFacts
      <3> HIDE DEF n
      <3> QED BY <2>1, <3>1, IdsNewest
    <2> QED BY <2>1, <2>2, <2>3 DEF PageIsWindow, Count
  <1> QED BY <1>1, FeedAlways, PTL
=============================================================================
