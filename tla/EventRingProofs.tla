--------------------------- MODULE EventRingProofs ---------------------------
(***************************************************************************)
(* EventRing implements EventLog, for every capacity of ring and mailboxes, *)
(* any number of clients and any page limit.                               *)
(*                                                                         *)
(* The ring is the end of the log.  A mailbox, and what is left of a       *)
(* replay, is the list of what belongs to an interval of the log, in       *)
(* order: the interval of a mailbox begins where the handler has got to    *)
(* and ends with the log, or where the subscriber was detached.  Between   *)
(* the position of the client and the beginning of the interval there is   *)
(* nothing that it wants to hear.                                          *)
(***************************************************************************)
EXTENDS EventRing, FiniteSetTheorems, NaturalsInduction, TLAPS

-----------------------------------------------------------------------------
(* The inductive invariant.                                                *)

(* What of the log after lo and up to hi is exported, and what is wanted.  *)
Exported(lo, hi) == {i \in lo+1..hi : log[i] # "hidden"}
Asked(lo, hi) == {i \in lo+1..hi : log[i] = "match"}

(* s lists S in ascending order.                                           *)
Lists(s, S) ==
  /\ \A i, j \in 1..Len(s) : i < j => s[i] < s[j]
  /\ \A i \in 1..Len(s) : s[i] \in S
  /\ \A x \in S : \E i \in 1..Len(s) : s[i] = x

Handler ==
  [pc : {"none", "replay", "send", "live", "detach", "release"}, box : Seq(Nat), drop : BOOLEAN,
   base : Nat, last : Nat, todo : Seq(Nat), lastRev : Nat, notified : Nat]
Rings ==
  [buf : [0..Cap-1 -> Nat], start : 0..Cap-1, n : 0..Cap, overwritten : Nat, closed : BOOLEAN]

RingTypeOK ==
  /\ ring \in Rings
  /\ log \in Seq(Kinds)
  /\ subs \subseteq Streams
  /\ h \in [Streams -> Handler]
  /\ up \in [Streams -> BOOLEAN]
  /\ known \in [Consumers -> Nat \cup {None}]
  /\ msg \in [Consumers -> [ids : SUBSET Nat, reset : BOOLEAN]]
  /\ rev \in Nat

(* The ring holds the last Cap events of the log, or all of them.          *)
RingIsSuffix ==
  /\ ring.n = IF seq < Cap THEN seq ELSE Cap
  /\ ring.n < Cap => ring.start = 0
  /\ \A i \in 1..ring.n : Retained[i] = seq - ring.n + i

(* Nobody knows of events that do not exist, and a pager never has the id  *)
(* of a reset frame.                                                       *)
Informed ==
  /\ \A c \in Consumers : known[c] # None => known[c] <= seq
  /\ \A c \in Pagers : known[c] # 0
  /\ \A c \in Streams : h[c].base <= seq

(* Only REST clients with an id are replayed to.  While its client is      *)
(* connected, a handler knows what the client knows.                       *)
Working == {"replay", "send", "live"}
Resumes(c) == h[c].pc \in {"replay", "send"} => c \in RestClients /\ known[c] # None
Agrees(c) ==
  up[c] /\ h[c].pc \in Working =>
    /\ known[c] = None => h[c].last = 0
    /\ known[c] \notin {None, 0} => h[c].last = known[c]

(* The mailbox lists what was exported after s and up to e.                *)
Boxed(c, s, e) ==
  /\ h[c].base <= s /\ s <= e /\ e <= seq
  /\ c \in subs => e = seq
  /\ Lists(h[c].box, Exported(s, e))
  /\ h[c].pc \in {"replay", "send"} => s = h[c].base
  /\ h[c].pc = "live" /\ up[c] /\ Position(c) # None => Asked(Position(c), s) = {}
MailboxOK(c) == h[c].pc \in Working => \E s, e \in 0..seq : Boxed(c, s, e)

(* The rest of a replay lists what is wanted after s and up to t, where    *)
(* the mailbox had begun by then; s is what the client knows.              *)
Replayed(c, s, t) ==
  /\ h[c].base <= t /\ t <= seq
  /\ Lists(h[c].todo, Asked(s, t))
  /\ up[c] /\ known[c] # 0 => known[c] = s
ReplayOK(c) == h[c].pc = "send" => \E s, t \in 0..seq : Replayed(c, s, t)

StreamOK(c) == Agrees(c) /\ MailboxOK(c) /\ ReplayOK(c)

RingInv ==
  /\ RingTypeOK /\ RingIsSuffix /\ Informed
  /\ \A c \in Streams : Resumes(c)
  /\ \A c \in RestClients : StreamOK(c)

-----------------------------------------------------------------------------
(* Places in order.                                                        *)

Rank(S, i) == Cardinality({j \in S : j < i})

(* The rank of a member of a finite set of integers grows with it and is   *)
(* below the number of members; every such number is a rank.               *)
LEMMA Ranks ==
  ASSUME NEW S \in SUBSET Int, IsFiniteSet(S)
  PROVE  /\ Cardinality(S) \in Nat
         /\ \A i \in S : Rank(S, i) \in 0..Cardinality(S) - 1
         /\ \A i, j \in S : i < j => Rank(S, i) < Rank(S, j)
         /\ \A k \in 0..Cardinality(S) - 1 : \E i \in S : Rank(S, i) = k
  <1> DEFINE f == [i \in S |-> Rank(S, i)]
  <1> DEFINE T == 0..Cardinality(S) - 1
  <1>1. Cardinality(S) \in Nat
    BY FS_CardinalityType
  <1>2. ASSUME NEW i \in S
        PROVE  Rank(S, i) \in 0..Cardinality(S) - 1
    <2> DEFINE B == {j \in S : j < i}
    <2>1. B \in SUBSET S /\ i \notin B
      OBVIOUS
    <2>2. IsFiniteSet(B) /\ Cardinality(B) <= Cardinality(S) /\ Cardinality(S) # Cardinality(B)
      BY <2>1, FS_Subset
    <2>3. Cardinality(B) \in Nat
      BY <2>2, FS_CardinalityType
    <2>4. QED  BY <1>1, <2>2, <2>3 DEF Rank
  <1>3. ASSUME NEW i \in S, NEW j \in S, i < j
        PROVE  Rank(S, i) < Rank(S, j)
    <2> DEFINE B == {k \in S : k < i}
    <2> DEFINE C == {k \in S : k < j}
    <2>1. IsFiniteSet(C) /\ Cardinality(C) \in Nat
      BY FS_Subset, FS_CardinalityType
    <2>2. B \in SUBSET C /\ i \in C /\ i \notin B
      <3>1. i \in Int /\ j \in Int /\ ~(i < i)
        OBVIOUS
      <3>2. ASSUME NEW k \in S, k < i
            PROVE  k < j
        <4>1. k \in Int
          OBVIOUS
        <4>2. QED  BY <1>3, <3>1, <3>2, <4>1
      <3>3. QED  BY <1>3, <3>1, <3>2
    <2>3. IsFiniteSet(B) /\ Cardinality(B) <= Cardinality(C) /\ Cardinality(C) # Cardinality(B)
      BY <2>1, <2>2, FS_Subset
    <2>4. Cardinality(B) \in Nat
      BY <2>3, FS_CardinalityType
    <2>5. QED  BY <2>1, <2>3, <2>4 DEF Rank
  <1>4. f \in Injection(S, T)
    <2>1. f \in [S -> T]
      BY <1>2
    <2>2. ASSUME NEW i \in S, NEW j \in S, f[i] = f[j]
          PROVE  i = j
      <3>1. Rank(S, i) = Rank(S, j) /\ Rank(S, i) \in Int
        BY <1>2, <2>2
      <3>2. ~(i < j) /\ ~(j < i)
        BY <1>3, <3>1
      <3>3. QED  BY <3>2
    <2>3. QED  BY <2>1, <2>2 DEF Injection, IsInjective
  <1>5. IsFiniteSet(T) /\ Cardinality(T) = Cardinality(S)
    BY <1>1, FS_Interval
  <1>6. f \in Surjection(S, T)
    <2> HIDE DEF f, T
    <2>1. QED  BY <1>4, <1>5, FS_Injection
  <1>7. ASSUME NEW k \in T
        PROVE  \E i \in S : Rank(S, i) = k
    BY <1>6 DEF Surjection
  <1>8. QED  BY <1>1, <1>2, <1>3, <1>7

(* So the k-th place is what it is called.                                 *)
LEMMA NthIs ==
  ASSUME NEW S \in SUBSET Int, IsFiniteSet(S)
  PROVE  /\ \A k \in 1..Cardinality(S) : Nth(S, k) \in S /\ Rank(S, Nth(S, k)) = k - 1
         /\ \A k, l \in 1..Cardinality(S) : k < l => Nth(S, k) < Nth(S, l)
         /\ \A i \in S : Rank(S, i) + 1 \in 1..Cardinality(S) /\ Nth(S, Rank(S, i) + 1) = i
  <1>1. ASSUME NEW k \in 1..Cardinality(S)
        PROVE  Nth(S, k) \in S /\ Rank(S, Nth(S, k)) = k - 1
    <2>1. k - 1 \in 0..Cardinality(S) - 1
      BY Ranks
    <2>2. \E i \in S : Rank(S, i) = k - 1
      BY <2>1, Ranks
    <2>3. QED  BY <2>2 DEF Nth, Rank
  <1>2. ASSUME NEW k \in 1..Cardinality(S), NEW l \in 1..Cardinality(S), k < l
        PROVE  Nth(S, k) < Nth(S, l)
    <2>1. Nth(S, k) \in S /\ Nth(S, l) \in S /\ Rank(S, Nth(S, k)) = k - 1 /\ Rank(S, Nth(S, l)) = l - 1
      BY <1>1
    <2> DEFINE x == Nth(S, k)
    <2> DEFINE y == Nth(S, l)
    <2> HIDE DEF x, y
    <2>2. x \in S /\ y \in S /\ Rank(S, x) = k - 1 /\ Rank(S, y) = l - 1
      BY <2>1 DEF x, y
    <2>3. x \in Int /\ y \in Int
      BY <2>2
    <2>4. ~(y < x)
      BY <2>2, <1>2, Ranks
    <2>5. y # x
      BY <2>2, <1>2
    <2>6. x < y
      BY <2>3, <2>4, <2>5
    <2>7. QED  BY <2>6 DEF x, y
  <1>3. ASSUME NEW i \in S
        PROVE  Rank(S, i) + 1 \in 1..Cardinality(S) /\ Nth(S, Rank(S, i) + 1) = i
    <2>1. Rank(S, i) \in 0..Cardinality(S) - 1 /\ Cardinality(S) \in Nat
      BY Ranks
    <2>2. Rank(S, i) + 1 \in 1..Cardinality(S)
      BY <2>1
    <2> DEFINE j == Nth(S, Rank(S, i) + 1)
    <2>3. j \in S /\ Rank(S, j) = Rank(S, i)
      BY <1>1, <2>1, <2>2
    <2> HIDE DEF j
    <2>4. ~(i < j)
      BY <2>1, <2>3, Ranks
    <2>5. ~(j < i)
      BY <2>1, <2>3, Ranks
    <2>6. i \in Int /\ j \in Int
      BY <2>3
    <2>7. i = j
      BY <2>4, <2>5, <2>6
    <2>8. QED  BY <2>2, <2>7 DEF j
  <1>4. QED  BY <1>1, <1>2, <1>3

(* The remainder of an index that is less than twice the capacity.         *)
LEMMA Wraps ==
  ASSUME NEW n \in Nat \ {0}, NEW a \in 0..n + n - 1
  PROVE  a % n = IF a < n THEN a ELSE a - n
  OBVIOUS

(* Places of a full buffer, read from a start: what was written at the     *)
(* start is read last from the next place on.                              *)
At(n, a) == a % n
LEMMA Rotated ==
  ASSUME NEW n \in Nat \ {0}, NEW st \in 0..n-1, NEW buf \in [0..n-1 -> Nat], NEW q \in Nat,
         \A i \in 1..n : buf[At(n, st + i - 1)] = q - n + i
  PROVE  \A i \in 1..n : [buf EXCEPT ![st] = q + 1][At(n, At(n, st + 1) + i - 1)] = q + 1 - n + i
  <1>1. \A a \in 0..n + n - 1 : At(n, a) = IF a < n THEN a ELSE a - n
    BY Wraps DEF At
  <1> DEFINE nx == At(n, st + 1)
  <1>2. nx \in 0..n-1 /\ nx = IF st + 1 < n THEN st + 1 ELSE 0
    BY <1>1
  <1> HIDE DEF nx
  <1>3. ASSUME NEW i \in 1..n
        PROVE  [buf EXCEPT ![st] = q + 1][At(n, nx + i - 1)] = q + 1 - n + i
    <2>1. PICK a \in 0..n + n - 1 : a = nx + i - 1
      BY <1>2
    <2> DEFINE b == At(n, nx + i - 1)
    <2>2. b = IF a < n THEN a ELSE a - n
      BY <1>1, <2>1
    <2> HIDE DEF b
    <2>3. CASE i = n
      <3>1. b = st
        BY <1>2, <2>1, <2>2, <2>3
      <3>2. [buf EXCEPT ![st] = q + 1][b] = q + 1
        BY <3>1
      <3>3. QED  BY <2>3, <3>2 DEF b
    <2>4. CASE i # n
      <3>1. i + 1 \in 1..n /\ st + (i + 1) - 1 \in 0..n + n - 1
        BY <2>4
      <3>2. At(n, st + (i + 1) - 1)
              = IF st + (i + 1) - 1 < n THEN st + (i + 1) - 1 ELSE st + (i + 1) - 1 - n
        BY <1>1, <3>1
      <3>3. b = At(n, st + (i + 1) - 1) /\ b # st /\ b \in 0..n-1
        BY <1>2, <2>1, <2>2, <2>4, <3>1, <3>2
      <3>4. buf[b] = q - n + (i + 1)
        BY <3>1, <3>3
      <3>5. [buf EXCEPT ![st] = q + 1][b] = buf[b]
        BY <3>3
      <3>6. QED  BY <3>4, <3>5 DEF b
    <2>5. QED  BY <2>3, <2>4
  <1>4. QED  BY <1>3 DEF nx

(* A buffer with room is filled from its first place on.                   *)
LEMMA Filled ==
  ASSUME NEW n \in Nat \ {0}, NEW buf \in [0..n-1 -> Nat], NEW q \in 0..n-1,
         \A i \in 1..q : buf[At(n, 0 + i - 1)] = i
  PROVE  /\ At(n, 0 + q) = q
         /\ \A i \in 1..q + 1 : [buf EXCEPT ![q] = q + 1][At(n, 0 + i - 1)] = i
  <1>1. ASSUME NEW a \in 0..n-1
        PROVE  At(n, a) = a
    <2>1. a \in 0..n + n - 1 /\ a < n
      OBVIOUS
    <2>2. QED  BY <2>1, Wraps DEF At
  <1>2. \A i \in 1..q + 1 : 0 + i - 1 \in 0..n-1 /\ At(n, 0 + i - 1) = i - 1
    BY <1>1
  <1>3. \A i \in 1..q : buf[i - 1] = i
    BY <1>2
  <1>4. ASSUME NEW i \in 1..q + 1
        PROVE  [buf EXCEPT ![q] = q + 1][i - 1] = i
    BY <1>3
  <1>5. QED  BY <1>1, <1>2, <1>4

-----------------------------------------------------------------------------
(* Lists.                                                                  *)

(* The head of a list is its least member, and the tail lists the rest.    *)
LEMMA ListTail ==
  ASSUME NEW s \in Seq(Nat), NEW S, Lists(s, S), s # <<>>
  PROVE  /\ Head(s) \in Nat /\ Tail(s) \in Seq(Nat)
         /\ Head(s) \in S
         /\ \A x \in S : Head(s) <= x
         /\ Lists(Tail(s), S \ {Head(s)})
  <1>1. Len(s) \in Nat \ {0} /\ Head(s) = s[1] /\ s[1] \in Nat /\ Tail(s) \in Seq(Nat)
        /\ Len(Tail(s)) = Len(s) - 1 /\ \A i \in 1..Len(s) - 1 : Tail(s)[i] = s[i + 1]
    OBVIOUS
  <1>2. \A i \in 1..Len(s) : s[i] \in Nat
    OBVIOUS
  <1>3. Head(s) \in S
    BY <1>1 DEF Lists
  <1>4. ASSUME NEW x \in S
        PROVE  Head(s) <= x
    <2>1. PICK i \in 1..Len(s) : s[i] = x
      BY DEF Lists
    <2>2. CASE i = 1
      BY <1>1, <2>1, <2>2
    <2>3. CASE i # 1
      <3>1. s[1] < s[i]
        BY <1>1, <2>3 DEF Lists
      <3>2. QED  BY <1>1, <1>2, <2>1, <3>1
    <2>4. QED  BY <2>2, <2>3
  <1>5. Lists(Tail(s), S \ {Head(s)})
    <2> DEFINE t == Tail(s)
    <2> DEFINE y == Head(s)
    <2>1. Len(t) = Len(s) - 1 /\ (\A i \in 1..Len(t) : t[i] = s[i + 1] /\ i + 1 \in 1..Len(s)) /\ y = s[1]
      BY <1>1
    <2> HIDE DEF t, y
    <2>2. \A i, j \in 1..Len(t) : i < j => t[i] < t[j]
      BY <1>1, <2>1 DEF Lists
    <2>3. ASSUME NEW i \in 1..Len(t)
          PROVE  t[i] \in S \ {y}
      <3>1. t[i] = s[i + 1] /\ s[i + 1] \in S /\ s[1] < s[i + 1]
        BY <1>1, <2>1 DEF Lists
      <3>2. s[1] \in Nat /\ s[i + 1] \in Nat
        BY <1>2, <1>1, <2>1
      <3>3. QED  BY <2>1, <3>1, <3>2
    <2>4. ASSUME NEW x \in S \ {y}
          PROVE  \E i \in 1..Len(t) : t[i] = x
      <3>1. PICK i \in 1..Len(s) : s[i] = x
        BY DEF Lists
      <3>2. i # 1
        BY <2>1, <3>1
      <3>3. i - 1 \in 1..Len(t) /\ t[i - 1] = s[(i - 1) + 1]
        BY <1>1, <2>1, <3>2
      <3>4. (i - 1) + 1 = i
        OBVIOUS
      <3>5. QED  BY <3>1, <3>3, <3>4
    <2>5. Lists(t, S \ {y})
      BY <2>2, <2>3, <2>4 DEF Lists
    <2>6. QED  BY <2>5 DEF t, y
  <1>6. QED  BY <1>1, <1>3, <1>4, <1>5

(* Something greater goes to the end of a list.                            *)
LEMMA ListAppend ==
  ASSUME NEW s \in Seq(Nat), NEW S, Lists(s, S), NEW y \in Nat, \A x \in S : x < y
  PROVE  Append(s, y) \in Seq(Nat) /\ Lists(Append(s, y), S \cup {y})
  <1> DEFINE t == Append(s, y)
  <1>1. t \in Seq(Nat) /\ Len(t) = Len(s) + 1 /\ Len(s) \in Nat /\ t[Len(s) + 1] = y
        /\ \A i \in 1..Len(s) : t[i] = s[i]
    OBVIOUS
  <1> HIDE DEF t
  <1>2. \A i \in 1..Len(t) : i \in 1..Len(s) \/ i = Len(s) + 1
    BY <1>1
  <1>3. ASSUME NEW i \in 1..Len(t), NEW j \in 1..Len(t), i < j
        PROVE  t[i] < t[j]
    <2>1. i \in 1..Len(s) /\ t[i] = s[i] /\ s[i] \in S
      BY <1>1, <1>3 DEF Lists
    <2>2. CASE j = Len(s) + 1
      BY <1>1, <2>1, <2>2
    <2>3. CASE j \in 1..Len(s)
      BY <1>1, <1>3, <2>1, <2>3 DEF Lists
    <2>4. QED  BY <1>2, <2>2, <2>3
  <1>4. \A i \in 1..Len(t) : t[i] \in S \cup {y}
    BY <1>1, <1>2 DEF Lists
  <1>5. ASSUME NEW x \in S \cup {y}
        PROVE  \E i \in 1..Len(t) : t[i] = x
    <2>1. CASE x = y
      <3>1. Len(s) + 1 \in 1..Len(t)
        BY <1>1
      <3>2. QED  BY <1>1, <2>1, <3>1
    <2>2. CASE x \in S
      <3>1. PICK i \in 1..Len(s) : s[i] = x
        BY <2>2 DEF Lists
      <3>2. i \in 1..Len(t) /\ t[i] = x
        BY <1>1, <3>1
      <3>3. QED  BY <3>2
    <2>3. QED  BY <2>1, <2>2
  <1>6. Lists(t, S \cup {y})
    BY <1>3, <1>4, <1>5 DEF Lists
  <1>7. QED  BY <1>1, <1>6 DEF t

(* An empty list lists nothing.                                            *)
LEMMA ListEmpty ==
  ASSUME NEW s \in Seq(Nat), s = <<>>, NEW S
  PROVE  Lists(s, S) <=> S = {}
  <1>1. Len(s) = 0 /\ 1..Len(s) = {}
    OBVIOUS
  <1>2. QED  BY <1>1 DEF Lists

-----------------------------------------------------------------------------
(* Reading the ring.                                                       *)

(* Where in the log a page after this id begins.                           *)
From(after) == IF after < seq - ring.n THEN seq - ring.n ELSE after

(* The page holds, in order, everything that is wanted after its beginning *)
(* and up to its last event, and says whether there is more.               *)
PageOf(page, after) ==
  /\ page.items \in Seq(Nat)
  /\ page.reset = (after > 0 /\ after < seq - ring.n)
  /\ page.items = <<>> => Asked(From(after), seq) = {} /\ page.more = FALSE
  /\ page.items # <<>> => /\ page.next \in Asked(From(after), seq)
                          /\ Lists(page.items, Asked(From(after), page.next))
                          /\ page.more = (Asked(page.next, seq) # {})

LEMMA RingFacts ==
  ASSUME RingTypeOK, RingIsSuffix
  PROVE  /\ seq \in Nat /\ ring.n \in Nat /\ ring.n <= seq /\ ring.n <= Cap /\ Cap \in Nat \ {0}
         /\ seq > 0 => ring.n > 0
         /\ \A i \in 1..ring.n : Retained[i] = seq - ring.n + i
  <1>1. Cap \in Nat \ {0}
    BY RingAssumption
  <1>2. seq \in Nat
    BY DEF RingTypeOK, seq
  <1>3. ring.n = IF seq < Cap THEN seq ELSE Cap
    BY DEF RingIsSuffix
  <1>4. QED  BY <1>1, <1>2, <1>3 DEF RingIsSuffix

(* The places that match are those of the wanted events.                   *)
LEMMA MatchingIs ==
  ASSUME RingTypeOK, RingIsSuffix, NEW after \in Nat
  PROVE  /\ Matching(after) \in SUBSET (1..ring.n)
         /\ \A i \in 1..ring.n : i \in Matching(after) <=> seq - ring.n + i \in Asked(From(after), seq)
         /\ \A x \in Asked(From(after), seq) :
              x \in Nat /\ x - (seq - ring.n) \in 1..ring.n /\ x - (seq - ring.n) \in Matching(after)
  <1> DEFINE d == seq - ring.n
  <1>1. seq \in Nat /\ ring.n \in Nat /\ ring.n <= seq /\ \A i \in 1..ring.n : Retained[i] = d + i
    BY RingFacts
  <1>2. d \in Nat /\ d + ring.n = seq
    BY <1>1
  <1>3. From(after) \in Nat /\ From(after) >= d /\ From(after) >= after
        /\ \A x \in Int : x > From(after) <=> x > d /\ x > after
    BY <1>1 DEF From
  <1>4. ASSUME NEW i \in 1..ring.n
        PROVE  i \in Matching(after) <=> d + i \in Asked(From(after), seq)
    <2>1. Retained[i] = d + i /\ d + i \in Int /\ d + i > d /\ d + i <= seq
      BY <1>1, <1>2
    <2>2. i \in Matching(after) <=> d + i > after /\ log[d + i] = "match"
      BY <2>1 DEF Matching
    <2>3. d + i \in From(after)+1..seq <=> d + i > after
      BY <1>1, <1>2, <1>3, <2>1
    <2>4. QED  BY <2>2, <2>3 DEF Asked
  <1>5. ASSUME NEW x \in Asked(From(after), seq)
        PROVE  x \in Nat /\ x - d \in 1..ring.n /\ x - d \in Matching(after)
    <2>1. x \in From(after)+1..seq
      BY DEF Asked
    <2>2. x \in Nat /\ x > d /\ x <= seq
      BY <1>1, <1>2, <1>3, <2>1
    <2>3. x - d \in 1..ring.n /\ d + (x - d) = x
      BY <1>1, <1>2, <2>2
    <2>4. QED  BY <1>4, <2>2, <2>3
  <1>6. QED  BY <1>4, <1>5 DEF Matching

LEMMA PageFacts ==
  ASSUME RingTypeOK, RingIsSuffix, NEW after \in Nat, NEW limit \in Nat \ {0}
  PROVE  /\ PageOf(readLocked(after, limit), after)
         /\ ring.n <= limit => Lists(readLocked(after, limit).items, Asked(From(after), seq))
  <1> DEFINE d == seq - ring.n
  <1> DEFINE m == Matching(after)
  <1> DEFINE S == Asked(From(after), seq)
  <1> DEFINE n == IF Cardinality(m) < limit THEN Cardinality(m) ELSE limit
  <1> DEFINE items == [k \in 1..n |-> Retained[Nth(m, k)]]
  <1> DEFINE next == IF n = 0 THEN after ELSE items[n]
  <1>1. seq \in Nat /\ ring.n \in Nat /\ ring.n <= seq /\ (seq > 0 => ring.n > 0) /\ d \in Nat
        /\ \A i \in 1..ring.n : Retained[i] = d + i
    BY RingFacts
  <1>2. m \in SUBSET (1..ring.n) /\ (\A i \in 1..ring.n : i \in m <=> d + i \in S)
        /\ \A x \in S : x \in Nat /\ x - d \in m
    BY MatchingIs
  <1>3. m \in SUBSET Int /\ IsFiniteSet(m) /\ Cardinality(m) \in Nat /\ Cardinality(m) <= ring.n
    <2>1. IsFiniteSet(1..ring.n) /\ Cardinality(1..ring.n) = ring.n
      BY <1>1, FS_Interval
    <2>2. QED  BY <1>2, <2>1, FS_Subset, FS_CardinalityType
  <1>4. n \in Nat /\ n <= Cardinality(m) /\ (m # {} => n > 0) /\ (m = {} => n = 0)
        /\ (ring.n <= limit => n = Cardinality(m))
    <2>1. Cardinality(m) = 0 <=> m = {}
      BY <1>3, FS_EmptySet
    <2>2. QED  BY <1>1, <1>3, <2>1
  <1> HIDE DEF m, S, n
  <1>5. /\ \A k \in 1..n : Nth(m, k) \in m /\ Rank(m, Nth(m, k)) = k - 1
        /\ \A k, l \in 1..n : k < l => Nth(m, k) < Nth(m, l)
        /\ \A i \in m : Rank(m, i) + 1 \in 1..Cardinality(m) /\ Nth(m, Rank(m, i) + 1) = i
    BY <1>3, <1>4, NthIs
  <1>6. \A k \in 1..n : items[k] = d + Nth(m, k) /\ items[k] \in S /\ items[k] \in Nat /\ Nth(m, k) \in 1..ring.n
    BY <1>1, <1>2, <1>5
  <1>7. items \in Seq(Nat) /\ Len(items) = n /\ (items = <<>> <=> n = 0)
    <2>1. items \in [1..n -> Nat]
      BY <1>6
    <2> HIDE DEF items
    <2>2. items \in Seq(Nat) /\ Len(items) = n
      BY <1>4, <2>1
    <2>3. QED  BY <1>4, <2>2
  <1> HIDE DEF items
  <1>8. \A k, l \in 1..n : k < l => items[k] < items[l]
    <2> SUFFICES ASSUME NEW k \in 1..n, NEW l \in 1..n, k < l
                 PROVE  items[k] < items[l]
      OBVIOUS
    <2>1. Nth(m, k) < Nth(m, l) /\ Nth(m, k) \in Int /\ Nth(m, l) \in Int
      BY <1>5, <1>6
    <2>2. QED  BY <1>1, <1>6, <2>1
  (* Whatever is wanted is an item, if it is not beyond the last one.      *)
  <1>9. ASSUME NEW x \in S, n = Cardinality(m) \/ (n > 0 /\ x <= items[n])
        PROVE  \E k \in 1..n : items[k] = x
    <2> DEFINE k == Rank(m, x - d) + 1
    <2>1. x \in Nat /\ x - d \in m /\ k \in 1..Cardinality(m) /\ Nth(m, k) = x - d
      BY <1>2, <1>5
    <2> HIDE DEF k
    <2>2. k <= n
      <3>1. CASE n = Cardinality(m)
        BY <1>3, <2>1, <3>1
      <3>2. CASE n > 0 /\ x <= items[n]
        <4>1. ASSUME n < k
              PROVE  FALSE
          <5>1. n \in 1..Cardinality(m) /\ n \in 1..n
            BY <1>3, <1>4, <3>2
          <5>2. Nth(m, n) < Nth(m, k)
            BY <1>3, <2>1, <4>1, <5>1, NthIs
          <5>3. items[n] = d + Nth(m, n) /\ Nth(m, n) \in Int
            BY <1>6, <5>1
          <5>4. QED  BY <1>1, <2>1, <3>2, <5>2, <5>3
        <4>2. QED  BY <1>3, <1>4, <2>1, <4>1
      <3>3. QED  BY <1>9, <3>1, <3>2
    <2>3. k \in 1..n
      BY <1>3, <1>4, <2>1, <2>2
    <2>4. items[k] = x
      BY <1>1, <1>6, <2>1, <2>3
    <2>5. QED  BY <2>3, <2>4
  <1>10. n = Cardinality(m) => Lists(items, S)
    BY <1>6, <1>7, <1>8, <1>9 DEF Lists
  <1>11. n = 0 => S = {}
    BY <1>2, <1>4
  <1>12. ASSUME n > 0
         PROVE  /\ next = items[n] /\ next \in S
                /\ Lists(items, Asked(From(after), next))
    <2>1. n \in 1..n /\ next = items[n] /\ next \in S /\ next \in Nat
      BY <1>4, <1>6, <1>12
    <2> HIDE DEF next
    <2>2. From(after) \in Nat
      BY <1>1 DEF From
    <2>3. \A x : x \in Asked(From(after), next) <=> x \in S /\ x <= next
      BY <1>1, <2>1, <2>2 DEF Asked, S
    <2>4. \A k \in 1..n : items[k] \in Asked(From(after), next)
      <3> SUFFICES ASSUME NEW k \in 1..n
                   PROVE  items[k] <= next
        BY <1>6, <2>3
      <3>1. k = n \/ k < n
        BY <1>4
      <3>2. QED  BY <1>6, <1>8, <2>1, <3>1
    <2>5. \A x \in Asked(From(after), next) : \E k \in 1..n : items[k] = x
      BY <1>9, <1>12, <2>1, <2>3
    <2>6. QED  BY <1>7, <1>8, <2>1, <2>4, <2>5 DEF Lists
  <1>13. next \in Nat /\ (n > 0 => next > after /\ next > d)
    <2>1. CASE n = 0
      BY <2>1
    <2>2. CASE n # 0
      <3>1. next \in S
        BY <1>4, <1>12, <2>2
      <3>2. From(after) \in Nat /\ From(after) >= after /\ From(after) >= d
        BY <1>1 DEF From
      <3> HIDE DEF next
      <3>3. QED  BY <1>1, <3>1, <3>2 DEF S, Asked
    <2>3. QED  BY <2>1, <2>2
  <1> HIDE DEF next
  <1>14. readLocked(after, limit).items = items /\ readLocked(after, limit).next = next
         /\ readLocked(after, limit).reset = Evicted(after)
         /\ readLocked(after, limit).more = (Matching(next) # {})
    BY DEF readLocked, items, next, n, m
  <1>15. Evicted(after) = (after > 0 /\ after < d)
    <2>1. CASE ring.n = 0
      <3>1. seq = 0 /\ d = 0
        BY <1>1, <2>1
      <3>2. QED  BY <2>1, <3>1 DEF Evicted
    <2>2. CASE ring.n > 0
      <3>1. Retained[1] = d + 1
        BY <1>1, <2>2
      <3>2. QED  BY <1>1, <2>2, <3>1 DEF Evicted
    <2>3. QED  BY <1>1, <2>1, <2>2
  <1>16. (Matching(next) # {}) = (Asked(From(next), seq) # {})
    BY <1>13, MatchingIs
  <1>17. n = 0 => next = after
    BY DEF next
  <1>18. n > 0 => From(next) = next
    BY <1>1, <1>13 DEF From
  <1> DEFINE page == readLocked(after, limit)
  <1> HIDE DEF page
  <1>19. /\ page.items = items /\ page.next = next
         /\ page.reset = (after > 0 /\ after < d)
         /\ page.more = (Asked(From(next), seq) # {})
    BY <1>14, <1>15, <1>16 DEF page
  <1>20. PageOf(page, after)
    <2>1. page.items \in Seq(Nat) /\ (page.items = <<>> <=> n = 0)
      BY <1>7, <1>19
    <2>2. n = 0 => Asked(From(after), seq) = {} /\ page.more = FALSE
      BY <1>11, <1>17, <1>19 DEF S
    <2>3. n # 0 => /\ page.next \in Asked(From(after), seq)
                   /\ Lists(page.items, Asked(From(after), page.next))
                   /\ page.more = (Asked(page.next, seq) # {})
      BY <1>4, <1>12, <1>18, <1>19 DEF S
    <2>4. QED  BY <1>19, <2>1, <2>2, <2>3 DEF PageOf
  <1>21. ring.n <= limit => Lists(page.items, S)
    BY <1>4, <1>10, <1>19
  <1>22. QED  BY <1>20, <1>21 DEF page, S

-----------------------------------------------------------------------------
(* Types.                                                                  *)

LEMMA Kept ==
  ASSUME RingTypeOK
  PROVE  /\ seq \in Nat
         /\ \A c \in Streams : h[c] \in Handler
         /\ \A c \in RestClients : c \in Streams /\ c \in Consumers /\ c \notin McpClients /\ c \notin Pagers
         /\ \A c \in Pagers : c \in Consumers /\ c \notin Streams
         /\ None \notin Nat
  BY RingAssumption DEF RingTypeOK, seq, Streams, Consumers

LEMMA StoredType ==
  ASSUME RingTypeOK, NEW id \in Nat
  PROVE  /\ Stored(id) \in Rings
         /\ Stored(id).closed = ring.closed
         /\ Stored(id).n = IF ring.n = Cap THEN Cap ELSE ring.n + 1
         /\ Stored(id).start = IF ring.n = Cap THEN (ring.start + 1) % Cap ELSE ring.start
         /\ Stored(id).buf = IF ring.n = Cap THEN [ring.buf EXCEPT ![ring.start] = id]
                             ELSE [ring.buf EXCEPT ![(ring.start + ring.n) % Cap] = id]
  <1>1. Cap \in Nat \ {0}
    BY RingAssumption
  <1>2. ring \in Rings
    BY DEF RingTypeOK
  <1>3. ring.n \in 0..Cap /\ ring.start \in 0..Cap-1 /\ ring.buf \in [0..Cap-1 -> Nat] /\ ring.overwritten \in Nat
        /\ ring.closed \in BOOLEAN
    BY <1>2 DEF Rings
  <1>4. (ring.start + 1) % Cap \in 0..Cap-1
    BY <1>1, <1>3
  <1>5. CASE ring.n = Cap
    <2>1. Stored(id) = [buf |-> [ring.buf EXCEPT ![ring.start] = id], start |-> (ring.start + 1) % Cap,
                        n |-> ring.n, overwritten |-> ring.overwritten + 1, closed |-> ring.closed]
      BY <1>2, <1>5 DEF Stored, Rings
    <2>2. [ring.buf EXCEPT ![ring.start] = id] \in [0..Cap-1 -> Nat]
      BY <1>3
    <2>3. QED  BY <1>1, <1>2, <1>3, <1>4, <1>5, <2>1, <2>2 DEF Rings
  <1>6. CASE ring.n # Cap
    <2>1. Stored(id) = [ring EXCEPT !.buf = [ring.buf EXCEPT ![(ring.start + ring.n) % Cap] = id],
                                    !.n = ring.n + 1]
      BY <1>6 DEF Stored
    <2>2. [ring.buf EXCEPT ![(ring.start + ring.n) % Cap] = id] \in [0..Cap-1 -> Nat]
      BY <1>3
    <2>3. ring.n + 1 \in 0..Cap
      BY <1>1, <1>3, <1>6
    <2>4. QED  BY <1>1, <1>2, <1>3, <1>6, <2>1, <2>2, <2>3 DEF Rings
  <1>7. QED  BY <1>5, <1>6

(* The event that is stored comes after the others, and the oldest one     *)
(* gives way when there is no room.                                        *)
LEMMA StoredIsSuffix ==
  ASSUME RingTypeOK, RingIsSuffix, NEW k, log' = Append(log, k), ring' = Stored(seq + 1)
  PROVE  RingIsSuffix'
  <1>1. Cap \in Nat \ {0} /\ seq \in Nat /\ seq' = seq + 1
    BY RingAssumption DEF RingTypeOK, seq
  <1>2. ring.n \in 0..Cap /\ ring.start \in 0..Cap-1 /\ ring.buf \in [0..Cap-1 -> Nat]
    BY DEF RingTypeOK, Rings
  <1>3. /\ ring'.n = IF ring.n = Cap THEN Cap ELSE ring.n + 1
        /\ ring'.start = IF ring.n = Cap THEN (ring.start + 1) % Cap ELSE ring.start
        /\ ring'.buf = IF ring.n = Cap THEN [ring.buf EXCEPT ![ring.start] = seq + 1]
                       ELSE [ring.buf EXCEPT ![(ring.start + ring.n) % Cap] = seq + 1]
    BY <1>1, StoredType
  <1>4. ring.n = (IF seq < Cap THEN seq ELSE Cap) /\ (ring.n < Cap => ring.start = 0)
    BY DEF RingIsSuffix
  <1>5. \A i \in 1..ring.n : ring.buf[(ring.start + i - 1) % Cap] = seq - ring.n + i
    BY DEF RingIsSuffix, Retained
  <1>6. CASE ring.n = Cap
    <2>1. PICK st \in 0..Cap-1, buf \in [0..Cap-1 -> Nat] : st = ring.start /\ buf = ring.buf
      BY <1>2
    <2>2. \A i \in 1..Cap : buf[At(Cap, st + i - 1)] = seq - Cap + i
      BY <1>5, <1>6, <2>1 DEF At
    <2>3. \A i \in 1..Cap : [buf EXCEPT ![st] = seq + 1][At(Cap, At(Cap, st + 1) + i - 1)] = seq + 1 - Cap + i
      BY <1>1, <2>2, Rotated
    <2>4. ring'.n = Cap /\ ring'.start = At(Cap, st + 1) /\ ring'.buf = [buf EXCEPT ![st] = seq + 1]
      BY <1>3, <1>6, <2>1 DEF At
    <2>5. \A i \in 1..ring'.n : Retained'[i] = seq' - ring'.n + i
      <3>1. \A i \in 1..Cap : ring'.buf[At(Cap, ring'.start + i - 1)] = seq + 1 - Cap + i
        BY <2>3, <2>4
      <3>2. Retained' = [i \in 1..Cap |-> ring'.buf[At(Cap, ring'.start + i - 1)]]
        BY <2>4 DEF Retained, At
      <3>3. ASSUME NEW i \in 1..Cap
            PROVE  Retained'[i] = seq + 1 - Cap + i
        BY <3>1, <3>2
      <3>4. seq' - ring'.n = seq + 1 - Cap /\ 1..ring'.n = 1..Cap
        BY <1>1, <2>4
      <3>5. ASSUME NEW i \in 1..ring'.n
            PROVE  Retained'[i] = seq' - ring'.n + i
        BY <3>3, <3>4, <3>5
      <3>6. QED  BY <3>5
    <2>6. seq >= Cap /\ ring'.n = IF seq' < Cap THEN seq' ELSE Cap
      BY <1>1, <1>4, <1>6, <2>4
    <2>7. ~(ring'.n < Cap)
      BY <1>1, <2>4
    <2>8. QED  BY <2>5, <2>6, <2>7 DEF RingIsSuffix
  <1>7. CASE ring.n # Cap
    <2>1. ring.start = 0 /\ ring.n = seq /\ seq \in 0..Cap-1
      BY <1>1, <1>2, <1>4, <1>7
    <2>2. PICK buf \in [0..Cap-1 -> Nat] : buf = ring.buf
      BY <1>2
    <2>3. \A i \in 1..seq : buf[At(Cap, 0 + i - 1)] = i
      <3>1. \A i \in 1..seq : buf[At(Cap, 0 + i - 1)] = seq - seq + i
        BY <1>5, <2>1, <2>2 DEF At
      <3>2. QED  BY <1>1, <3>1
    <2>4. At(Cap, 0 + seq) = seq /\ \A i \in 1..seq + 1 : [buf EXCEPT ![seq] = seq + 1][At(Cap, 0 + i - 1)] = i
      <3>1. PICK q \in 0..Cap-1 : q = seq
        BY <2>1
      <3>2. \A i \in 1..q : buf[At(Cap, 0 + i - 1)] = i
        BY <2>3, <3>1
      <3>3. At(Cap, 0 + q) = q /\ \A i \in 1..q + 1 : [buf EXCEPT ![q] = q + 1][At(Cap, 0 + i - 1)] = i
        BY <1>1, <3>2, Filled
      <3>4. QED  BY <3>1, <3>3
    <2>5. ring'.n = seq + 1 /\ ring'.start = 0 /\ ring'.buf = [buf EXCEPT ![seq] = seq + 1]
      BY <1>3, <1>7, <2>1, <2>2, <2>4 DEF At
    <2>6. \A i \in 1..ring'.n : Retained'[i] = seq' - ring'.n + i
      <3>1. \A i \in 1..seq + 1 : ring'.buf[At(Cap, ring'.start + i - 1)] = i
        BY <2>4, <2>5
      <3>2. \A i \in 1..seq + 1 : (seq + 1) - (seq + 1) + i = i
        BY <1>1
      <3>3. QED  BY <1>1, <2>5, <3>1, <3>2 DEF Retained, At
    <2>7. ring'.n = IF seq' < Cap THEN seq' ELSE Cap
      BY <1>1, <2>1, <2>5
    <2>8. QED  BY <2>5, <2>6, <2>7 DEF RingIsSuffix
  <1>8. QED  BY <1>6, <1>7

-----------------------------------------------------------------------------
(* The log grows.                                                          *)

LEMMA LogGrows ==
  ASSUME log \in Seq(Kinds), NEW k \in Kinds, log' = Append(log, k), NEW lo \in Nat
  PROVE  /\ seq \in Nat /\ seq' = seq + 1 /\ log' \in Seq(Kinds)
         /\ \A hi \in 0..seq : Exported(lo, hi)' = Exported(lo, hi) /\ Asked(lo, hi)' = Asked(lo, hi)
         /\ \A hi \in 0..seq + 1 : lo <= seq /\ hi = seq + 1 =>
              Exported(lo, hi)' = Exported(lo, seq) \cup (IF k = "hidden" THEN {} ELSE {hi})
  <1>1. /\ seq \in Nat /\ seq' = seq + 1 /\ log' \in Seq(Kinds)
        /\ \A i \in 1..seq : log'[i] = log[i]
        /\ log'[seq + 1] = k
    BY DEF seq
  <1>2. ASSUME NEW hi \in 0..seq
        PROVE  Exported(lo, hi)' = Exported(lo, hi) /\ Asked(lo, hi)' = Asked(lo, hi)
    <2>0. \A i \in lo+1..hi : i \in 1..seq
      BY <1>1
    <2>1. \A i \in lo+1..hi : i \in 1..seq /\ log'[i] = log[i]
      BY <1>1, <2>0, Zenon
    <2>2. QED  BY <2>1 DEF Exported, Asked
  <1>3. ASSUME NEW hi \in 0..seq + 1, lo <= seq, hi = seq + 1
        PROVE  Exported(lo, hi)' = Exported(lo, seq) \cup (IF k = "hidden" THEN {} ELSE {hi})
    <2>1. \A i : i \in lo+1..hi <=> i \in lo+1..seq \/ i = hi
      BY <1>1, <1>3
    <2>0. \A i \in lo+1..seq : i \in 1..seq /\ i # hi
      BY <1>1, <1>3
    <2>2. \A i \in lo+1..seq : i \in 1..seq /\ log'[i] = log[i] /\ i # hi
      BY <1>1, <2>0, Zenon
    <2>3. log'[hi] = k
      BY <1>1, <1>3
    <2>4. Exported(lo, hi)' = {i \in lo+1..hi : log'[i] # "hidden"}
      BY DEF Exported
    <2>5. Exported(lo, seq) = {i \in lo+1..seq : log[i] # "hidden"}
      BY DEF Exported
    <2>6. CASE k = "hidden"
      BY <2>1, <2>2, <2>3, <2>4, <2>5, <2>6
    <2>7. CASE k # "hidden"
      BY <2>1, <2>2, <2>3, <2>4, <2>5, <2>7
    <2>8. QED  BY <2>6, <2>7
  <1>4. QED  BY <1>1, <1>2, <1>3

(* An event is put into the log, the ring and the mailboxes.               *)
Grows(k) ==
  /\ log' = Append(log, k)
  /\ ring' = Stored(seq + 1)
  /\ IF k = "hidden" THEN UNCHANGED <<subs, h>> ELSE fanoutLocked(seq + 1)
  /\ UNCHANGED <<up, known, msg>>
  /\ rev' \in Nat

(* What that does to a stream: its mailbox gets the event, or it is        *)
(* detached; nothing else of it changes.                                   *)
Fanned(c, k) ==
  /\ h'[c] \in Handler
  /\ h'[c].pc = h[c].pc /\ h'[c].base = h[c].base /\ h'[c].last = h[c].last /\ h'[c].todo = h[c].todo
  /\ c \in subs' => c \in subs
  /\ k = "hidden" \/ c \notin subs' => h'[c].box = h[c].box
  /\ k # "hidden" /\ c \in subs' => h'[c].box = Append(h[c].box, seq + 1)

LEMMA FanOut ==
  ASSUME RingTypeOK, NEW k \in Kinds, Grows(k)
  PROVE  /\ h' \in [Streams -> Handler] /\ subs' \subseteq Streams
         /\ \A c \in Streams : Fanned(c, k)
  <1>1. seq \in Nat /\ h \in [Streams -> Handler] /\ subs \subseteq Streams
    BY Kept DEF RingTypeOK
  <1>2. CASE k = "hidden"
    <2>1. h' = h /\ subs' = subs
      BY <1>2 DEF Grows
    <2>2. QED  BY <1>1, <1>2, <2>1 DEF Fanned
  <1>3. CASE k # "hidden"
    <2>1. fanoutLocked(seq + 1)
      BY <1>3 DEF Grows
    <2>2. subs' = {c \in subs : HasSpace(c)}
      BY <2>1 DEF fanoutLocked
    <2>3. ASSUME NEW c \in Streams
          PROVE  Fanned(c, k)
      <3>1. h[c] \in Handler
        BY <1>1
      <3>2. h[c].box \in Seq(Nat) /\ Append(h[c].box, seq + 1) \in Seq(Nat)
        BY <1>1, <3>1 DEF Handler
      <3>3. CASE c \in subs /\ HasSpace(c)
        <4>1. h'[c] = [h[c] EXCEPT !.box = Append(h[c].box, seq + 1)]
          BY <2>1, <3>3 DEF fanoutLocked
        <4>2. QED  BY <1>3, <2>2, <3>1, <3>2, <3>3, <4>1 DEF Fanned, Handler
      <3>4. CASE c \in subs /\ ~HasSpace(c)
        <4>1. h'[c] = [h[c] EXCEPT !.drop = TRUE]
          BY <2>1, <3>4 DEF fanoutLocked
        <4>2. QED  BY <1>3, <2>2, <3>1, <3>4, <4>1 DEF Fanned, Handler
      <3>5. CASE c \notin subs
        <4>1. h'[c] = h[c]
          BY <2>1, <3>5 DEF fanoutLocked
        <4>2. QED  BY <1>3, <2>2, <3>1, <3>5, <4>1 DEF Fanned
      <3>6. QED  BY <3>3, <3>4, <3>5
    <2>4. h' = [c \in Streams |-> h'[c]]
      BY <2>1 DEF fanoutLocked
    <2>5. \A c \in Streams : h'[c] \in Handler
      BY <2>3 DEF Fanned
    <2>6. QED  BY <1>1, <2>2, <2>3, <2>4, <2>5
  <1>4. QED  BY <1>2, <1>3

(* Where a client is, is a place of the log.                               *)
LEMMA Positions ==
  ASSUME RingTypeOK, Informed, NEW c \in Consumers
  PROVE  /\ Position(c) # None => Position(c) \in 0..seq /\ known[c] # 0
         /\ known[c] = 0 => Position(c) = None
         /\ known[c] \notin {0, None} => Position(c) = known[c]
         /\ known[c] = None => Position(c) = IF c \in RestClients /\ h[c].pc # "none" /\ up[c]
                                             THEN h[c].base ELSE None
  <1>1. seq \in Nat /\ None \notin Nat /\ known[c] \in Nat \cup {None}
    BY Kept DEF RingTypeOK
  <1>2. known[c] # None => known[c] \in 0..seq
    BY <1>1 DEF Informed
  <1>3. c \in RestClients => h[c].base \in 0..seq /\ h[c].base # None
    BY <1>1, Kept DEF Informed, Handler
  <1>4. 0 # None
    BY <1>1
  <1>5. CASE known[c] = 0
    BY <1>4, <1>5 DEF Position
  <1>6. CASE known[c] = None
    BY <1>1, <1>3, <1>4, <1>6 DEF Position
  <1>7. CASE known[c] \notin {0, None}
    BY <1>1, <1>2, <1>7 DEF Position
  <1>8. QED  BY <1>5, <1>6, <1>7

(* A stream that gets the event, or is detached, is as it should be.       *)
LEMMA GrownStream ==
  ASSUME RingInv, NEW k \in Kinds, Grows(k), NEW c \in RestClients
  PROVE  StreamOK(c)'
  <1>1. RingTypeOK /\ Informed /\ StreamOK(c) /\ log \in Seq(Kinds) /\ log' = Append(log, k)
    BY DEF RingInv, RingTypeOK, Grows
  <1>2. c \in Streams /\ c \in Consumers
    BY <1>1, Kept
  <1>3. Fanned(c, k)
    BY <1>1, <1>2, FanOut
  <1>4. h'[c].pc = h[c].pc /\ h'[c].base = h[c].base /\ h'[c].last = h[c].last /\ h'[c].todo = h[c].todo
    BY <1>3 DEF Fanned
  <1>5. up' = up /\ known' = known /\ (c \in subs' => c \in subs)
    BY <1>3 DEF Grows, Fanned
  <1>6. Position(c)' = Position(c)
    BY <1>4, <1>5 DEF Position
  <1>7. seq \in Nat /\ seq' = seq + 1
    BY <1>1, LogGrows
  <1>8. \A lo \in Nat, hi \in 0..seq : Exported(lo, hi)' = Exported(lo, hi) /\ Asked(lo, hi)' = Asked(lo, hi)
    BY <1>1, LogGrows
  <1>9. h[c].base \in Nat /\ h[c].box \in Seq(Nat) /\ (Position(c) # None => Position(c) \in Nat)
        /\ (known[c] # None => known[c] \in Nat)
    BY <1>1, <1>2, Kept, Positions DEF Handler, RingTypeOK
  <1>10. Agrees(c)'
    BY <1>1, <1>4, <1>5 DEF StreamOK, Agrees
  <1>11. ReplayOK(c)'
    <2> SUFFICES ASSUME h[c].pc = "send"
                 PROVE  \E s, t \in 0..seq' : Replayed(c, s, t)'
      BY <1>4 DEF ReplayOK
    <2>1. PICK s \in 0..seq, t \in 0..seq : Replayed(c, s, t)
      BY <1>1 DEF StreamOK, ReplayOK
    <2>3. Asked(s, t)' = Asked(s, t)
      BY <1>7, <1>8
    <2>4. Replayed(c, s, t)'
      BY <1>4, <1>5, <1>7, <2>1, <2>3 DEF Replayed
    <2>5. s \in 0..seq' /\ t \in 0..seq'
      BY <1>7
    <2>6. QED  BY <2>4, <2>5
  <1>12. MailboxOK(c)'
    <2> SUFFICES ASSUME h[c].pc \in Working
                 PROVE  \E s, e \in 0..seq' : Boxed(c, s, e)'
      BY <1>4 DEF MailboxOK
    <2>1. PICK s \in 0..seq, e \in 0..seq : Boxed(c, s, e)
      BY <1>1 DEF StreamOK, MailboxOK
    <2>2. Position(c) # None => Asked(Position(c), s)' = Asked(Position(c), s)
      BY <1>6, <1>8, <1>9
    <2>3. CASE c \notin subs'
      <3>1. h'[c].box = h[c].box /\ Exported(s, e)' = Exported(s, e)
        BY <1>3, <1>8, <2>3 DEF Fanned
      <3>2. Boxed(c, s, e)'
        BY <1>4, <1>5, <1>6, <1>7, <2>1, <2>2, <2>3, <3>1 DEF Boxed
      <3>3. s \in 0..seq' /\ e \in 0..seq'
        BY <1>7
      <3>4. QED  BY <3>2, <3>3
    <2>4. CASE c \in subs'
      <3>1. PICK f \in 0..seq + 1 : f = seq + 1
        BY <1>7
      <3>2. e = seq /\ Lists(h[c].box, Exported(s, seq)) /\ h[c].base <= s
        BY <1>5, <2>1, <2>4 DEF Boxed
      <3>3. Exported(s, f)' = Exported(s, seq) \cup (IF k = "hidden" THEN {} ELSE {f})
        BY <1>1, <1>7, <3>1, LogGrows
      <3>4. Lists(h'[c].box, Exported(s, f)')
        <4>1. CASE k = "hidden"
          BY <1>3, <3>2, <3>3, <4>1 DEF Fanned
        <4>2. CASE k # "hidden"
          <5>1. \A x \in Exported(s, seq) : x < f
            BY <1>7, <3>1 DEF Exported
          <5>2. Lists(Append(h[c].box, f), Exported(s, seq) \cup {f})
            BY <1>7, <1>9, <3>1, <3>2, <5>1, ListAppend
          <5>3. h'[c].box = Append(h[c].box, f)
            BY <1>3, <2>4, <3>1, <4>2 DEF Fanned
          <5>4. QED  BY <3>3, <4>2, <5>2, <5>3
        <4>3. QED  BY <4>1, <4>2
      <3>5. h[c].pc \in {"replay", "send"} => s = h[c].base
        BY <2>1 DEF Boxed
      <3>6. h[c].pc = "live" /\ up[c] /\ Position(c) # None => Asked(Position(c), s) = {}
        BY <2>1 DEF Boxed
      <3>7. Boxed(c, s, f)'
        BY <1>4, <1>5, <1>6, <1>7, <2>2, <3>1, <3>2, <3>4, <3>5, <3>6 DEF Boxed
      <3>8. s \in 0..seq' /\ f \in 0..seq'
        BY <1>7, <3>1
      <3>9. QED  BY <3>7, <3>8
    <2>5. QED  BY <2>3, <2>4
  <1>13. QED  BY <1>10, <1>11, <1>12 DEF StreamOK

LEMMA GrowKeeps ==
  ASSUME RingInv, NEW k \in Kinds, Grows(k)
  PROVE  RingInv'
  <1>1. RingTypeOK /\ RingIsSuffix /\ Informed /\ log \in Seq(Kinds) /\ log' = Append(log, k)
        /\ ring' = Stored(seq + 1) /\ up' = up /\ known' = known /\ msg' = msg /\ rev' \in Nat
    BY DEF RingInv, RingTypeOK, Grows
  <1>2. seq \in Nat /\ seq' = seq + 1 /\ log' \in Seq(Kinds)
    BY <1>1, LogGrows
  <1>3. h' \in [Streams -> Handler] /\ subs' \subseteq Streams /\ \A c \in Streams : Fanned(c, k)
    BY <1>1, FanOut
  <1>4. RingTypeOK'
    <2>1. ring' \in Rings
      <3>1. PICK id \in Nat : id = seq + 1
        BY <1>2
      <3>2. Stored(id) \in Rings
        BY <1>1, StoredType
      <3>3. QED  BY <1>1, <3>1, <3>2
    <2>2. QED  BY <1>1, <1>2, <1>3, <2>1 DEF RingTypeOK
  <1>5. RingIsSuffix'
    BY <1>1, StoredIsSuffix
  <1>6. Informed'
    <2>1. \A c \in Consumers : known[c] # None => known[c] \in Nat /\ known[c] <= seq
      BY <1>1 DEF Informed, RingTypeOK
    <2>2. \A c \in Streams : h'[c].base = h[c].base /\ h[c].base <= seq /\ h[c].base \in Nat
      BY <1>1, <1>3, Kept DEF Informed, Fanned, Handler
    <2>3. QED  BY <1>1, <1>2, <2>1, <2>2 DEF Informed
  <1>7. \A c \in Streams : Resumes(c)'
    BY <1>1, <1>3 DEF RingInv, Resumes, Fanned
  <1>8. \A c \in RestClients : StreamOK(c)'
    BY GrownStream
  <1>9. QED  BY <1>4, <1>5, <1>6, <1>7, <1>8 DEF RingInv

-----------------------------------------------------------------------------
(* Steps of one consumer.                                                  *)

(* Only c is touched, and what it knows and where it begins exists.        *)
Alone(c) ==
  /\ log' = log /\ ring' = ring /\ rev' = rev
  /\ RingTypeOK'
  /\ \A d \in Streams \ {c} : h'[d] = h[d] /\ up'[d] = up[d] /\ (d \in subs' => d \in subs)
  /\ \A d \in Consumers \ {c} : known'[d] = known[d]
  /\ c \in Consumers => (known'[c] # None => known'[c] <= seq)
  /\ c \in Pagers => known'[c] # 0
  /\ c \in Streams => h'[c].base <= seq

LEMMA Framed ==
  ASSUME NEW d \in RestClients, StreamOK(d), log' = log, h'[d] = h[d], up'[d] = up[d],
         known'[d] = known[d], d \in subs' => d \in subs
  PROVE  StreamOK(d)'
  <1>1. Position(d)' = Position(d) /\ seq' = seq
    BY DEF Position, seq
  <1>2. \A lo, hi : Exported(lo, hi)' = Exported(lo, hi) /\ Asked(lo, hi)' = Asked(lo, hi)
    BY DEF Exported, Asked
  <1>3. Agrees(d)'
    BY DEF StreamOK, Agrees
  <1>4. MailboxOK(d)'
    <2> SUFFICES ASSUME h[d].pc \in Working
                 PROVE  \E s, e \in 0..seq : Boxed(d, s, e)'
      BY <1>1 DEF MailboxOK
    <2>1. PICK s \in 0..seq, e \in 0..seq : Boxed(d, s, e)
      BY DEF StreamOK, MailboxOK
    <2>2. Boxed(d, s, e)'
      BY <1>1, <1>2, <2>1 DEF Boxed
    <2>3. QED  BY <2>2
  <1>5. ReplayOK(d)'
    <2> SUFFICES ASSUME h[d].pc = "send"
                 PROVE  \E s, t \in 0..seq : Replayed(d, s, t)'
      BY <1>1 DEF ReplayOK
    <2>1. PICK s \in 0..seq, t \in 0..seq : Replayed(d, s, t)
      BY DEF StreamOK, ReplayOK
    <2>2. Replayed(d, s, t)'
      BY <1>1, <1>2, <2>1 DEF Replayed
    <2>3. QED  BY <2>2
  <1>6. QED  BY <1>3, <1>4, <1>5 DEF StreamOK

LEMMA AloneKeeps ==
  ASSUME RingInv, NEW c \in Streams \cup Consumers, Alone(c),
         c \in Streams => Resumes(c)',
         c \in RestClients => StreamOK(c)'
  PROVE  RingInv'
  <1>1. RingTypeOK' /\ log' = log /\ ring' = ring /\ seq' = seq
    BY DEF Alone, seq
  <1>2. RingIsSuffix'
    BY <1>1 DEF RingInv, RingIsSuffix, Retained
  <1>3. Informed'
    <2>1. \A d \in Consumers : known'[d] # None => known'[d] <= seq
      BY DEF Alone, RingInv, Informed
    <2>2. \A d \in Pagers : known'[d] # 0
      BY DEF Alone, RingInv, Informed, Consumers
    <2>3. \A d \in Streams : h'[d].base <= seq
      BY DEF Alone, RingInv, Informed
    <2>4. QED  BY <1>1, <2>1, <2>2, <2>3 DEF Informed
  <1>4. ASSUME NEW d \in Streams
        PROVE  Resumes(d)'
    <2>1. CASE d = c
      BY <2>1
    <2>2. CASE d # c
      <3>1. h'[d] = h[d] /\ Resumes(d)
        BY <2>2 DEF Alone, RingInv
      <3>2. d \in RestClients => known'[d] = known[d]
        BY <2>2 DEF Alone, Consumers
      <3>3. QED  BY <3>1, <3>2 DEF Resumes
    <2>3. QED  BY <2>1, <2>2
  <1>5. ASSUME NEW d \in RestClients
        PROVE  StreamOK(d)'
    <2>1. CASE d = c
      BY <2>1
    <2>2. CASE d # c
      <3>1. d \in Streams \ {c} /\ d \in Consumers \ {c} /\ StreamOK(d)
        BY <2>2 DEF RingInv, Streams, Consumers
      <3>2. QED  BY <1>1, <3>1, Framed DEF Alone
    <2>3. QED  BY <2>1, <2>2
  <1>6. QED  BY <1>1, <1>2, <1>3, <1>4, <1>5 DEF RingInv

(* A handler that has left its loop, and one of an MCP client, has no more *)
(* to keep.                                                                *)
LEMMA GoneKeeps ==
  ASSUME RingInv, NEW c \in Streams, Alone(c), h'[c].pc \notin Working
  PROVE  RingInv'
  <1>1. Resumes(c)'
    BY DEF Resumes, Working
  <1>2. StreamOK(c)'
    BY DEF StreamOK, Agrees, MailboxOK, ReplayOK, Working
  <1>3. QED  BY <1>1, <1>2, AloneKeeps
LEMMA McpKeeps ==
  ASSUME RingInv, NEW c \in McpClients, Alone(c), h'[c].pc \notin {"replay", "send"}
  PROVE  RingInv'
  <1>1. c \in Streams /\ c \notin RestClients
    BY RingAssumption DEF Streams
  <1>2. Resumes(c)'
    BY DEF Resumes
  <1>3. QED  BY <1>1, <1>2, AloneKeeps

Messages == [ids : SUBSET Nat, reset : BOOLEAN]

(* A client that is connected receives the frame.                          *)
Received(c, id, m) ==
  /\ known' \in [Consumers -> Nat \cup {None}] /\ msg' \in [Consumers -> Messages]
  /\ \A d \in Consumers \ {c} : known'[d] = known[d] /\ msg'[d] = msg[d]
  /\ up[c] => known'[c] = id /\ msg'[c] = m
  /\ ~up[c] => known'[c] = known[c] /\ msg'[c] = msg[c]
LEMMA ReceivesIs ==
  ASSUME RingTypeOK, NEW c \in Consumers, NEW id \in Nat, NEW m \in Messages, Receives(c, id, m)
  PROVE  Received(c, id, m)
  <1>1. known \in [Consumers -> Nat \cup {None}] /\ msg \in [Consumers -> Messages]
    BY DEF RingTypeOK, Messages
  <1>2. CASE up[c]
    <2>1. known' = [known EXCEPT ![c] = id] /\ msg' = [msg EXCEPT ![c] = m]
      BY <1>2 DEF Receives
    <2>2. QED  BY <1>1, <1>2, <2>1 DEF Received
  <1>3. CASE ~up[c]
    <2>1. known' = known /\ msg' = msg
      BY <1>3 DEF Receives
    <2>2. QED  BY <1>1, <1>3, <2>1 DEF Received
  <1>4. QED  BY <1>2, <1>3

LEMMA LostType == Lost \in Messages
  BY DEF Lost, Messages
LEMMA EventType == ASSUME NEW id \in Nat PROVE Event(id) \in Messages
  BY DEF Event, Messages

(* A step that changes one handler, and possibly what its client knows.    *)
LEMMA OneHandler ==
  ASSUME RingInv, NEW c \in Streams, NEW g \in Handler, h' = [h EXCEPT ![c] = g], g.base <= seq,
         log' = log, ring' = ring, rev' = rev,
         up' \in [Streams -> BOOLEAN], \A d \in Streams \ {c} : up'[d] = up[d],
         subs' \subseteq Streams, \A d \in Streams \ {c} : d \in subs' => d \in subs,
         known' \in [Consumers -> Nat \cup {None}], msg' \in [Consumers -> Messages],
         \A d \in Consumers \ {c} : known'[d] = known[d],
         c \in Consumers => (known'[c] # None => known'[c] <= seq)
  PROVE  Alone(c) /\ h'[c] = g
  <1>1. h \in [Streams -> Handler] /\ ring \in Rings /\ log \in Seq(Kinds) /\ rev \in Nat
    BY DEF RingInv, RingTypeOK
  <1>2. h' \in [Streams -> Handler] /\ h'[c] = g /\ \A d \in Streams \ {c} : h'[d] = h[d]
    BY <1>1
  <1>3. RingTypeOK'
    BY <1>1, <1>2 DEF RingTypeOK, Messages
  <1>4. c \notin Pagers
    BY RingAssumption DEF Streams
  <1>5. QED  BY <1>2, <1>3, <1>4 DEF Alone

LEMMA Basics ==
  ASSUME RingInv, NEW c \in Streams
  PROVE  /\ RingTypeOK /\ RingIsSuffix /\ Informed /\ seq \in Nat
         /\ h[c] \in Handler /\ h[c].base \in Nat /\ h[c].base <= seq
         /\ h[c].last \in Nat /\ h[c].box \in Seq(Nat) /\ h[c].todo \in Seq(Nat)
         /\ up \in [Streams -> BOOLEAN] /\ subs \subseteq Streams
         /\ known \in [Consumers -> Nat \cup {None}] /\ msg \in [Consumers -> Messages]
         /\ \A d \in Consumers : known[d] # None => known[d] <= seq
  <1>1. RingTypeOK /\ RingIsSuffix /\ Informed
    BY DEF RingInv
  <1>2. seq \in Nat /\ h[c] \in Handler
    BY <1>1, Kept
  <1>3. QED  BY <1>1, <1>2 DEF Handler, Informed, RingTypeOK, Messages

LEMMA EmptyType == NoHandler \in Handler
  <1>1. <<>> \in Seq(Nat)
    OBVIOUS
  <1>2. QED  BY <1>1 DEF NoHandler, Handler

(* The ways out of a stream.                                               *)
LEMMA LeaveKeeps ==
  ASSUME RingInv, NEW c \in Streams,
         Dropped(c) \/ SeesEnd(c) \/ Revoked(c) \/ Detach(c) \/ Release(c)
  PROVE  RingInv'
  <1>1. /\ RingTypeOK /\ seq \in Nat /\ h[c] \in Handler /\ h[c].base \in Nat /\ h[c].base <= seq
        /\ up \in [Streams -> BOOLEAN] /\ subs \subseteq Streams
        /\ known \in [Consumers -> Nat \cup {None}] /\ msg \in [Consumers -> Messages]
        /\ \A d \in Consumers : known[d] # None => known[d] <= seq
    BY Basics
  <1> DEFINE g == [h[c] EXCEPT !.pc = "detach"]
  <1> DEFINE f == [h[c] EXCEPT !.pc = "release"]
  <1>2. /\ g \in Handler /\ g.base <= seq /\ g.pc \notin Working
        /\ f \in Handler /\ f.base <= seq /\ f.pc \notin Working
        /\ NoHandler \in Handler /\ NoHandler.base <= seq /\ NoHandler.pc \notin Working
    <2>1. g \in Handler /\ g.base = h[c].base /\ g.pc = "detach"
      BY <1>1 DEF Handler
    <2>2. f \in Handler /\ f.base = h[c].base /\ f.pc = "release"
      BY <1>1 DEF Handler
    <2>3. NoHandler.base = 0 /\ NoHandler.pc = "none"
      BY DEF NoHandler
    <2> HIDE DEF g, f
    <2>4. QED  BY <1>1, <2>1, <2>2, <2>3, EmptyType DEF Working
  <1>3. CASE Dropped(c)
    <2>1. h' = [h EXCEPT ![c] = g] /\ UNCHANGED <<ring, log, subs, up, rev>>
      BY <1>3 DEF Dropped
    <2>2. /\ known' \in [Consumers -> Nat \cup {None}] /\ msg' \in [Consumers -> Messages]
          /\ \A d \in Consumers \ {c} : known'[d] = known[d]
          /\ c \in Consumers => (known'[c] # None => known'[c] <= seq)
      <3>1. CASE c \in RestClients
        <4>1. c \in Consumers /\ Receives(c, 0, Lost)
          BY <1>3, <3>1 DEF Dropped, Consumers
        <4>2. Received(c, 0, Lost)
          BY <1>1, <4>1, ReceivesIs, LostType
        <4>3. QED  BY <1>1, <4>1, <4>2 DEF Received
      <3>2. CASE c \notin RestClients
        <4>1. known' = known /\ msg' = msg
          BY <1>3, <3>2 DEF Dropped
        <4>2. QED  BY <1>1, <4>1
      <3>3. QED  BY <3>1, <3>2
    <2> HIDE DEF g
    <2>3. Alone(c) /\ h'[c] = g
      BY <1>1, <1>2, <2>1, <2>2, OneHandler
    <2>4. QED  BY <1>2, <2>3, GoneKeeps
  <1>4. CASE SeesEnd(c) \/ Revoked(c)
    <2>1. h' = [h EXCEPT ![c] = g] /\ UNCHANGED <<ring, log, subs, up, known, msg, rev>>
      BY <1>4 DEF SeesEnd, Revoked
    <2> HIDE DEF g
    <2>2. Alone(c) /\ h'[c] = g
      BY <1>1, <1>2, <2>1, OneHandler
    <2>3. QED  BY <1>2, <2>2, GoneKeeps
  <1>5. CASE Detach(c)
    <2>1. h' = [h EXCEPT ![c] = f] /\ subs' = subs \ {c} /\ UNCHANGED <<ring, log, up, known, msg, rev>>
      BY <1>5 DEF Detach
    <2> HIDE DEF f
    <2>2. Alone(c) /\ h'[c] = f
      BY <1>1, <1>2, <2>1, OneHandler
    <2>3. QED  BY <1>2, <2>2, GoneKeeps
  <1>6. CASE Release(c)
    <2>1. /\ h' = [h EXCEPT ![c] = NoHandler] /\ up' = [up EXCEPT ![c] = FALSE]
          /\ UNCHANGED <<ring, log, subs, known, msg, rev>>
      BY <1>6 DEF Release
    <2>2. up' \in [Streams -> BOOLEAN] /\ \A d \in Streams \ {c} : up'[d] = up[d]
      BY <1>1, <2>1
    <2>3. Alone(c) /\ h'[c] = NoHandler
      BY <1>1, <1>2, <2>1, <2>2, OneHandler
    <2>4. QED  BY <1>2, <2>3, GoneKeeps
  <1>7. QED  BY <1>3, <1>4, <1>5, <1>6

(* The client hangs up: nobody hears what the handler still sends.         *)
LEMMA HangUpKeeps ==
  ASSUME RingInv, NEW c \in Streams, HangUp(c)
  PROVE  RingInv'
  <1>1. /\ RingTypeOK /\ seq \in Nat /\ h[c] \in Handler /\ h[c].base \in Nat /\ h[c].base <= seq
        /\ up \in [Streams -> BOOLEAN] /\ subs \subseteq Streams
        /\ known \in [Consumers -> Nat \cup {None}] /\ msg \in [Consumers -> Messages]
        /\ \A d \in Consumers : known[d] # None => known[d] <= seq
    BY Basics
  <1>2. h' = h /\ up' = [up EXCEPT ![c] = FALSE] /\ UNCHANGED <<ring, log, subs, known, msg, rev>>
    BY DEF HangUp
  <1>3. up' \in [Streams -> BOOLEAN] /\ up'[c] = FALSE /\ \A d \in Streams \ {c} : up'[d] = up[d]
    BY <1>1, <1>2
  <1>4. h' = [h EXCEPT ![c] = h[c]]
    BY <1>1, <1>2 DEF RingTypeOK
  <1>5. Alone(c) /\ h'[c] = h[c]
    BY <1>1, <1>2, <1>3, <1>4, OneHandler
  <1>6. Resumes(c)'
    BY <1>2 DEF RingInv, Resumes
  <1>7. ASSUME c \in RestClients
        PROVE  StreamOK(c)'
    <2>1. StreamOK(c) /\ seq' = seq
      BY <1>2, <1>7 DEF RingInv, seq
    <2>2. \A lo, hi : Exported(lo, hi)' = Exported(lo, hi) /\ Asked(lo, hi)' = Asked(lo, hi)
      BY <1>2 DEF Exported, Asked
    <2>3. Agrees(c)'
      BY <1>3 DEF Agrees
    <2>4. MailboxOK(c)'
      <3>1. \A s, e : Boxed(c, s, e) => Boxed(c, s, e)'
        BY <1>2, <1>3, <2>1, <2>2 DEF Boxed
      <3>2. QED  BY <1>2, <2>1, <3>1 DEF StreamOK, MailboxOK
    <2>5. ReplayOK(c)'
      <3>1. \A s, t : Replayed(c, s, t) => Replayed(c, s, t)'
        BY <1>2, <1>3, <2>1, <2>2 DEF Replayed
      <3>2. QED  BY <1>2, <2>1, <3>1 DEF StreamOK, ReplayOK
    <2>6. QED  BY <2>3, <2>4, <2>5 DEF StreamOK
  <1>8. QED  BY <1>5, <1>6, <1>7, AloneKeeps

(* A listen stream announces.                                              *)
LEMMA ListenKeeps ==
  ASSUME RingInv, NEW c \in Streams, TakeMcp(c) \/ Tick(c)
  PROVE  RingInv'
  <1>1. /\ RingTypeOK /\ seq \in Nat /\ h[c] \in Handler /\ h[c].base \in Nat /\ h[c].base <= seq
        /\ h[c].box \in Seq(Nat) /\ up \in [Streams -> BOOLEAN] /\ subs \subseteq Streams
        /\ known \in [Consumers -> Nat \cup {None}] /\ msg \in [Consumers -> Messages]
        /\ \A d \in Consumers : known[d] # None => known[d] <= seq
    BY Basics
  <1>2. rev \in Nat
    BY <1>1 DEF RingTypeOK
  <1>3. c \in McpClients /\ h[c].pc = "live" /\ UNCHANGED <<ring, log, subs, up, known, msg, rev>>
    BY DEF TakeMcp, Tick
  <1>4. CASE Tick(c)
    <2> DEFINE g == [h[c] EXCEPT !.lastRev = rev]
    <2>1. h' = [h EXCEPT ![c] = g]
      BY <1>4 DEF Tick
    <2>2. g \in Handler /\ g.base = h[c].base /\ g.pc = h[c].pc
      BY <1>1, <1>2 DEF Handler
    <2> HIDE DEF g
    <2>3. Alone(c) /\ h'[c] = g
      BY <1>1, <1>3, <2>1, <2>2, OneHandler
    <2>4. QED  BY <1>3, <2>2, <2>3, McpKeeps
  <1>5. CASE TakeMcp(c)
    <2> DEFINE g == [h[c] EXCEPT !.box = Tail(h[c].box), !.notified = Head(h[c].box), !.lastRev = rev]
    <2>1. h' = [h EXCEPT ![c] = g] /\ h[c].box # <<>>
      BY <1>5 DEF TakeMcp
    <2>2. Tail(h[c].box) \in Seq(Nat) /\ Head(h[c].box) \in Nat
      BY <1>1, <2>1
    <2>3. g \in Handler /\ g.base = h[c].base /\ g.pc = h[c].pc
      BY <1>1, <1>2, <2>2 DEF Handler
    <2> HIDE DEF g
    <2>4. Alone(c) /\ h'[c] = g
      BY <1>1, <1>3, <2>1, <2>3, OneHandler
    <2>5. QED  BY <1>3, <2>3, <2>4, McpKeeps
  <1>6. QED  BY <1>4, <1>5

(* A stream opens: its mailbox begins at the end of the log.               *)
LEMMA OpenKeeps ==
  ASSUME RingInv, NEW c \in Streams, NEW loaded \in 1..rev, Open(c, loaded)
  PROVE  RingInv'
  <1>1. /\ RingTypeOK /\ Informed /\ seq \in Nat /\ up \in [Streams -> BOOLEAN] /\ subs \subseteq Streams
        /\ known \in [Consumers -> Nat \cup {None}] /\ msg \in [Consumers -> Messages]
        /\ \A d \in Consumers : known[d] # None => known[d] <= seq
    BY Basics
  <1>2. loaded \in Nat /\ None \notin Nat
    BY <1>1, RingAssumption DEF RingTypeOK
  <1> DEFINE resumes == c \in RestClients /\ known[c] # None
  <1> DEFINE g == [pc |-> IF resumes THEN "replay" ELSE "live", box |-> <<>>, drop |-> FALSE, base |-> seq,
                   last |-> IF resumes THEN known[c] ELSE 0, todo |-> <<>>,
                   lastRev |-> IF c \in McpClients THEN loaded ELSE 0,
                   notified |-> IF c \in McpClients THEN seq ELSE 0]
  <1>3. /\ h' = [h EXCEPT ![c] = g] /\ subs' = subs \cup {c} /\ up' = [up EXCEPT ![c] = TRUE]
        /\ UNCHANGED <<ring, log, known, msg, rev>>
    BY DEF Open
  <1>4. g \in Handler /\ g.base = seq /\ g.box = <<>> /\ g.pc = (IF resumes THEN "replay" ELSE "live")
        /\ g.last = IF resumes THEN known[c] ELSE 0
    <2>1. <<>> \in Seq(Nat)
      OBVIOUS
    <2>2. (IF resumes THEN known[c] ELSE 0) \in Nat
      BY <1>1 DEF Consumers
    <2>3. QED  BY <1>1, <1>2, <2>1, <2>2 DEF Handler
  <1>5. up' \in [Streams -> BOOLEAN] /\ up'[c] = TRUE /\ (\A d \in Streams \ {c} : up'[d] = up[d])
        /\ subs' \subseteq Streams /\ \A d \in Streams \ {c} : d \in subs' => d \in subs
    BY <1>1, <1>3
  <1> HIDE DEF g
  <1>6. Alone(c) /\ h'[c] = g
    <2>1. g \in Handler /\ g.base <= seq
      BY <1>1, <1>4
    <2>2. /\ known' \in [Consumers -> Nat \cup {None}] /\ msg' \in [Consumers -> Messages]
          /\ \A d \in Consumers \ {c} : known'[d] = known[d]
          /\ c \in Consumers => (known'[c] # None => known'[c] <= seq)
      BY <1>1, <1>3
    <2>3. h' = [h EXCEPT ![c] = g] /\ log' = log /\ ring' = ring /\ rev' = rev
      BY <1>3
    <2>4. QED  BY <1>5, <2>1, <2>2, <2>3, OneHandler
  <1>7. Resumes(c)'
    BY <1>3, <1>4, <1>6 DEF Resumes
  <1>8. ASSUME c \in RestClients
        PROVE  StreamOK(c)'
    <2>1. seq' = seq /\ c \in Consumers /\ RingTypeOK' /\ Informed'
      <3>1. seq' = seq /\ c \in Consumers /\ RingTypeOK'
        BY <1>3, <1>6, <1>8 DEF seq, Consumers, Alone
      <3>2. \A d \in Streams : h'[d].base <= seq
        BY <1>1, <1>6 DEF Alone, Informed
      <3>3. QED  BY <1>1, <1>3, <3>1, <3>2 DEF Informed
    <2>2. Agrees(c)'
      BY <1>2, <1>3, <1>4, <1>6, <1>8 DEF Agrees
    <2>3. ReplayOK(c)'
      BY <1>4, <1>6 DEF ReplayOK
    <2>4. MailboxOK(c)'
      <3>1. PICK z \in 0..seq : z = seq
        BY <1>1
      <3>2. Exported(z, z)' = {} /\ Asked(z, z)' = {}
        BY <1>1, <3>1 DEF Exported, Asked
      <3>3. Lists(h'[c].box, Exported(z, z)')
        <4>1. h'[c].box = <<>> /\ h'[c].box \in Seq(Nat)
          BY <1>4, <1>6 DEF Handler
        <4>2. QED  BY <3>2, <4>1, ListEmpty
      <3>4. h'[c].pc = "live" => Position(c)' = seq
        <4>1. h'[c].pc = "live" => known'[c] = None
          BY <1>3, <1>4, <1>6, <1>8
        <4>2. c \in Consumers /\ RingTypeOK' /\ Informed'
          BY <2>1
        <4>3. known'[c] = None /\ h'[c].pc = "live" => Position(c)' = h'[c].base
          BY <1>5, <1>8, RingAssumption DEF Position
        <4>4. QED  BY <1>4, <1>6, <4>1, <4>3
      <3>5. h'[c].pc = "live" => Asked(Position(c), z)' = {}
        BY <3>1, <3>2, <3>4
      <3>6. Boxed(c, z, z)'
        BY <1>1, <1>4, <1>6, <2>1, <3>1, <3>3, <3>5 DEF Boxed
      <3>7. QED  BY <2>1, <3>1, <3>6 DEF MailboxOK
    <2>5. QED  BY <2>2, <2>3, <2>4 DEF StreamOK
  <1>9. QED  BY <1>6, <1>7, <1>8, AloneKeeps

(* The replay reads what the ring still has.                               *)
LEMMA ReplayKeeps ==
  ASSUME RingInv, NEW c \in Streams, Replay(c)
  PROVE  RingInv'
  <1>1. /\ RingTypeOK /\ RingIsSuffix /\ Informed /\ seq \in Nat /\ h[c] \in Handler
        /\ h[c].base \in Nat /\ h[c].base <= seq /\ h[c].last \in Nat
        /\ up \in [Streams -> BOOLEAN] /\ subs \subseteq Streams
        /\ known \in [Consumers -> Nat \cup {None}] /\ msg \in [Consumers -> Messages]
        /\ \A d \in Consumers : known[d] # None => known[d] <= seq
    BY Basics
  <1>2. h[c].pc = "replay" /\ c \in RestClients /\ known[c] # None
    BY DEF RingInv, Replay, Resumes
  <1>3. c \in Consumers /\ StreamOK(c)
    BY <1>2 DEF RingInv, Consumers
  <1> DEFINE page == readLocked(h[c].last, Cap)
  <1> DEFINE g == [h[c] EXCEPT !.pc = "send", !.todo = page.items]
  <1>4. /\ h' = [h EXCEPT ![c] = g] /\ UNCHANGED <<ring, log, subs, up, rev>>
        /\ IF page.reset THEN Receives(c, 0, Lost) ELSE UNCHANGED <<known, msg>>
    BY DEF Replay
  <1>5. PageOf(page, h[c].last) /\ Lists(page.items, Asked(From(h[c].last), seq))
    BY <1>1, PageFacts, RingFacts
  <1> HIDE DEF page
  <1>6. page.items \in Seq(Nat) /\ page.reset = (h[c].last > 0 /\ h[c].last < seq - ring.n)
    BY <1>5 DEF PageOf
  <1>7. g \in Handler /\ g.pc = "send" /\ g.todo = page.items
        /\ g.base = h[c].base /\ g.box = h[c].box /\ g.last = h[c].last
    BY <1>1, <1>6 DEF Handler
  <1> HIDE DEF g
  <1>8. /\ known' \in [Consumers -> Nat \cup {None}] /\ msg' \in [Consumers -> Messages]
        /\ \A d \in Consumers \ {c} : known'[d] = known[d]
        /\ known'[c] = IF page.reset /\ up[c] THEN 0 ELSE known[c]
    <2>1. CASE page.reset
      <3>1. Received(c, 0, Lost)
        BY <1>1, <1>3, <1>4, <2>1, ReceivesIs, LostType
      <3>2. QED  BY <1>1, <2>1, <3>1 DEF Received
    <2>2. CASE ~page.reset
      BY <1>1, <1>4, <2>2
    <2>3. QED  BY <2>1, <2>2
  <1>9. known'[c] # None /\ known'[c] \in Nat /\ known'[c] <= seq
    BY <1>1, <1>2, <1>3, <1>8, RingAssumption
  <1>10. Alone(c) /\ h'[c] = g
    <2>1. g.base <= seq
      BY <1>1, <1>7
    <2>2. up' \in [Streams -> BOOLEAN] /\ subs' \subseteq Streams /\ h' = [h EXCEPT ![c] = g]
          /\ log' = log /\ ring' = ring /\ rev' = rev
          /\ \A d \in Streams \ {c} : up'[d] = up[d] /\ (d \in subs' => d \in subs)
      BY <1>1, <1>4
    <2>3. QED  BY <1>7, <1>8, <1>9, <2>1, <2>2, OneHandler
  <1>11. Resumes(c)'
    BY <1>2, <1>9 DEF Resumes
  <1>12. seq' = seq /\ up'[c] = up[c] /\ \A lo, hi : Exported(lo, hi)' = Exported(lo, hi) /\ Asked(lo, hi)' = Asked(lo, hi)
    BY <1>4 DEF seq, Exported, Asked
  <1>13. Agrees(c)'
    <2>1. up[c] /\ known'[c] # 0 => known'[c] = known[c]
      BY <1>8
    <2>2. up[c] /\ known[c] # 0 => h[c].last = known[c]
      BY <1>2, <1>3 DEF StreamOK, Agrees, Working
    <2>3. QED  BY <1>7, <1>9, <1>10, <1>12, <2>1, <2>2 DEF Agrees
  <1>14. MailboxOK(c)'
    <2>1. PICK s \in 0..seq, e \in 0..seq : Boxed(c, s, e)
      BY <1>2, <1>3 DEF StreamOK, MailboxOK, Working
    <2>2. Boxed(c, s, e)'
      BY <1>2, <1>4, <1>7, <1>10, <1>12, <2>1 DEF Boxed
    <2>3. QED  BY <1>12, <2>2 DEF MailboxOK
  <1>15. ReplayOK(c)'
    <2>1. \E s \in 0..seq : Lists(page.items, Asked(s, seq)) /\ (h[c].last <= seq => s = From(h[c].last))
      <3>1. seq - ring.n \in 0..seq /\ ring.n \in Nat
        BY <1>1, RingFacts
      <3>2. CASE h[c].last <= seq
        <4>1. From(h[c].last) \in 0..seq
          BY <1>1, <3>1, <3>2 DEF From
        <4>2. QED  BY <1>5, <4>1
      <3>3. CASE ~(h[c].last <= seq)
        <4>1. From(h[c].last) = h[c].last
          BY <1>1, <3>1, <3>3 DEF From
        <4>2. Asked(From(h[c].last), seq) = {} /\ Asked(seq, seq) = {}
          BY <1>1, <3>3, <4>1 DEF Asked
        <4>3. Lists(page.items, Asked(seq, seq))
          BY <1>5, <4>2
        <4>4. seq \in 0..seq
          BY <1>1
        <4>5. QED  BY <3>3, <4>3, <4>4
      <3>4. QED  BY <3>2, <3>3
    <2>2. PICK s \in 0..seq : Lists(page.items, Asked(s, seq)) /\ (h[c].last <= seq => s = From(h[c].last))
      BY <2>1
    <2>3. PICK t \in 0..seq : t = seq
      BY <1>1
    <2>4. up[c] /\ known'[c] # 0 => known'[c] = s
      <3> SUFFICES ASSUME up[c], known'[c] # 0
                   PROVE  known'[c] = s
        OBVIOUS
      <3>1. ~page.reset /\ known'[c] = known[c]
        BY <1>8
      <3>2. h[c].last = known[c] /\ h[c].last > 0
        BY <1>1, <1>2, <1>3, <1>9, <3>1 DEF StreamOK, Agrees, Working
      <3>3. s = h[c].last
        <4>1. h[c].last <= seq
          BY <1>1, <1>2, <1>3, <3>2
        <4>2. ~(h[c].last < seq - ring.n)
          BY <1>6, <3>1, <3>2
        <4>3. QED  BY <2>2, <4>1, <4>2 DEF From
      <3>4. QED  BY <3>1, <3>2, <3>3
    <2>5. Replayed(c, s, t)'
      <3>1. Lists(h'[c].todo, Asked(s, t)')
        BY <1>7, <1>10, <1>12, <2>2, <2>3
      <3>2. h'[c].base <= t /\ t <= seq'
        BY <1>1, <1>7, <1>10, <1>12, <2>3
      <3>3. (up[c] /\ known[c] # 0 => known[c] = s)'
        BY <1>12, <2>4
      <3>4. QED  BY <3>1, <3>2, <3>3 DEF Replayed
    <2>6. QED  BY <1>12, <2>5 DEF ReplayOK
  <1>16. QED  BY <1>10, <1>11, <1>13, <1>14, <1>15, AloneKeeps DEF StreamOK

(* One event of the replay is sent, or the replay is over.                 *)
LEMMA SendKeeps ==
  ASSUME RingInv, NEW c \in Streams, SendReplay(c)
  PROVE  RingInv'
  <1>1. /\ RingTypeOK /\ Informed /\ seq \in Nat /\ h[c] \in Handler
        /\ h[c].base \in Nat /\ h[c].base <= seq /\ h[c].last \in Nat
        /\ h[c].box \in Seq(Nat) /\ h[c].todo \in Seq(Nat)
        /\ up \in [Streams -> BOOLEAN] /\ subs \subseteq Streams
        /\ known \in [Consumers -> Nat \cup {None}] /\ msg \in [Consumers -> Messages]
        /\ \A d \in Consumers : known[d] # None => known[d] <= seq
    BY Basics
  <1>2. h[c].pc = "send" /\ c \in RestClients /\ known[c] # None
    BY DEF RingInv, SendReplay, Resumes
  <1>3. c \in Consumers /\ StreamOK(c) /\ known[c] \in Nat /\ None # 0
    BY <1>1, <1>2, RingAssumption DEF RingInv, Consumers
  <1>4. UNCHANGED <<ring, log, subs, up, rev>>
    BY DEF SendReplay
  <1>5. PICK s \in 0..seq, t \in 0..seq : Replayed(c, s, t)
    BY <1>2, <1>3 DEF StreamOK, ReplayOK
  <1>6. PICK b \in 0..seq, e \in 0..seq : Boxed(c, b, e)
    BY <1>2, <1>3 DEF StreamOK, MailboxOK, Working
  <1>7. Lists(h[c].todo, Asked(s, t)) /\ h[c].base <= t /\ (up[c] /\ known[c] # 0 => known[c] = s)
    BY <1>5 DEF Replayed
  <1>8. b = h[c].base /\ b <= e /\ e <= seq /\ (c \in subs => e = seq) /\ Lists(h[c].box, Exported(b, e))
    BY <1>2, <1>6 DEF Boxed
  <1>9. seq' = seq /\ up'[c] = up[c] /\ subs' = subs
        /\ \A lo, hi : Exported(lo, hi)' = Exported(lo, hi) /\ Asked(lo, hi)' = Asked(lo, hi)
    BY <1>4 DEF seq, Exported, Asked
  <1>10. up[c] /\ known[c] # 0 => h[c].last = known[c]
    BY <1>2, <1>3 DEF StreamOK, Agrees, Working
  <1>11. CASE h[c].todo = <<>>
    <2> DEFINE g == [h[c] EXCEPT !.pc = "live"]
    <2>1. h' = [h EXCEPT ![c] = g] /\ known' = known /\ msg' = msg
      BY <1>11 DEF SendReplay
    <2>2. g \in Handler /\ g.pc = "live" /\ g.base = h[c].base /\ g.box = h[c].box /\ g.last = h[c].last
      BY <1>1 DEF Handler
    <2> HIDE DEF g
    <2>3. Alone(c) /\ h'[c] = g
      BY <1>1, <1>4, <2>1, <2>2, OneHandler
    <2>4. Resumes(c)'
      BY <2>2, <2>3 DEF Resumes
    <2>5. Agrees(c)'
      BY <1>3, <1>2, <1>9, <1>10, <2>1, <2>2, <2>3 DEF Agrees
    <2>6. ReplayOK(c)'
      BY <2>2, <2>3 DEF ReplayOK
    <2>7. Position(c)' = IF known[c] = 0 THEN None ELSE known[c]
      BY <1>2, <1>3, <2>1 DEF Position
    <2>8. up[c] /\ known[c] # 0 => Asked(known[c], b) = {}
      <3> SUFFICES ASSUME up[c], known[c] # 0, NEW x \in Asked(known[c], b)
                   PROVE  FALSE
        OBVIOUS
      <3>1. Asked(s, t) = {} /\ known[c] = s
        BY <1>1, <1>7, <1>11, ListEmpty
      <3>2. x \in known[c]+1..b /\ log[x] = "match"
        BY DEF Asked
      <3>3. x \in s+1..t
        BY <1>1, <1>7, <1>8, <3>1, <3>2
      <3>4. QED  BY <3>1, <3>2, <3>3 DEF Asked
    <2>9. Boxed(c, b, e)'
      <3>1. Lists(h'[c].box, Exported(b, e)')
        BY <1>8, <1>9, <2>2, <2>3
      <3>2. h'[c].base <= b /\ b <= e /\ e <= seq' /\ (c \in subs' => e = seq')
        BY <1>1, <1>8, <1>9, <2>2, <2>3
      <3>3. (h[c].pc = "live" /\ up[c] /\ Position(c) # None => Asked(Position(c), b) = {})'
        BY <1>9, <2>7, <2>8
      <3>4. (h[c].pc \in {"replay", "send"} => b = h[c].base)'
        BY <2>2, <2>3
      <3>5. QED  BY <3>1, <3>2, <3>3, <3>4 DEF Boxed
    <2>10. MailboxOK(c)'
      BY <1>9, <2>9 DEF MailboxOK
    <2>11. QED  BY <2>3, <2>4, <2>5, <2>6, <2>10, AloneKeeps DEF StreamOK
  <1>12. CASE h[c].todo # <<>>
    <2> DEFINE id == Head(h[c].todo)
    <2> DEFINE g == [h[c] EXCEPT !.last = id, !.todo = Tail(h[c].todo)]
    <2>1. h' = [h EXCEPT ![c] = g] /\ Receives(c, id, Event(id))
      BY <1>12 DEF SendReplay
    <2>2. id \in Nat /\ Tail(h[c].todo) \in Seq(Nat) /\ id \in Asked(s, t)
          /\ (\A x \in Asked(s, t) : id <= x) /\ Lists(Tail(h[c].todo), Asked(s, t) \ {id})
      <3>1. h[c].todo \in Seq(Nat) /\ Lists(h[c].todo, Asked(s, t))
        BY <1>1, <1>7
      <3>2. QED  BY <1>12, <3>1, ListTail
    <2>3. g \in Handler /\ g.pc = "send" /\ g.base = h[c].base /\ g.box = h[c].box /\ g.last = id
          /\ g.todo = Tail(h[c].todo)
      BY <1>1, <1>2, <2>2 DEF Handler
    <2> HIDE DEF g, id
    <2>4. id \in 1..seq /\ id <= t /\ id > s
      BY <1>1, <2>2 DEF Asked
    <2>5. Received(c, id, Event(id))
      BY <1>1, <1>3, <2>1, <2>2, ReceivesIs, EventType
    <2>6. known'[c] = (IF up[c] THEN id ELSE known[c]) /\ known'[c] \in Nat /\ known'[c] # None /\ known'[c] <= seq
      BY <1>1, <1>2, <1>3, <2>4, <2>5, RingAssumption DEF Received
    <2>7. Alone(c) /\ h'[c] = g
      <3>1. g.base <= seq
        BY <1>1, <2>3
      <3>2. up' \in [Streams -> BOOLEAN] /\ subs' \subseteq Streams /\ log' = log /\ ring' = ring /\ rev' = rev
            /\ \A d \in Streams \ {c} : up'[d] = up[d] /\ (d \in subs' => d \in subs)
        BY <1>1, <1>4
      <3>3. QED  BY <2>1, <2>3, <2>5, <2>6, <3>1, <3>2, OneHandler DEF Received
    <2>8. Resumes(c)'
      BY <1>2, <2>6 DEF Resumes
    <2>9. Agrees(c)'
      BY <1>9, <2>3, <2>6, <2>7 DEF Agrees
    <2>10. Boxed(c, b, e)'
      <3>1. Lists(h'[c].box, Exported(b, e)')
        BY <1>8, <1>9, <2>3, <2>7
      <3>2. h'[c].base <= b /\ b <= e /\ e <= seq' /\ (c \in subs' => e = seq') /\ b = h'[c].base
        BY <1>1, <1>8, <1>9, <2>3, <2>7
      <3>3. h'[c].pc # "live"
        BY <2>3, <2>7
      <3>4. QED  BY <3>1, <3>2, <3>3 DEF Boxed
    <2>11. MailboxOK(c)'
      BY <1>9, <2>10 DEF MailboxOK
    <2>12. PICK z \in 0..seq : z = id
      BY <1>1, <2>4
    <2>13. Asked(z, t) = Asked(s, t) \ {id} /\ Asked(z, z) = {}
      <3>1. \A x : x \in z+1..t <=> x \in s+1..t /\ z < x
        BY <1>1, <2>4, <2>12
      <3>2. \A x \in Asked(s, t) : z < x <=> x # id
        BY <1>1, <2>2, <2>12 DEF Asked
      <3>3. z+1..z = {}
        BY <1>1
      <3>4. QED  BY <3>1, <3>2, <3>3 DEF Asked
    <2>14. Replayed(c, z, t)'
      <3>1. Lists(h'[c].todo, Asked(z, t)')
        BY <1>9, <2>2, <2>3, <2>7, <2>13
      <3>2. h'[c].base <= t /\ t <= seq'
        BY <1>1, <1>7, <1>9, <2>3, <2>7
      <3>3. (up[c] /\ known[c] # 0 => known[c] = z)'
        BY <1>9, <2>6, <2>12
      <3>4. QED  BY <3>1, <3>2, <3>3 DEF Replayed
    <2>15. ReplayOK(c)'
      BY <1>9, <2>14 DEF ReplayOK
    <2>16. QED  BY <2>7, <2>8, <2>9, <2>11, <2>15, AloneKeeps DEF StreamOK
  <1>13. QED  BY <1>11, <1>12


(* What lies between a position and the head of a mailbox is not wanted,   *)
(* if the head is not.                                                     *)
LEMMA SkipsNothing ==
  ASSUME log \in Seq(Kinds), NEW p \in Nat, NEW s \in Nat, NEW e \in 0..seq, NEW id \in Exported(s, e),
         \A x \in Exported(s, e) : id <= x, Asked(p, s) = {}, id <= p \/ log[id] # "match"
  PROVE  Asked(p, id) = {}
  <1> SUFFICES ASSUME NEW x \in Asked(p, id)
               PROVE  FALSE
    OBVIOUS
  <1>1. seq \in Nat /\ id \in s+1..e /\ x \in p+1..id /\ log[x] = "match"
    BY DEF seq, Exported, Asked
  <1>2. x # id
    BY <1>1
  <1>3. CASE x <= s
    <2>1. x \in p+1..s
      BY <1>1, <1>3
    <2>2. QED  BY <1>1, <2>1 DEF Asked
  <1>4. CASE x > s
    <2>1. x \in s+1..e /\ x < id
      BY <1>1, <1>2, <1>4
    <2>2. x \in Exported(s, e)
      BY <1>1, <2>1 DEF Exported
    <2>3. QED  BY <1>1, <2>1, <2>2
  <1>5. QED  BY <1>1, <1>3, <1>4

(* The live loop takes an event: the client hears it, or does not want it. *)
LEMMA TakeKeeps ==
  ASSUME RingInv, NEW c \in Streams, TakeRest(c)
  PROVE  RingInv'
  <1>1. /\ RingTypeOK /\ Informed /\ seq \in Nat /\ h[c] \in Handler
        /\ h[c].base \in Nat /\ h[c].base <= seq /\ h[c].last \in Nat
        /\ h[c].box \in Seq(Nat) /\ h[c].todo \in Seq(Nat)
        /\ up \in [Streams -> BOOLEAN] /\ subs \subseteq Streams
        /\ known \in [Consumers -> Nat \cup {None}] /\ msg \in [Consumers -> Messages]
        /\ \A d \in Consumers : known[d] # None => known[d] <= seq
    BY Basics
  <1>2. c \in RestClients /\ h[c].pc = "live" /\ h[c].box # <<>> /\ UNCHANGED <<ring, log, subs, up, rev>>
    BY DEF TakeRest
  <1>3. c \in Consumers /\ StreamOK(c) /\ log \in Seq(Kinds) /\ None \notin Nat
    BY <1>1, <1>2, RingAssumption DEF RingInv, Consumers, RingTypeOK
  <1>4. PICK s \in 0..seq, e \in 0..seq : Boxed(c, s, e)
    BY <1>2, <1>3 DEF StreamOK, MailboxOK, Working
  <1>5. h[c].base <= s /\ s <= e /\ e <= seq /\ (c \in subs => e = seq) /\ Lists(h[c].box, Exported(s, e))
        /\ (up[c] /\ Position(c) # None => Asked(Position(c), s) = {})
    BY <1>2, <1>4 DEF Boxed
  <1>6. seq' = seq /\ up'[c] = up[c] /\ subs' = subs
        /\ \A lo, hi : Exported(lo, hi)' = Exported(lo, hi) /\ Asked(lo, hi)' = Asked(lo, hi)
    BY <1>2 DEF seq, Exported, Asked
  <1>7. up[c] => (known[c] = None => h[c].last = 0) /\ (known[c] \notin {None, 0} => h[c].last = known[c])
    BY <1>2, <1>3 DEF StreamOK, Agrees, Working
  <1> DEFINE id == Head(h[c].box)
  <1> DEFINE box == Tail(h[c].box)
  <1>8. id \in Nat /\ box \in Seq(Nat) /\ id \in Exported(s, e)
        /\ (\A x \in Exported(s, e) : id <= x) /\ Lists(box, Exported(s, e) \ {id})
    BY <1>1, <1>2, <1>5, ListTail
  <1>9. IF Wants(c, id)
        THEN Receives(c, id, Event(id)) /\ h' = [h EXCEPT ![c] = [h[c] EXCEPT !.box = box, !.last = id]]
        ELSE h' = [h EXCEPT ![c] = [h[c] EXCEPT !.box = box]] /\ UNCHANGED <<known, msg>>
    BY DEF TakeRest
  <1> HIDE DEF id, box
  <1>10. PICK z \in 0..seq : z = id
    BY <1>1, <1>8 DEF Exported
  <1>11. z > s /\ z <= e /\ z > 0 /\ Exported(z, e) = Exported(s, e) \ {id} /\ Asked(z, z) = {}
    <2>1. z > s /\ z <= e
      BY <1>1, <1>8, <1>10 DEF Exported
    <2>2. \A x : x \in z+1..e <=> x \in s+1..e /\ z < x
      BY <1>1, <2>1
    <2>3. \A x \in Exported(s, e) : z < x <=> x # id
      BY <1>1, <1>8, <1>10 DEF Exported
    <2>4. z+1..z = {}
      BY <1>1
    <2>5. QED  BY <1>1, <2>1, <2>2, <2>3, <2>4 DEF Exported, Asked
  <1>12. CASE Wants(c, id)
    <2> DEFINE g == [h[c] EXCEPT !.box = box, !.last = id]
    <2>1. h' = [h EXCEPT ![c] = g] /\ Receives(c, id, Event(id))
      BY <1>9, <1>12
    <2>2. g \in Handler /\ g.pc = "live" /\ g.base = h[c].base /\ g.box = box /\ g.last = id
      BY <1>1, <1>2, <1>8 DEF Handler
    <2> HIDE DEF g
    <2>3. Received(c, id, Event(id))
      BY <1>1, <1>3, <1>8, <2>1, ReceivesIs, EventType
    <2>4. known'[c] = (IF up[c] THEN id ELSE known[c]) /\ (known'[c] # None => known'[c] <= seq)
      BY <1>1, <1>3, <1>10, <2>3 DEF Received
    <2>5. Alone(c) /\ h'[c] = g
      <3>1. g.base <= seq
        BY <1>1, <2>2
      <3>2. up' \in [Streams -> BOOLEAN] /\ subs' \subseteq Streams /\ log' = log /\ ring' = ring /\ rev' = rev
            /\ \A d \in Streams \ {c} : up'[d] = up[d] /\ (d \in subs' => d \in subs)
        BY <1>1, <1>2
      <3>3. QED  BY <2>1, <2>2, <2>3, <2>4, <3>1, <3>2, OneHandler DEF Received
    <2>6. Resumes(c)' /\ ReplayOK(c)'
      BY <2>2, <2>5 DEF Resumes, ReplayOK
    <2>7. Agrees(c)'
      BY <1>3, <1>6, <1>8, <2>2, <2>4, <2>5 DEF Agrees
    <2>8. up[c] => Position(c)' = z
      BY <1>3, <1>10, <1>11, <2>4 DEF Position
    <2>9. Boxed(c, z, e)'
      <3>1. Lists(h'[c].box, Exported(z, e)')
        BY <1>6, <1>8, <1>11, <2>2, <2>5
      <3>2. h'[c].base <= z /\ z <= e /\ e <= seq' /\ (c \in subs' => e = seq')
        BY <1>1, <1>5, <1>6, <1>11, <2>2, <2>5
      <3>3. (h[c].pc = "live" /\ up[c] /\ Position(c) # None => Asked(Position(c), z) = {})'
        BY <1>6, <1>11, <2>8
      <3>4. (h[c].pc \in {"replay", "send"} => z = h[c].base)'
        BY <2>2, <2>5
      <3>5. QED  BY <3>1, <3>2, <3>3, <3>4 DEF Boxed
    <2>10. MailboxOK(c)'
      BY <1>6, <2>9 DEF MailboxOK
    <2>11. QED  BY <2>5, <2>6, <2>7, <2>10, AloneKeeps DEF StreamOK
  <1>13. CASE ~Wants(c, id)
    <2> DEFINE g == [h[c] EXCEPT !.box = box]
    <2>1. h' = [h EXCEPT ![c] = g] /\ known' = known /\ msg' = msg
      BY <1>9, <1>13
    <2>2. g \in Handler /\ g.pc = "live" /\ g.base = h[c].base /\ g.box = box /\ g.last = h[c].last
      BY <1>1, <1>2, <1>8 DEF Handler
    <2> HIDE DEF g
    <2>3. Alone(c) /\ h'[c] = g
      BY <1>1, <1>2, <2>1, <2>2, OneHandler
    <2>4. Resumes(c)' /\ ReplayOK(c)'
      BY <2>2, <2>3 DEF Resumes, ReplayOK
    <2>5. Agrees(c)'
      BY <1>6, <1>7, <2>1, <2>2, <2>3 DEF Agrees
    <2>6. Position(c)' = Position(c)
      BY <1>2, <1>6, <2>1, <2>2, <2>3 DEF Position
    <2>7. up[c] /\ Position(c) # None => Asked(Position(c), z) = {}
      <3> SUFFICES ASSUME up[c], Position(c) # None
                   PROVE  Asked(Position(c), z) = {}
        OBVIOUS
      <3>1. Position(c) \in Nat /\ known[c] # 0
        BY <1>1, <1>3, Positions
      <3>2. id <= h[c].last \/ log[id] # "match"
        BY <1>1, <1>8, <1>13 DEF Wants
      <3>3. id <= Position(c) \/ log[id] # "match"
        <4>1. CASE known[c] = None
          BY <1>7, <1>10, <1>11, <3>2, <4>1
        <4>2. CASE known[c] # None
          <5>1. Position(c) = known[c]
            BY <1>1, <1>3, <3>1, <4>2, Positions
          <5>2. QED  BY <1>7, <3>1, <3>2, <4>2, <5>1
        <4>3. QED  BY <4>1, <4>2
      <3>4. PICK p \in Nat : p = Position(c)
        BY <3>1
      <3>5. Asked(p, s) = {} /\ (id <= p \/ log[id] # "match")
        BY <1>5, <3>3, <3>4
      <3>6. Asked(p, id) = {}
        <4>1. s \in Nat
          BY <1>1
        <4>2. QED  BY <1>3, <1>8, <3>5, <4>1, SkipsNothing
      <3>7. QED  BY <1>10, <3>4, <3>6
    <2>8. Boxed(c, z, e)'
      <3>1. Lists(h'[c].box, Exported(z, e)')
        BY <1>6, <1>8, <1>11, <2>2, <2>3
      <3>2. h'[c].base <= z /\ z <= e /\ e <= seq' /\ (c \in subs' => e = seq')
        BY <1>1, <1>5, <1>6, <1>11, <2>2, <2>3
      <3>3. (h[c].pc = "live" /\ up[c] /\ Position(c) # None => Asked(Position(c), z) = {})'
        BY <1>6, <2>6, <2>7
      <3>4. (h[c].pc \in {"replay", "send"} => z = h[c].base)'
        BY <2>2, <2>3
      <3>5. QED  BY <3>1, <3>2, <3>3, <3>4 DEF Boxed
    <2>9. MailboxOK(c)'
      BY <1>6, <2>8 DEF MailboxOK
    <2>10. QED  BY <2>3, <2>4, <2>5, <2>9, AloneKeeps DEF StreamOK
  <1>14. QED  BY <1>12, <1>13


(* A pager reads a page.                                                   *)
PagerStart(c) == IF known[c] = None THEN 0 ELSE known[c]
LEMMA ListKeeps ==
  ASSUME RingInv, NEW c \in Pagers, ListEvents(c)
  PROVE  RingInv'
  <1>1. RingTypeOK /\ RingIsSuffix /\ Informed /\ seq \in Nat /\ None \notin Nat
        /\ known \in [Consumers -> Nat \cup {None}] /\ msg \in [Consumers -> Messages]
    BY Kept DEF RingInv, RingTypeOK, Messages
  <1>2. c \in Consumers /\ c \notin Streams
    BY <1>1, Kept
  <1>3. PICK after \in Nat : after = PagerStart(c)
    BY <1>1, <1>2 DEF PagerStart
  <1>4. PageLimit \in Nat \ {0}
    BY RingAssumption
  <1> DEFINE page == readLocked(after, PageLimit)
  <1>5. PageOf(page, after)
    BY <1>1, <1>4, PageFacts
  <1>6. /\ known' = [known EXCEPT ![c] = IF page.more /\ page.next # 0 THEN page.next ELSE None]
        /\ msg' = [msg EXCEPT ![c] = [ids |-> {page.items[k] : k \in 1..Len(page.items)}, reset |-> page.reset]]
        /\ UNCHANGED <<ring, log, subs, h, up, rev>>
    BY <1>3 DEF ListEvents, PagerStart
  <1> HIDE DEF page
  <1>7. page.more /\ page.next # 0 => page.next \in Nat /\ page.next <= seq
    <2>1. seq - ring.n \in Nat
      BY <1>1, RingFacts
    <2>2. From(after) \in Nat
      BY <2>1 DEF From
    <2>3. page.items # <<>> => page.next \in Nat /\ page.next <= seq
      BY <1>1, <1>5, <2>2 DEF PageOf, Asked
    <2>4. page.items = <<>> => ~page.more
      BY <1>5 DEF PageOf
    <2>5. QED  BY <2>3, <2>4
  <1>8. [ids |-> {page.items[k] : k \in 1..Len(page.items)}, reset |-> page.reset] \in Messages
    <2>1. page.items \in Seq(Nat) /\ page.reset \in BOOLEAN
      BY <1>5 DEF PageOf
    <2>2. {page.items[k] : k \in 1..Len(page.items)} \in SUBSET Nat
      BY <2>1
    <2>3. QED  BY <2>1, <2>2 DEF Messages
  <1>9. known' \in [Consumers -> Nat \cup {None}] /\ msg' \in [Consumers -> Messages]
        /\ (\A d \in Consumers \ {c} : known'[d] = known[d])
        /\ (known'[c] # None => known'[c] <= seq) /\ known'[c] # 0
    BY <1>1, <1>2, <1>6, <1>7, <1>8
  <1>10. RingTypeOK'
    BY <1>1, <1>6, <1>9 DEF RingTypeOK, Messages
  <1>11. Alone(c)
    BY <1>2, <1>6, <1>9, <1>10 DEF Alone
  <1>12. c \notin RestClients
    BY <1>2 DEF Streams
  <1>13. QED  BY <1>2, <1>11, <1>12, AloneKeeps

(* The ring is closed: every mailbox keeps what it has.                    *)
LEMMA CloseKeeps ==
  ASSUME RingInv, Close
  PROVE  RingInv'
  <1>1. RingTypeOK /\ RingIsSuffix /\ Informed /\ h \in [Streams -> Handler] /\ ring \in Rings
    BY DEF RingInv, RingTypeOK
  <1>2. /\ ring' = [ring EXCEPT !.closed = TRUE] /\ subs' = {}
        /\ h' = [c \in Streams |-> IF c \in subs THEN [h[c] EXCEPT !.drop = TRUE] ELSE h[c]]
        /\ UNCHANGED <<log, up, known, msg, rev>>
    BY DEF Close
  <1>3. ring' \in Rings /\ ring'.n = ring.n /\ ring'.start = ring.start /\ ring'.buf = ring.buf
    BY <1>1, <1>2 DEF Rings
  <1>4. ASSUME NEW c \in Streams
        PROVE  /\ h'[c] \in Handler /\ h'[c].pc = h[c].pc /\ h'[c].base = h[c].base
               /\ h'[c].last = h[c].last /\ h'[c].todo = h[c].todo /\ h'[c].box = h[c].box
    BY <1>1, <1>2 DEF Handler
  <1>5. RingTypeOK'
    <2>1. h' \in [Streams -> Handler]
      BY <1>2, <1>4
    <2>2. QED  BY <1>1, <1>2, <1>3, <2>1 DEF RingTypeOK
  <1>6. seq' = seq /\ \A lo, hi : Exported(lo, hi)' = Exported(lo, hi) /\ Asked(lo, hi)' = Asked(lo, hi)
    BY <1>2 DEF seq, Exported, Asked
  <1>7. RingIsSuffix'
    BY <1>1, <1>3, <1>6 DEF RingIsSuffix, Retained
  <1>8. Informed'
    BY <1>1, <1>2, <1>4, <1>6 DEF Informed
  <1>9. \A c \in Streams : Resumes(c)'
    BY <1>2, <1>4 DEF RingInv, Resumes
  <1>10. ASSUME NEW c \in RestClients
         PROVE  StreamOK(c)'
    <2>1. StreamOK(c) /\ c \in Streams
      BY DEF RingInv, Streams
    <2>2. /\ h'[c].pc = h[c].pc /\ h'[c].base = h[c].base /\ h'[c].last = h[c].last
          /\ h'[c].todo = h[c].todo /\ h'[c].box = h[c].box
          /\ known' = known /\ up' = up /\ c \notin subs'
      BY <1>2, <1>4, <2>1
    <2>3. Position(c)' = Position(c)
      BY <2>2 DEF Position
    <2>4. Agrees(c)'
      BY <2>1, <2>2 DEF StreamOK, Agrees
    <2>5. MailboxOK(c)'
      <3>1. \A s, e : Boxed(c, s, e) => Boxed(c, s, e)'
        BY <1>6, <2>2, <2>3 DEF Boxed
      <3>2. QED  BY <1>6, <2>1, <2>2, <3>1 DEF StreamOK, MailboxOK
    <2>6. ReplayOK(c)'
      <3>1. \A s, t : Replayed(c, s, t) => Replayed(c, s, t)'
        BY <1>6, <2>2 DEF Replayed
      <3>2. QED  BY <1>6, <2>1, <2>2, <3>1 DEF StreamOK, ReplayOK
    <2>7. QED  BY <2>4, <2>5, <2>6 DEF StreamOK
  <1>11. QED  BY <1>5, <1>7, <1>8, <1>9, <1>10 DEF RingInv

(* Steps that touch nothing of this.                                       *)
LEMMA StillKeeps ==
  ASSUME RingInv, UNCHANGED <<ring, log, subs, h, up, known, msg>>, rev' \in Nat
  PROVE  RingInv'
  <1>1. RingTypeOK' /\ seq' = seq /\ RingIsSuffix' /\ Informed' /\ \A c \in Streams : Resumes(c)'
    <2>1. RingTypeOK'
      BY DEF RingInv, RingTypeOK
    <2>2. seq' = seq
      BY DEF seq
    <2>3. RingIsSuffix'
      BY <2>2 DEF RingInv, RingIsSuffix, Retained
    <2>4. Informed'
      BY <2>2 DEF RingInv, Informed
    <2>5. QED  BY <2>1, <2>2, <2>3, <2>4 DEF RingInv, Resumes
  <1>2. \A c \in RestClients : StreamOK(c)'
    BY Framed DEF RingInv
  <1>3. QED  BY <1>1, <1>2 DEF RingInv

-----------------------------------------------------------------------------
(* The invariant.                                                          *)

LEMMA RingStarts == Init => RingInv
  <1> SUFFICES ASSUME Init
               PROVE  RingInv
    OBVIOUS
  <1>1. /\ ring = [buf |-> [i \in 0..Cap-1 |-> 0], start |-> 0, n |-> 0, overwritten |-> 0, closed |-> FALSE]
        /\ log = <<>> /\ subs = {} /\ h = [c \in Streams |-> NoHandler] /\ up = [c \in Streams |-> FALSE]
        /\ known = [c \in Consumers |-> None] /\ msg = [c \in Consumers |-> NoMessage] /\ rev = 1
    BY DEF Init
  <1>2. Cap \in Nat \ {0} /\ None \notin Nat /\ seq = 0
    BY <1>1, RingAssumption DEF seq
  <1>3. RingTypeOK
    <2>1. ring \in Rings
      BY <1>1, <1>2 DEF Rings
    <2>2. NoMessage \in [ids : SUBSET Nat, reset : BOOLEAN]
      BY DEF NoMessage
    <2>3. QED  BY <1>1, <2>1, <2>2, EmptyType DEF RingTypeOK
  <1>4. RingIsSuffix
    BY <1>1, <1>2 DEF RingIsSuffix
  <1>5. \A c \in Streams : h[c].pc = "none" /\ h[c].base = 0
    BY <1>1 DEF NoHandler
  <1>6. Informed
    <2>1. \A c \in Pagers : known[c] = None
      BY <1>1 DEF Consumers
    <2>2. QED  BY <1>1, <1>2, <1>5, <2>1 DEF Informed
  <1>7. \A c \in Streams : Resumes(c)
    BY <1>5 DEF Resumes
  <1>8. \A c \in RestClients : StreamOK(c)
    BY <1>5 DEF Streams, StreamOK, Agrees, MailboxOK, ReplayOK, Working
  <1>9. QED  BY <1>3, <1>4, <1>6, <1>7, <1>8 DEF RingInv

LEMMA RingSteps ==
  ASSUME RingInv, [Next]_vars
  PROVE  RingInv'
  <1>1. rev \in Nat /\ Produced \subseteq Kinds
    BY RingAssumption DEF RingInv, RingTypeOK
  <1>2. CASE UNCHANGED vars
    BY <1>1, <1>2, StillKeeps DEF vars
  <1>3. ASSUME NEW k \in Produced, Accept(k)
        PROVE  RingInv'
    <2>1. Grows(k) /\ k \in Kinds
      BY <1>1, <1>3 DEF Accept, Grows
    <2>2. QED  BY <2>1, GrowKeeps
  <1>4. CASE PublishRevision
    <2>1. CASE ring.closed \/ seq = MaxSeq
      BY <1>1, <1>4, <2>1, StillKeeps DEF PublishRevision
    <2>2. CASE ~(ring.closed \/ seq = MaxSeq)
      <3>1. Grows("other") /\ "other" \in Kinds
        BY <1>1, <1>4, <2>2 DEF PublishRevision, Grows, Kinds
      <3>2. QED  BY <3>1, GrowKeeps
    <2>3. QED  BY <2>1, <2>2
  <1>5. CASE stdoutLoop
    BY <1>1, <1>5, StillKeeps DEF stdoutLoop
  <1>6. ASSUME NEW c \in Pagers, ListEvents(c)
        PROVE  RingInv'
    BY <1>6, ListKeeps
  <1>7. ASSUME NEW c \in Streams, NEW loaded \in 1..rev, Open(c, loaded)
        PROVE  RingInv'
    BY <1>7, OpenKeeps
  <1>8. ASSUME NEW c \in Streams, StreamStep(c)
        PROVE  RingInv'
    BY <1>8, ReplayKeeps, SendKeeps, TakeKeeps, ListenKeeps, LeaveKeeps DEF StreamStep
  <1>9. ASSUME NEW c \in Streams, Tick(c) \/ HangUp(c) \/ Revoked(c)
        PROVE  RingInv'
    BY <1>9, ListenKeeps, HangUpKeeps, LeaveKeeps
  <1>10. CASE BeginShutdown
    BY <1>1, <1>10, StillKeeps DEF BeginShutdown
  <1>11. CASE Close
    BY <1>11, CloseKeeps
  <1>12. QED  BY <1>2, <1>3, <1>4, <1>5, <1>6, <1>7, <1>8, <1>9, <1>10, <1>11 DEF Next, Step

(* The ring holds the end of the log, every mailbox and every replay lists *)
(* an interval of it without a hole, and between what a client knows and   *)
(* the beginning of that interval there is nothing it asked for: Accept,   *)
(* fanoutLocked, readLocked and the loops of the SSE handler together.     *)
THEOREM RingInductive == Spec => []RingInv
  <1>1. RingInv /\ [Next]_vars => RingInv'
    BY RingSteps
  <1>2. QED  BY <1>1, RingStarts, PTL DEF Spec


-----------------------------------------------------------------------------
(* The refinement.                                                         *)

(* Nothing of the abstract log is touched but what one consumer knows and  *)
(* hears.                                                                  *)
Others(c) ==
  /\ log' = log
  /\ \A d \in Consumers \ {c} : Position(d)' = Position(d) /\ msg'[d] = msg[d]
Mutely == \A c \in Consumers : Position(c)' = Position(c) /\ msg'[c] = msg[c]

LEMMA LogStutters ==
  ASSUME log' = log, Mutely
  PROVE  UNCHANGED Log!vars
  <1>1. [c \in Consumers |-> Position(c)]' = [c \in Consumers |-> Position(c)]
    BY DEF Mutely
  <1>2. [c \in Consumers |-> msg[c].ids]' = [c \in Consumers |-> msg[c].ids]
    BY DEF Mutely
  <1>3. [c \in Consumers |-> msg[c].reset]' = [c \in Consumers |-> msg[c].reset]
    BY DEF Mutely
  <1>4. QED  BY <1>1, <1>2, <1>3 DEF Log!vars

LEMMA LogAppends ==
  ASSUME NEW k \in Kinds, log' = Append(log, k), Mutely
  PROVE  Log!Next
  <1>1. [c \in Consumers |-> Position(c)]' = [c \in Consumers |-> Position(c)]
    BY DEF Mutely
  <1>2. [c \in Consumers |-> msg[c].ids]' = [c \in Consumers |-> msg[c].ids]
    BY DEF Mutely
  <1>3. [c \in Consumers |-> msg[c].reset]' = [c \in Consumers |-> msg[c].reset]
    BY DEF Mutely
  <1>4. Log!Append1(k)
    BY <1>1, <1>2, <1>3 DEF Log!Append1
  <1>5. QED  BY <1>4 DEF Log!Next

(* What the abstract log sees of a step of one consumer.                   *)
LEMMA OneMoves ==
  ASSUME NEW c \in Consumers, Others(c)
  PROVE  /\ [d \in Consumers |-> Position(d)]' = [[d \in Consumers |-> Position(d)] EXCEPT ![c] = Position(c)']
         /\ [d \in Consumers |-> msg[d].ids]' = [[d \in Consumers |-> msg[d].ids] EXCEPT ![c] = msg'[c].ids]
         /\ [d \in Consumers |-> msg[d].reset]' = [[d \in Consumers |-> msg[d].reset] EXCEPT ![c] = msg'[c].reset]
         /\ msg'[c] = msg[c] => /\ [d \in Consumers |-> msg[d].ids]' = [d \in Consumers |-> msg[d].ids]
                                /\ [d \in Consumers |-> msg[d].reset]' = [d \in Consumers |-> msg[d].reset]
  <1>1. \A d \in Consumers : d # c => Position(d)' = Position(d) /\ msg'[d] = msg[d]
    BY DEF Others
  <1>2. [d \in Consumers |-> Position(d)]' = [[d \in Consumers |-> Position(d)] EXCEPT ![c] = Position(c)']
    BY <1>1
  <1>3. [d \in Consumers |-> msg[d].ids]' = [[d \in Consumers |-> msg[d].ids] EXCEPT ![c] = msg'[c].ids]
    BY <1>1
  <1>4. [d \in Consumers |-> msg[d].reset]' = [[d \in Consumers |-> msg[d].reset] EXCEPT ![c] = msg'[c].reset]
    BY <1>1
  <1>5. msg'[c] = msg[c] => /\ [d \in Consumers |-> msg[d].ids]' = [d \in Consumers |-> msg[d].ids]
                            /\ [d \in Consumers |-> msg[d].reset]' = [d \in Consumers |-> msg[d].reset]
    BY <1>1
  <1>6. QED  BY <1>2, <1>3, <1>4, <1>5

LEMMA LogJoins ==
  ASSUME NEW c \in Consumers, Others(c), Position(c) = None, Position(c)' = seq, msg'[c] = msg[c]
  PROVE  Log!Next
  <1>1. log' = log
    BY DEF Others
  <1>2. Log!Join(c)
    BY <1>1, OneMoves DEF Log!Join, seq
  <1>3. QED  BY <1>2 DEF Log!Next

LEMMA LogQuits ==
  ASSUME NEW c \in Consumers, Others(c), Position(c)' = None, msg'[c] = msg[c]
  PROVE  Log!Next
  <1>1. log' = log
    BY DEF Others
  <1>2. Log!Quit(c)
    BY <1>1, OneMoves DEF Log!Quit
  <1>3. QED  BY <1>2 DEF Log!Next

LEMMA LogTells ==
  ASSUME NEW c \in Consumers, Others(c), Position(c)' = None, msg'[c].ids = {}, msg'[c].reset = TRUE
  PROVE  Log!Next
  <1>1. log' = log
    BY DEF Others
  <1>2. Log!Tell(c)
    BY <1>1, OneMoves DEF Log!Tell
  <1>3. QED  BY <1>2 DEF Log!Next

LEMMA AskedIsWanted ==
  ASSUME NEW lo, NEW hi
  PROVE  Log!WantedIn(lo + 1, hi) = Asked(lo, hi)
  BY DEF Log!WantedIn, Asked

LEMMA LogExhausts ==
  ASSUME NEW c \in Consumers, Others(c), Position(c)' = None, msg'[c].ids = {}, msg'[c].reset = FALSE,
         Position(c) # None => Asked(Position(c), seq) = {}
  PROVE  Log!Next
  <1>1. log' = log
    BY DEF Others
  <1>2. Position(c) = None \/ Log!WantedIn(Position(c) + 1, Len(log)) = {}
    BY AskedIsWanted DEF seq
  <1>3. Log!Exhausted(c)
    BY <1>1, <1>2, OneMoves DEF Log!Exhausted
  <1>4. QED  BY <1>3 DEF Log!Next

(* A message with everything wanted after s and up to t.                   *)
LEMMA LogHears ==
  ASSUME NEW c \in Consumers, Others(c), seq \in Nat, NEW s \in Nat, NEW t \in Asked(s, seq),
         NEW lost \in BOOLEAN, msg'[c].ids = Asked(s, t), msg'[c].reset = lost,
         Position(c) # None => Position(c) \in Nat /\ Position(c) <= s /\ (lost \/ s = Position(c)),
         Position(c)' = t \/ (Asked(t, seq) = {} /\ Position(c)' = None)
  PROVE  Log!Next
  <1>1. log' = log
    BY DEF Others
  <1>2. t \in 1..Len(log) /\ t <= Len(log) /\ s + 1 \in 1..Len(log) /\ s + 1 <= t /\ log[t] = "match"
    BY DEF Asked, seq
  <1>3. Log!WantedIn(s + 1, t) = Asked(s, t) /\ Log!WantedIn(t + 1, Len(log)) = Asked(t, seq)
    BY AskedIsWanted DEF seq
  <1>4. Position(c) # None => s + 1 > Position(c) /\ (lost \/ s + 1 = Position(c) + 1)
    OBVIOUS
  <1>5. Log!Hear(c, s + 1, t, lost)
    BY <1>1, <1>2, <1>3, <1>4, OneMoves DEF Log!Hear
  <1>6. QED  BY <1>2, <1>5 DEF Log!Next


(* A consumer stays where it is when it learns nothing and its handler     *)
(* neither begins nor ends.                                                *)
Stays(d) ==
  /\ known'[d] = known[d]
  /\ d \in RestClients => /\ (h'[d].pc = "none") = (h[d].pc = "none")
                          /\ h'[d].base = h[d].base /\ up'[d] = up[d]
LEMMA StaysThere ==
  ASSUME NEW d \in Consumers, Stays(d)
  PROVE  Position(d)' = Position(d)
  BY DEF Stays, Position

(* A step of one stream.                                                   *)
OfOne(c) ==
  /\ log' = log
  /\ \A d \in Streams \ {c} : h'[d] = h[d] /\ up'[d] = up[d]
  /\ \A d \in Consumers \ {c} : known'[d] = known[d] /\ msg'[d] = msg[d]
LEMMA OthersStay ==
  ASSUME NEW c, OfOne(c)
  PROVE  Others(c)
  <1> SUFFICES ASSUME NEW d \in Consumers \ {c}
               PROVE  Position(d)' = Position(d) /\ msg'[d] = msg[d]
    BY DEF OfOne, Others
  <1>1. d \in RestClients => h'[d] = h[d] /\ up'[d] = up[d]
    BY DEF OfOne, Streams
  <1>2. Stays(d) /\ msg'[d] = msg[d]
    BY <1>1 DEF OfOne, Stays
  <1>3. QED  BY <1>2, StaysThere

LEMMA OneStays ==
  ASSUME NEW c, OfOne(c), c \in Consumers => Stays(c) /\ msg'[c] = msg[c]
  PROVE  UNCHANGED Log!vars
  <1>1. Others(c)
    BY OthersStay
  <1>2. c \in Consumers => Position(c)' = Position(c)
    BY StaysThere
  <1>3. Mutely /\ log' = log
    BY <1>1, <1>2 DEF Others, Mutely
  <1>4. QED  BY <1>3, LogStutters

Logged == [Log!Next]_(Log!vars)

(* Accept and PublishRevision append.                                      *)
LEMMA GrowLogs ==
  ASSUME RingInv, NEW k \in Kinds, Grows(k)
  PROVE  Log!Next
  <1>1. RingTypeOK /\ log' = Append(log, k) /\ up' = up /\ known' = known /\ msg' = msg
    BY DEF RingInv, Grows
  <1>2. ASSUME NEW c \in Consumers
        PROVE  Stays(c)
    <2>1. c \in RestClients => Fanned(c, k)
      BY <1>1, FanOut DEF Streams
    <2>2. QED  BY <1>1, <2>1 DEF Stays, Fanned
  <1>3. Mutely
    BY <1>1, <1>2, StaysThere DEF Mutely
  <1>4. QED  BY <1>1, <1>3, LogAppends

(* A handler that goes on, or out, without a word.                         *)
LEMMA QuietLogs ==
  ASSUME RingInv, NEW c \in Streams, NEW g \in Handler, h' = [h EXCEPT ![c] = g],
         g.base = h[c].base, g.pc # "none", h[c].pc # "none",
         UNCHANGED <<log, up, known, msg>>
  PROVE  Logged
  <1>1. h \in [Streams -> Handler]
    BY DEF RingInv, RingTypeOK
  <1>2. h'[c] = g /\ \A d \in Streams \ {c} : h'[d] = h[d]
    BY <1>1
  <1>3. OfOne(c) /\ Stays(c)
    BY <1>2 DEF OfOne, Stays
  <1>4. QED  BY <1>3, OneStays DEF Logged

(* A frame to a client that has hung up changes nothing, a reset frame     *)
(* tells it of a loss, and the next event is heard.                        *)
LEMMA FrameLogs ==
  ASSUME RingInv, NEW c \in RestClients, NEW g \in Handler, h' = [h EXCEPT ![c] = g],
         g.base = h[c].base, g.pc # "none", h[c].pc # "none", UNCHANGED <<log, up>>,
         NEW id \in 0..seq, NEW m \in Messages, Received(c, id, m),
         \/ id = 0 /\ m = Lost
         \/ /\ m = Event(id)
            /\ up[c] => \E s \in 0..seq :
                 /\ id \in Asked(s, seq) /\ Asked(s, id) = {id}
                 /\ Position(c) # None => s = Position(c)
  PROVE  Logged
  <1>1. h \in [Streams -> Handler] /\ RingTypeOK /\ Informed
    BY DEF RingInv, RingTypeOK
  <1>2. c \in Streams /\ c \in Consumers /\ seq \in Nat /\ None \notin Nat
    BY <1>1, Kept
  <1>3. h'[c] = g /\ \A d \in Streams \ {c} : h'[d] = h[d]
    BY <1>1, <1>2
  <1>4. OfOne(c)
    BY <1>3 DEF OfOne, Received
  <1>5. CASE ~up[c]
    <2>1. Stays(c) /\ msg'[c] = msg[c]
      BY <1>3, <1>5 DEF Stays, Received
    <2>2. QED  BY <1>4, <2>1, OneStays DEF Logged
  <1>6. CASE up[c]
    <2>1. Others(c) /\ known'[c] = id /\ msg'[c] = m
      BY <1>4, <1>6, OthersStay DEF Received
    <2>2. CASE id = 0 /\ m = Lost
      <3>1. Position(c)' = None
        BY <1>2, <2>1, <2>2 DEF Position
      <3>2. msg'[c].ids = {} /\ msg'[c].reset = TRUE
        BY <2>1, <2>2 DEF Lost
      <3>3. QED  BY <1>2, <2>1, <3>1, <3>2, LogTells DEF Logged
    <2>3. CASE ~(id = 0 /\ m = Lost)
      <3>1. m = Event(id) /\ \E s \in 0..seq : /\ id \in Asked(s, seq) /\ Asked(s, id) = {id}
                                               /\ Position(c) # None => s = Position(c)
        BY <1>6, <2>3
      <3>2. PICK s \in 0..seq : id \in Asked(s, seq) /\ Asked(s, id) = {id} /\ (Position(c) # None => s = Position(c))
        BY <3>1
      <3>3. id # 0 /\ id # None /\ s \in Nat
        BY <1>2, <3>2 DEF Asked
      <3>4. Position(c)' = id
        BY <2>1, <3>3 DEF Position
      <3>5. msg'[c].ids = Asked(s, id) /\ msg'[c].reset = FALSE
        BY <2>1, <3>1, <3>2 DEF Event
      <3>6. Position(c) # None => Position(c) \in Nat /\ Position(c) <= s /\ (FALSE \/ s = Position(c))
        BY <3>2, <3>3
      <3>7. QED  BY <1>2, <2>1, <3>2, <3>3, <3>4, <3>5, <3>6, LogHears DEF Logged
    <2>4. QED  BY <2>2, <2>3
  <1>7. QED  BY <1>5, <1>6

(* A stream opens: its client joins at the end of the log, or resumes.     *)
LEMMA OpenLogs ==
  ASSUME RingInv, NEW c \in Streams, NEW loaded, Open(c, loaded)
  PROVE  Logged
  <1>1. h \in [Streams -> Handler] /\ up \in [Streams -> BOOLEAN] /\ RingTypeOK /\ Informed /\ None \notin Nat
    BY RingAssumption DEF RingInv, RingTypeOK
  <1>2. h[c].pc = "none" /\ UNCHANGED <<log, known, msg>> /\ up' = [up EXCEPT ![c] = TRUE]
    BY DEF Open
  <1>3. (\A d \in Streams \ {c} : h'[d] = h[d] /\ up'[d] = up[d]) /\ up'[c] = TRUE
        /\ h'[c].pc \in {"replay", "live"} /\ h'[c].base = seq
    BY <1>1 DEF Open
  <1>4. OfOne(c)
    BY <1>2, <1>3 DEF OfOne
  <1>5. CASE c \notin RestClients
    <2>1. c \notin Consumers
      BY <1>5, RingAssumption DEF Consumers, Streams
    <2>2. QED  BY <1>4, <2>1, OneStays DEF Logged
  <1>6. CASE c \in RestClients /\ known[c] = None
    <2>1. Others(c) /\ c \in Consumers
      BY <1>4, <1>6, OthersStay DEF Consumers
    <2>2. Position(c) = None
      BY <1>1, <1>2, <1>6 DEF Position
    <2>3. Position(c)' = seq
      BY <1>1, <1>2, <1>3, <1>6 DEF Position
    <2>4. QED  BY <1>2, <2>1, <2>2, <2>3, LogJoins DEF Logged
  <1>7. CASE c \in RestClients /\ known[c] # None
    <2>1. Others(c) /\ c \in Consumers
      BY <1>4, <1>7, OthersStay DEF Consumers
    <2>2. Position(c)' = Position(c)
      BY <1>2, <1>7 DEF Position
    <2>3. Mutely /\ log' = log
      BY <1>2, <2>1, <2>2 DEF Others, Mutely
    <2>4. QED  BY <2>3, LogStutters DEF Logged
  <1>8. QED  BY <1>5, <1>6, <1>7

(* A client hangs up, or its handler is gone: who knew no id quits.        *)
LEMMA QuitLogs ==
  ASSUME RingInv, NEW c \in Streams, HangUp(c) \/ Release(c)
  PROVE  Logged
  <1>1. h \in [Streams -> Handler] /\ up \in [Streams -> BOOLEAN] /\ None \notin Nat
    BY RingAssumption DEF RingInv, RingTypeOK
  <1>2. UNCHANGED <<log, known, msg>> /\ up' = [up EXCEPT ![c] = FALSE]
        /\ (h' = h \/ h' = [h EXCEPT ![c] = NoHandler])
    BY DEF HangUp, Release
  <1>3. (\A d \in Streams \ {c} : h'[d] = h[d] /\ up'[d] = up[d]) /\ up'[c] = FALSE
    BY <1>1, <1>2
  <1>4. OfOne(c)
    BY <1>2, <1>3 DEF OfOne
  <1>5. CASE c \notin RestClients
    <2>1. c \notin Consumers
      BY <1>5, RingAssumption DEF Consumers, Streams
    <2>2. QED  BY <1>4, <2>1, OneStays DEF Logged
  <1>6. CASE c \in RestClients
    <2>1. Others(c) /\ c \in Consumers
      BY <1>4, <1>6, OthersStay DEF Consumers
    <2>2. CASE known[c] = None
      <3>1. Position(c)' = None
        BY <1>1, <1>2, <1>3, <2>2 DEF Position
      <3>2. QED  BY <1>2, <2>1, <3>1, LogQuits DEF Logged
    <2>3. CASE known[c] # None
      <3>1. Position(c)' = Position(c)
        BY <1>2, <2>3 DEF Position
      <3>2. Mutely /\ log' = log
        BY <1>2, <2>1, <3>1 DEF Others, Mutely
      <3>3. QED  BY <3>2, LogStutters DEF Logged
    <2>4. QED  BY <2>2, <2>3
  <1>7. QED  BY <1>5, <1>6


(* The replay: a reset frame if events were evicted.                       *)
LEMMA ReplayLogs ==
  ASSUME RingInv, NEW c \in Streams, Replay(c)
  PROVE  Logged
  <1>1. RingTypeOK /\ RingIsSuffix /\ seq \in Nat /\ h[c] \in Handler /\ h[c].last \in Nat
        /\ known \in [Consumers -> Nat \cup {None}] /\ msg \in [Consumers -> Messages]
    BY Basics
  <1>2. h[c].pc = "replay" /\ c \in RestClients /\ c \in Consumers
    BY DEF RingInv, Replay, Resumes, Consumers
  <1> DEFINE page == readLocked(h[c].last, Cap)
  <1> DEFINE g == [h[c] EXCEPT !.pc = "send", !.todo = page.items]
  <1>3. h' = [h EXCEPT ![c] = g] /\ UNCHANGED <<log, up>>
        /\ IF page.reset THEN Receives(c, 0, Lost) ELSE UNCHANGED <<known, msg>>
    BY DEF Replay
  <1>4. PageOf(page, h[c].last)
    BY <1>1, PageFacts, RingFacts
  <1> HIDE DEF page
  <1>5. page.items \in Seq(Nat)
    BY <1>4 DEF PageOf
  <1>6. g \in Handler /\ g.pc = "send" /\ g.base = h[c].base
    BY <1>1, <1>5 DEF Handler
  <1> HIDE DEF g
  <1>7. CASE page.reset
    <2>1. Received(c, 0, Lost)
      BY <1>1, <1>2, <1>3, <1>7, ReceivesIs, LostType
    <2>2. 0 \in 0..seq
      BY <1>1
    <2>3. QED  BY <1>2, <1>3, <1>6, <2>1, <2>2, FrameLogs, LostType
  <1>8. CASE ~page.reset
    BY <1>2, <1>3, <1>6, <1>8, QuietLogs
  <1>9. QED  BY <1>7, <1>8

(* The next event of the replay.                                           *)
LEMMA SendLogs ==
  ASSUME RingInv, NEW c \in Streams, SendReplay(c)
  PROVE  Logged
  <1>1. RingTypeOK /\ Informed /\ seq \in Nat /\ h[c] \in Handler /\ h[c].todo \in Seq(Nat)
        /\ known \in [Consumers -> Nat \cup {None}] /\ msg \in [Consumers -> Messages]
    BY Basics
  <1>2. h[c].pc = "send" /\ c \in RestClients /\ c \in Consumers /\ known[c] # None /\ StreamOK(c)
        /\ UNCHANGED <<log, up>>
    BY DEF RingInv, SendReplay, Resumes, Consumers
  <1>3. CASE h[c].todo = <<>>
    <2> DEFINE g == [h[c] EXCEPT !.pc = "live"]
    <2>1. h' = [h EXCEPT ![c] = g] /\ known' = known /\ msg' = msg
      BY <1>3 DEF SendReplay
    <2>2. g \in Handler /\ g.pc = "live" /\ g.base = h[c].base
      BY <1>1 DEF Handler
    <2> HIDE DEF g
    <2>3. QED  BY <1>2, <2>1, <2>2, QuietLogs
  <1>4. CASE h[c].todo # <<>>
    <2>1. PICK s \in 0..seq, t \in 0..seq : Replayed(c, s, t)
      BY <1>2 DEF StreamOK, ReplayOK
    <2> DEFINE id == Head(h[c].todo)
    <2> DEFINE g == [h[c] EXCEPT !.last = id, !.todo = Tail(h[c].todo)]
    <2>2. h' = [h EXCEPT ![c] = g] /\ Receives(c, id, Event(id))
      BY <1>4 DEF SendReplay
    <2>3. id \in Nat /\ Tail(h[c].todo) \in Seq(Nat) /\ id \in Asked(s, t) /\ \A x \in Asked(s, t) : id <= x
      <3>1. Lists(h[c].todo, Asked(s, t))
        BY <2>1 DEF Replayed
      <3>2. QED  BY <1>1, <1>4, <3>1, ListTail
    <2>4. g \in Handler /\ g.pc = "send" /\ g.base = h[c].base
      BY <1>1, <1>2, <2>3 DEF Handler
    <2> HIDE DEF g, id
    <2>5. Received(c, id, Event(id)) /\ Event(id) \in Messages
      BY <1>1, <1>2, <2>2, <2>3, ReceivesIs, EventType
    <2>6. id \in 0..seq /\ id \in Asked(s, seq) /\ Asked(s, id) = {id}
      <3>1. id \in s+1..t /\ log[id] = "match"
        BY <2>3 DEF Asked
      <3>2. id \in 0..seq /\ id \in s+1..seq /\ id \in s+1..id
        BY <1>1, <3>1
      <3>3. \A x \in Asked(s, id) : x \in Asked(s, t) /\ x \in Int /\ x <= id
        BY <1>1, <3>1 DEF Asked
      <3>4. \A x \in Asked(s, id) : x = id
        BY <2>3, <3>3
      <3>5. QED  BY <3>1, <3>2, <3>4 DEF Asked
    <2>7. up[c] /\ Position(c) # None => s = Position(c)
      <3>1. Position(c) # None => known[c] # 0 /\ Position(c) = known[c]
        BY <1>1, <1>2, Positions
      <3>2. QED  BY <2>1, <3>1 DEF Replayed
    <2>8. QED  BY <1>2, <2>2, <2>4, <2>5, <2>6, <2>7, FrameLogs
  <1>5. QED  BY <1>3, <1>4

(* The next event of the mailbox.                                          *)
LEMMA TakeLogs ==
  ASSUME RingInv, NEW c \in Streams, TakeRest(c)
  PROVE  Logged
  <1>1. RingTypeOK /\ Informed /\ seq \in Nat /\ h[c] \in Handler /\ h[c].box \in Seq(Nat) /\ h[c].last \in Nat
        /\ known \in [Consumers -> Nat \cup {None}] /\ msg \in [Consumers -> Messages]
        /\ h[c].base \in Nat
    BY Basics
  <1>2. c \in RestClients /\ h[c].pc = "live" /\ h[c].box # <<>> /\ UNCHANGED <<log, up>>
    BY DEF TakeRest
  <1>3. c \in Consumers /\ StreamOK(c) /\ log \in Seq(Kinds) /\ None \notin Nat
    BY <1>1, <1>2, RingAssumption DEF RingInv, Consumers, RingTypeOK
  <1>4. PICK s \in 0..seq, e \in 0..seq : Boxed(c, s, e)
    BY <1>2, <1>3 DEF StreamOK, MailboxOK, Working
  <1>5. h[c].base <= s /\ Lists(h[c].box, Exported(s, e))
        /\ (up[c] /\ Position(c) # None => Asked(Position(c), s) = {})
    BY <1>2, <1>4 DEF Boxed
  <1> DEFINE id == Head(h[c].box)
  <1> DEFINE box == Tail(h[c].box)
  <1>6. id \in Nat /\ box \in Seq(Nat) /\ id \in Exported(s, e) /\ \A x \in Exported(s, e) : id <= x
    BY <1>1, <1>2, <1>5, ListTail
  <1>7. IF Wants(c, id)
        THEN Receives(c, id, Event(id)) /\ h' = [h EXCEPT ![c] = [h[c] EXCEPT !.box = box, !.last = id]]
        ELSE h' = [h EXCEPT ![c] = [h[c] EXCEPT !.box = box]] /\ UNCHANGED <<known, msg>>
    BY DEF TakeRest
  <1> HIDE DEF id, box
  <1>8. CASE ~Wants(c, id)
    <2> DEFINE g == [h[c] EXCEPT !.box = box]
    <2>1. h' = [h EXCEPT ![c] = g] /\ known' = known /\ msg' = msg
      BY <1>7, <1>8
    <2>2. g \in Handler /\ g.pc = "live" /\ g.base = h[c].base
      BY <1>1, <1>2, <1>6 DEF Handler
    <2> HIDE DEF g
    <2>3. QED  BY <1>2, <2>1, <2>2, QuietLogs
  <1>9. CASE Wants(c, id)
    <2> DEFINE g == [h[c] EXCEPT !.box = box, !.last = id]
    <2>1. h' = [h EXCEPT ![c] = g] /\ Receives(c, id, Event(id))
      BY <1>7, <1>9
    <2>2. g \in Handler /\ g.pc = "live" /\ g.base = h[c].base
      BY <1>1, <1>2, <1>6 DEF Handler
    <2> HIDE DEF g
    <2>3. Received(c, id, Event(id)) /\ Event(id) \in Messages
      BY <1>1, <1>3, <1>6, <2>1, ReceivesIs, EventType
    <2>4. id \in s+1..e /\ log[id] = "match" /\ id > h[c].last
      BY <1>6, <1>9 DEF Wants, Exported
    <2>5. id \in 0..seq /\ id > 0 /\ id > s
      BY <1>1, <2>4
    (* Nothing else is wanted between the position and this event.         *)
    <2>6. ASSUME NEW p \in 0..seq, p < id, Asked(p, s) = {}
          PROVE  id \in Asked(p, seq) /\ Asked(p, id) = {id}
      <3>1. id \in p+1..seq /\ id \in p+1..id
        BY <1>1, <2>5, <2>6
      <3>2. ASSUME NEW x \in Asked(p, id), x # id
            PROVE  FALSE
        <4>1. x \in p+1..id /\ log[x] = "match"
          BY DEF Asked
        <4>2. CASE x <= s
          <5>1. x \in p+1..s
            BY <1>1, <4>1, <4>2
          <5>2. QED  BY <2>6, <4>1, <5>1 DEF Asked
        <4>3. CASE x > s
          <5>1. x \in s+1..e /\ x < id
            BY <1>1, <2>4, <3>2, <4>1, <4>3
          <5>2. x \in Exported(s, e)
            BY <4>1, <5>1 DEF Exported
          <5>3. QED  BY <1>6, <4>1, <5>1, <5>2
        <4>4. QED  BY <1>1, <4>1, <4>2, <4>3
      <3>3. QED  BY <2>4, <3>1, <3>2 DEF Asked
    <2>7. ASSUME up[c]
          PROVE  \E p \in 0..seq : /\ id \in Asked(p, seq) /\ Asked(p, id) = {id}
                                   /\ Position(c) # None => p = Position(c)
      <3>1. CASE Position(c) = None
        <4>1. Asked(s, s) = {}
          BY <1>1 DEF Asked
        <4>2. s < id
          BY <1>1, <2>5
        <4>3. QED  BY <2>6, <3>1, <4>1, <4>2
      <3>2. CASE Position(c) # None
        <4>1. Position(c) \in 0..seq /\ known[c] # 0
          BY <1>1, <1>3, <3>2, Positions
        <4>2. Position(c) < id
          <5>1. CASE known[c] = None
            <6>1. Position(c) = h[c].base
              BY <1>1, <1>2, <1>3, <2>7, <5>1, Positions
            <6>2. QED  BY <1>1, <1>5, <2>5, <6>1
          <5>2. CASE known[c] # None
            <6>1. Position(c) = known[c]
              BY <1>1, <1>3, <4>1, <5>2, Positions
            <6>2. h[c].last = known[c]
              BY <1>2, <1>3, <2>7, <4>1, <5>2 DEF StreamOK, Agrees, Working
            <6>3. QED  BY <1>1, <2>4, <6>1, <6>2
          <5>3. QED  BY <5>1, <5>2
        <4>3. Asked(Position(c), s) = {}
          BY <1>5, <2>7, <3>2
        <4>4. QED  BY <2>6, <4>1, <4>2, <4>3
      <3>3. QED  BY <3>1, <3>2
    <2>8. QED  BY <1>2, <2>1, <2>2, <2>3, <2>5, <2>7, FrameLogs
  <1>10. QED  BY <1>8, <1>9

(* The mailbox overflowed or the ring was closed: the client is told.      *)
LEMMA DropLogs ==
  ASSUME RingInv, NEW c \in Streams, Dropped(c) \/ SeesEnd(c) \/ Revoked(c) \/ Detach(c)
  PROVE  Logged
  <1>1. RingTypeOK /\ seq \in Nat /\ h[c] \in Handler
        /\ known \in [Consumers -> Nat \cup {None}] /\ msg \in [Consumers -> Messages]
    BY Basics
  <1> DEFINE g == [h[c] EXCEPT !.pc = "detach"]
  <1> DEFINE f == [h[c] EXCEPT !.pc = "release"]
  <1>2. g \in Handler /\ g.pc = "detach" /\ g.base = h[c].base
        /\ f \in Handler /\ f.pc = "release" /\ f.base = h[c].base
    BY <1>1 DEF Handler
  <1>3. CASE Dropped(c) /\ c \in RestClients
    <2>1. h' = [h EXCEPT ![c] = g] /\ h[c].pc = "live" /\ Receives(c, 0, Lost) /\ UNCHANGED <<log, up>>
      BY <1>3 DEF Dropped
    <2> HIDE DEF g
    <2>2. c \in Consumers /\ 0 \in 0..seq
      BY <1>1, <1>3 DEF Consumers
    <2>3. Received(c, 0, Lost)
      BY <1>1, <2>1, <2>2, ReceivesIs, LostType
    <2>4. QED  BY <1>2, <1>3, <2>1, <2>2, <2>3, FrameLogs, LostType
  <1>4. CASE (Dropped(c) /\ c \notin RestClients) \/ SeesEnd(c) \/ Revoked(c)
    <2>1. h' = [h EXCEPT ![c] = g] /\ h[c].pc # "none" /\ UNCHANGED <<log, up, known, msg>>
      BY <1>4 DEF Dropped, SeesEnd, Revoked
    <2> HIDE DEF g
    <2>2. QED  BY <1>2, <2>1, QuietLogs
  <1>5. CASE Detach(c)
    <2>1. h' = [h EXCEPT ![c] = f] /\ h[c].pc # "none" /\ UNCHANGED <<log, up, known, msg>>
      BY <1>5 DEF Detach
    <2> HIDE DEF f
    <2>2. QED  BY <1>2, <2>1, QuietLogs
  <1>6. QED  BY <1>3, <1>4, <1>5

LEMMA ListenLogs ==
  ASSUME RingInv, NEW c \in Streams, TakeMcp(c) \/ Tick(c)
  PROVE  Logged
  <1>1. h \in [Streams -> Handler] /\ c \notin Consumers
    BY RingAssumption DEF RingInv, RingTypeOK, TakeMcp, Tick, Consumers, Streams
  <1>2. UNCHANGED <<log, up, known, msg>> /\ \A d \in Streams \ {c} : h'[d] = h[d]
    BY <1>1 DEF TakeMcp, Tick
  <1>3. OfOne(c)
    BY <1>2 DEF OfOne
  <1>4. QED  BY <1>1, <1>3, OneStays DEF Logged

(* A page of a pager.                                                      *)
LEMMA ListLogs ==
  ASSUME RingInv, NEW c \in Pagers, ListEvents(c)
  PROVE  Logged
  <1>1. RingTypeOK /\ RingIsSuffix /\ Informed /\ seq \in Nat /\ None \notin Nat
        /\ known \in [Consumers -> Nat \cup {None}] /\ msg \in [Consumers -> Messages]
    BY Kept DEF RingInv, RingTypeOK, Messages
  <1>2. c \in Consumers /\ c \notin Streams /\ c \notin RestClients
    BY <1>1, Kept DEF Streams
  <1>3. PICK after \in Nat : after = PagerStart(c)
    BY <1>1, <1>2 DEF PagerStart
  <1>4. PageLimit \in Nat \ {0}
    BY RingAssumption
  <1> DEFINE page == readLocked(after, PageLimit)
  <1> DEFINE ids == {page.items[k] : k \in 1..Len(page.items)}
  <1>5. PageOf(page, after)
    BY <1>1, <1>4, PageFacts
  <1>6. /\ known' = [known EXCEPT ![c] = IF page.more /\ page.next # 0 THEN page.next ELSE None]
        /\ msg' = [msg EXCEPT ![c] = [ids |-> ids, reset |-> page.reset]]
        /\ UNCHANGED <<ring, log, subs, h, up, rev>>
    BY <1>3 DEF ListEvents, PagerStart
  <1> HIDE DEF page, ids
  <1>7. /\ known'[c] = (IF page.more /\ page.next # 0 THEN page.next ELSE None)
        /\ msg'[c].ids = ids /\ msg'[c].reset = page.reset
        /\ \A d \in Consumers \ {c} : known'[d] = known[d] /\ msg'[d] = msg[d]
    BY <1>1, <1>2, <1>6
  <1>8. Others(c)
    <2>1. OfOne(c)
      BY <1>6, <1>7 DEF OfOne
    <2>2. QED  BY <2>1, OthersStay
  <1>9. Position(c) # None => Position(c) = after /\ after > 0
    <2>1. Position(c) = known[c] /\ known[c] # 0
      BY <1>1, <1>2, Positions DEF Informed
    <2>2. QED  BY <1>1, <1>2, <1>3, <2>1 DEF PagerStart
  <1>10. known'[c] # 0 => Position(c)' = known'[c]
    BY <1>2 DEF Position
  <1>11. seq - ring.n \in Nat
    BY <1>1, RingFacts
  <1>12. From(after) \in Nat /\ From(after) >= after /\ (page.reset \/ after = 0 \/ From(after) = after)
         /\ page.reset \in BOOLEAN
    <2>1. page.reset = (after > 0 /\ after < seq - ring.n)
      BY <1>5 DEF PageOf
    <2>2. From(after) \in Nat /\ From(after) >= after
      BY <1>11 DEF From
    <2>3. after > 0 /\ ~(after < seq - ring.n) => From(after) = after
      BY <1>11 DEF From
    <2>4. page.reset \in BOOLEAN
      BY <2>1
    <2>5. CASE after = 0
      BY <2>2, <2>4, <2>5
    <2>6. CASE after > 0
      BY <2>1, <2>2, <2>3, <2>4, <2>6
    <2>7. QED  BY <2>5, <2>6
  <1>13. CASE page.items = <<>>
    <2>1. Asked(From(after), seq) = {} /\ page.more = FALSE
      BY <1>5, <1>13 DEF PageOf
    <2>2. ids = {}
      BY <1>13 DEF ids
    <2>3. Position(c)' = None
      BY <1>1, <1>7, <1>10, <2>1
    <2>4. CASE page.reset
      BY <1>2, <1>7, <1>8, <2>2, <2>3, <2>4, LogTells DEF Logged
    <2>5. CASE ~page.reset
      <3>1. Position(c) # None => Asked(Position(c), seq) = {}
        BY <1>9, <1>12, <2>1, <2>5
      <3>2. page.reset = FALSE
        BY <1>12, <2>5
      <3>3. QED  BY <1>2, <1>7, <1>8, <2>2, <2>3, <3>1, <3>2, LogExhausts DEF Logged
    <2>6. QED  BY <2>4, <2>5
  <1>14. CASE page.items # <<>>
    <2>1. page.items \in Seq(Nat) /\ page.next \in Asked(From(after), seq)
          /\ Lists(page.items, Asked(From(after), page.next)) /\ page.more = (Asked(page.next, seq) # {})
      BY <1>5, <1>14 DEF PageOf
    <2>2. PICK s \in Nat : s = From(after)
      BY <1>12
    <2>3. PICK t \in Asked(s, seq) : t = page.next
      BY <2>1, <2>2
    <2>4. t \in Nat /\ t # 0
      BY <1>1, <2>3 DEF Asked
    <2>5. ids = Asked(s, t)
      <3>1. Lists(page.items, Asked(s, t))
        BY <2>1, <2>2, <2>3
      <3>2. QED  BY <3>1 DEF Lists, ids
    <2>6. Position(c)' = t \/ (Asked(t, seq) = {} /\ Position(c)' = None)
      <3>1. CASE Asked(t, seq) = {}
        <4>1. ~page.more
          BY <2>1, <2>3, <3>1
        <4>2. known'[c] = None /\ None # 0
          BY <1>1, <1>7, <4>1
        <4>3. QED  BY <1>10, <3>1, <4>2
      <3>2. CASE Asked(t, seq) # {}
        <4>1. page.more
          BY <2>1, <2>3, <3>2
        <4>2. known'[c] = t
          BY <1>7, <2>3, <2>4, <4>1
        <4>3. QED  BY <1>10, <2>4, <4>2
      <3>3. QED  BY <3>1, <3>2
    <2>7. Position(c) # None => Position(c) \in Nat /\ Position(c) <= s /\ (page.reset \/ s = Position(c))
      BY <1>9, <1>12, <2>2
    <2>8. msg'[c].ids = Asked(s, t) /\ msg'[c].reset = page.reset
      BY <1>7, <2>5
    <2>9. QED  BY <1>1, <1>2, <1>8, <1>12, <2>6, <2>7, <2>8, LogHears DEF Logged
  <1>15. QED  BY <1>13, <1>14

LEMMA StillLogs ==
  ASSUME UNCHANGED <<log, up, known, msg>>,
         \A c \in Streams : h'[c].pc = h[c].pc /\ h'[c].base = h[c].base
  PROVE  Logged
  <1>1. \A c \in Consumers : Stays(c)
    BY DEF Stays, Streams
  <1>2. Mutely
    BY <1>1, StaysThere DEF Mutely
  <1>3. QED  BY <1>2, LogStutters DEF Logged

LEMMA LogSteps ==
  ASSUME RingInv, [Next]_vars
  PROVE  Logged
  <1>1. rev \in Nat /\ Produced \subseteq Kinds /\ h \in [Streams -> Handler]
    BY RingAssumption DEF RingInv, RingTypeOK
  <1>2. CASE UNCHANGED vars
    BY <1>2, StillLogs DEF vars
  <1>3. ASSUME NEW k \in Produced, Accept(k)
        PROVE  Logged
    <2>1. Grows(k) /\ k \in Kinds
      BY <1>1, <1>3 DEF Accept, Grows
    <2>2. QED  BY <2>1, GrowLogs DEF Logged
  <1>4. CASE PublishRevision
    <2>1. CASE ring.closed \/ seq = MaxSeq
      BY <1>4, <2>1, StillLogs DEF PublishRevision
    <2>2. CASE ~(ring.closed \/ seq = MaxSeq)
      <3>1. Grows("other") /\ "other" \in Kinds
        BY <1>1, <1>4, <2>2 DEF PublishRevision, Grows, Kinds
      <3>2. QED  BY <3>1, GrowLogs DEF Logged
    <2>3. QED  BY <2>1, <2>2
  <1>5. CASE stdoutLoop \/ BeginShutdown
    BY <1>5, StillLogs DEF stdoutLoop, BeginShutdown
  <1>6. ASSUME NEW c \in Pagers, ListEvents(c)
        PROVE  Logged
    BY <1>6, ListLogs
  <1>7. ASSUME NEW c \in Streams, NEW loaded \in 1..rev, Open(c, loaded)
        PROVE  Logged
    BY <1>7, OpenLogs
  <1>8. ASSUME NEW c \in Streams, StreamStep(c)
        PROVE  Logged
    BY <1>8, ReplayLogs, SendLogs, TakeLogs, ListenLogs, DropLogs, QuitLogs DEF StreamStep
  <1>9. ASSUME NEW c \in Streams, Tick(c) \/ HangUp(c) \/ Revoked(c)
        PROVE  Logged
    BY <1>9, ListenLogs, QuitLogs, DropLogs
  <1>10. CASE Close
    <2>1. UNCHANGED <<log, up, known, msg>>
          /\ h' = [c \in Streams |-> IF c \in subs THEN [h[c] EXCEPT !.drop = TRUE] ELSE h[c]]
      BY <1>10 DEF Close
    <2>2. \A c \in Streams : h'[c].pc = h[c].pc /\ h'[c].base = h[c].base
      BY <1>1, <2>1 DEF Handler
    <2>3. QED  BY <2>1, <2>2, StillLogs
  <1>11. QED  BY <1>2, <1>3, <1>4, <1>5, <1>6, <1>7, <1>8, <1>9, <1>10 DEF Next, Step

LEMMA LogStarts == Init => Log!Init
  <1> SUFFICES ASSUME Init
               PROVE  Log!Init
    OBVIOUS
  <1>1. log = <<>> /\ known = [c \in Consumers |-> None] /\ msg = [c \in Consumers |-> NoMessage]
        /\ h = [c \in Streams |-> NoHandler] /\ None \notin Nat
    BY RingAssumption DEF Init
  <1>2. ASSUME NEW c \in Consumers
        PROVE  Position(c) = None /\ msg[c].ids = {} /\ msg[c].reset = FALSE
    <2>1. c \in RestClients => h[c].pc = "none"
      BY <1>1 DEF Streams, NoHandler
    <2>2. Position(c) = None
      BY <1>1, <2>1 DEF Position
    <2>3. QED  BY <1>1, <2>2 DEF NoMessage
  <1>3. QED  BY <1>1, <1>2 DEF Log!Init

(* Whatever the sizes of the ring, of the mailboxes and of a page, and     *)
(* whoever is overtaken, dropped, hung up on or resumes: every consumer    *)
(* hears the log in order and without a hole, or is told that it lost some *)
(* (Accept, readLocked, serveEvents and handleListEvents implement it).    *)
THEOREM RingImplementsLog == Spec => ImplementsLog
  <1>1. RingInv /\ [Next]_vars => [Log!Next]_(Log!vars)
    BY LogSteps DEF Logged
  <1>2. QED  BY <1>1, LogStarts, RingInductive, PTL DEF Spec, ImplementsLog, Log!Spec

=============================================================================
