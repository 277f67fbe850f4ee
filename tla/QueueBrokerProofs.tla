------------------------- MODULE QueueBrokerProofs -------------------------
(***************************************************************************)
(* Proofs about QueueBroker, for any messages, queues, consumers, dead     *)
(* letter queues, batch sizes, limits of retries and flushes in progress.  *)
(***************************************************************************)
EXTENDS QueueBroker, FiniteSetTheorems, WellFoundedInduction, TLAPS

-----------------------------------------------------------------------------
(* Sums of sizes.  The provers cannot instantiate the library's induction  *)
(* rules; each induction below is an argument by a least counterexample.   *)

(* A set of natural numbers that is not empty has a least member.          *)
LEMMA LeastNatural ==
    ASSUME NEW T \in SUBSET Nat, T # {}
    PROVE  \E n \in T : \A k \in T : n <= k
<1> DEFINE R == OpToRel(<, Nat)
<1>1. IsWellFoundedOn(R, Nat)
  BY NatLessThanWellFounded
<1>2. \A k, n \in Nat : <<k, n>> \in R <=> k < n
  BY DEF OpToRel
<1> HIDE DEF R
<1>3. PICK n \in T : \A k \in T : ~ (<<k, n>> \in R)
  BY <1>1, WFMin
<1>4. \A k \in T : k \in Nat /\ n \in Nat /\ ~ (k < n)
  BY <1>2, <1>3
<1> QED BY <1>4

(* g has the sums of the sizes of the first entries of s, up to k.         *)
SumTo(g, s, k) == g = [n \in 0..k |-> IF n = 0 THEN 0 ELSE g[n - 1] + Bytes[s[n]]]

LEMMA SumStep ==
    ASSUME NEW g, NEW s, NEW k \in Nat, SumTo(g, s, k)
    PROVE  g[0] = 0 /\ \A n \in 1..k : g[n] = g[n - 1] + Bytes[s[n]]
<1>1. \A n \in 0..k : g[n] = IF n = 0 THEN 0 ELSE g[n - 1] + Bytes[s[n]]
  BY Zenon DEF SumTo
<1> QED BY <1>1

LEMMA SumExists ==
    ASSUME NEW s
    PROVE  \A k \in Nat : \E g : SumTo(g, s, k)
<1> DEFINE T == {k \in Nat : ~ \E g : SumTo(g, s, k)}
<1> SUFFICES ASSUME T # {} PROVE FALSE
  OBVIOUS
<1>1. PICK k \in T : \A j \in T : k <= j
  <2>1. T \in SUBSET Nat
    OBVIOUS
  <2> HIDE DEF T
  <2> QED BY <2>1, LeastNatural
<1>2. SumTo([n \in 0..0 |-> 0], s, 0)
  BY DEF SumTo
<1>3. k # 0 /\ k - 1 \in Nat /\ k - 1 \notin T
  BY <1>1, <1>2
<1>4. PICK g : SumTo(g, s, k - 1)
  BY <1>3
<1> DEFINE h == [n \in 0..k |-> IF n = 0 THEN 0 ELSE g[n - 1] + Bytes[s[n]]]
<1>5. \A n \in 0..(k - 1) : h[n] = g[n]
  BY <1>3, <1>4 DEF SumTo
<1>6. \A n \in 0..k : h[n] = IF n = 0 THEN 0 ELSE h[n - 1] + Bytes[s[n]]
  <2> SUFFICES ASSUME NEW n \in 0..k, n # 0 PROVE h[n] = h[n - 1] + Bytes[s[n]]
    BY <1>3
  <2>1. h[n] = g[n - 1] + Bytes[s[n]]
    OBVIOUS
  <2>2. n - 1 \in 0..(k - 1)
    BY <1>3
  <2> HIDE DEF h
  <2> QED BY <1>5, <2>1, <2>2
<1>7. SumTo(h, s, k)
  BY <1>6 DEF SumTo
<1> QED BY <1>1, <1>7

(* What BytesOf is.                                                        *)
LEMMA BytesOfIsSum ==
    ASSUME NEW s \in Seq(Messages)
    PROVE  \E g : SumTo(g, s, Len(s)) /\ BytesOf(s) = g[Len(s)]
<1>1. PICK g : SumTo(g, s, Len(s))
  BY SumExists
<1> DEFINE sum == CHOOSE h : h = [n \in 0..Len(s) |->
                                    IF n = 0 THEN 0 ELSE h[n - 1] + Bytes[s[n]]]
<1>2. SumTo(sum, s, Len(s))
  BY <1>1, Zenon DEF SumTo
<1>3. BytesOf(s) = sum[Len(s)]
  BY Zenon DEF BytesOf
<1> QED BY <1>2, <1>3

(* The sums of a part of s are differences of the sums of s.               *)
PartAt(t, s, a) ==
    a + Len(t) <= Len(s) /\ \A n \in 1..Len(t) : t[n] = s[a + n]

LEMMA ShiftedSums ==
    ASSUME NEW s \in Seq(Messages), NEW t \in Seq(Messages),
           NEW a \in Nat, PartAt(t, s, a),
           NEW g, SumTo(g, s, Len(s)), NEW h, SumTo(h, t, Len(t)), g[a] \in Nat
    PROVE  \A n \in 0..Len(t) : h[n] \in Nat /\ g[a + n] = g[a] + h[n]
<1>1. Len(s) \in Nat /\ Len(t) \in Nat
  OBVIOUS
<1>2. g[0] = 0 /\ \A n \in 1..Len(s) : g[n] = g[n - 1] + Bytes[s[n]]
  BY <1>1, SumStep
<1>3. h[0] = 0 /\ \A n \in 1..Len(t) : h[n] = h[n - 1] + Bytes[t[n]]
  BY <1>1, SumStep
<1> DEFINE Good(n) == h[n] \in Nat /\ g[a + n] = g[a] + h[n]
<1>4. Good(0)
  BY <1>3
<1>5. ASSUME NEW n \in 1..Len(t), Good(n - 1) PROVE Good(n)
  <2>1. t[n] \in Messages /\ Bytes[t[n]] \in Nat /\ t[n] = s[a + n]
    BY LimitAssumption DEF PartAt
  <2>2. h[n] = h[n - 1] + Bytes[t[n]]
    BY <1>3
  <2>3. a + n \in 1..Len(s) /\ (a + n) - 1 = a + (n - 1)
    BY <1>1 DEF PartAt
  <2>4. g[a + n] = g[a + (n - 1)] + Bytes[t[n]]
    BY <1>2, <2>1, <2>3
  <2>5. h[n - 1] \in Nat /\ g[a + (n - 1)] = g[a] + h[n - 1]
    BY <1>5
  <2> QED BY <2>1, <2>2, <2>4, <2>5
<1> DEFINE T == {n \in 0..Len(t) : ~ Good(n)}
<1> HIDE DEF Good
<1> SUFFICES ASSUME T # {} PROVE FALSE
  BY DEF Good
<1>6. PICK k \in T : \A j \in T : k <= j
  <2>1. T \in SUBSET Nat
    OBVIOUS
  <2> HIDE DEF T
  <2> QED BY <2>1, LeastNatural
<1>7. k \in 1..Len(t) /\ k - 1 \in 0..Len(t)
  BY <1>1, <1>4, <1>6
<1>8. k - 1 \notin T
  BY <1>6, <1>7
<1> QED BY <1>5, <1>7, <1>8

(* The sums of a sequence start at 0 and are numbers.                      *)
LEMMA SumsAreNumbers ==
    ASSUME NEW s \in Seq(Messages), NEW g, SumTo(g, s, Len(s))
    PROVE  g[0] = 0 /\ \A n \in 0..Len(s) : g[n] \in Nat
<1>1. g[0] = 0
  BY SumStep
<1>2. \A n \in 0..Len(s) : g[n] \in Nat /\ g[0 + n] = g[0] + g[n]
  <2>1. PartAt(s, s, 0)
    BY DEF PartAt
  <2> QED BY <1>1, <2>1, ShiftedSums
<1> QED BY <1>1, <1>2

LEMMA BytesOfNumber == \A s \in Seq(Messages) : BytesOf(s) \in Nat
<1> SUFFICES ASSUME NEW s \in Seq(Messages) PROVE BytesOf(s) \in Nat
  OBVIOUS
<1>1. PICK g : SumTo(g, s, Len(s)) /\ BytesOf(s) = g[Len(s)]
  BY BytesOfIsSum
<1> QED BY <1>1, SumsAreNumbers

LEMMA BytesOfEmpty == BytesOf(<<>>) = 0
<1> DEFINE s == <<>>
<1>1. s \in Seq(Messages) /\ Len(s) = 0
  OBVIOUS
<1> HIDE DEF s
<1>2. PICK g : SumTo(g, s, Len(s)) /\ BytesOf(s) = g[Len(s)]
  BY <1>1, BytesOfIsSum
<1> QED BY <1>1, <1>2, SumsAreNumbers DEF s

LEMMA BytesOfAppend ==
    ASSUME NEW s \in Seq(Messages), NEW m \in Messages
    PROVE  BytesOf(Append(s, m)) = BytesOf(s) + Bytes[m]
<1> DEFINE t == Append(s, m)
<1>1. /\ t \in Seq(Messages) /\ Len(t) = Len(s) + 1 /\ t[Len(s) + 1] = m
      /\ PartAt(s, t, 0)
  BY DEF PartAt
<1> HIDE DEF t
<1>2. PICK g : SumTo(g, t, Len(t)) /\ BytesOf(t) = g[Len(t)]
  BY <1>1, BytesOfIsSum
<1>3. PICK h : SumTo(h, s, Len(s)) /\ BytesOf(s) = h[Len(s)]
  BY BytesOfIsSum
<1>4. g[0] = 0
  BY <1>1, <1>2, SumsAreNumbers
<1>5. \A n \in 0..Len(s) : h[n] \in Nat /\ g[0 + n] = g[0] + h[n]
  BY <1>1, <1>2, <1>3, <1>4, ShiftedSums
<1>6. g[Len(s)] = h[Len(s)]
  BY <1>4, <1>5
<1>7. g[Len(s) + 1] = g[Len(s)] + Bytes[m]
  BY <1>1, <1>2, SumStep
<1> QED BY <1>1, <1>2, <1>3, <1>6, <1>7 DEF t

LEMMA BytesOfSplit ==
    ASSUME NEW s \in Seq(Messages), NEW k \in 0..Len(s)
    PROVE  BytesOf(s) = BytesOf(SubSeq(s, 1, k)) + BytesOf(SubSeq(s, k + 1, Len(s)))
<1> DEFINE t == SubSeq(s, 1, k) u == SubSeq(s, k + 1, Len(s))
<1>1. /\ t \in Seq(Messages) /\ Len(t) = k /\ PartAt(t, s, 0)
      /\ u \in Seq(Messages) /\ Len(u) = Len(s) - k /\ PartAt(u, s, k)
  BY DEF PartAt
<1> HIDE DEF t, u
<1>2. PICK g : SumTo(g, s, Len(s)) /\ BytesOf(s) = g[Len(s)]
  BY BytesOfIsSum
<1>3. PICK h : SumTo(h, t, Len(t)) /\ BytesOf(t) = h[Len(t)]
  BY <1>1, BytesOfIsSum
<1>4. PICK i : SumTo(i, u, Len(u)) /\ BytesOf(u) = i[Len(u)]
  BY <1>1, BytesOfIsSum
<1>5. g[0] = 0 /\ g[k] \in Nat
  BY <1>2, SumsAreNumbers
<1>6. g[k] = h[k]
  <2>1. \A n \in 0..Len(t) : h[n] \in Nat /\ g[0 + n] = g[0] + h[n]
    BY <1>1, <1>2, <1>3, <1>5, ShiftedSums
  <2> QED BY <1>1, <1>5, <2>1
<1>7. g[k + Len(u)] = g[k] + i[Len(u)]
  BY <1>1, <1>2, <1>4, <1>5, ShiftedSums
<1> QED BY <1>1, <1>2, <1>3, <1>4, <1>6, <1>7 DEF t, u

-----------------------------------------------------------------------------
(* Sequences.                                                              *)

LEMMA MembersOf ==
    ASSUME NEW S, NEW s \in Seq(S)
    PROVE  /\ ToSet(s) \subseteq S
           /\ \A m : m \in ToSet(s) <=> \E i \in 1..Len(s) : s[i] = m
           /\ s = <<>> <=> ToSet(s) = {}
BY DEF ToSet

LEMMA EmptyHasNone == ToSet(<<>>) = {} /\ IsInjective(<<>>)
BY DEF ToSet, IsInjective

LEMMA AppendMembers ==
    ASSUME NEW S, NEW s \in Seq(S), NEW m \in S
    PROVE  /\ Append(s, m) \in Seq(S)
           /\ ToSet(Append(s, m)) = ToSet(s) \cup {m}
           /\ IsInjective(s) /\ m \notin ToSet(s) => IsInjective(Append(s, m))
<1> DEFINE t == Append(s, m)
<1>1. /\ t \in Seq(S) /\ Len(t) = Len(s) + 1 /\ t[Len(s) + 1] = m
      /\ \A i \in 1..Len(s) : t[i] = s[i]
  OBVIOUS
<1> HIDE DEF t
<1>2. ToSet(t) = ToSet(s) \cup {m}
  <2>1. \A i \in 1..Len(t) : i \in 1..Len(s) \/ i = Len(s) + 1
    BY <1>1
  <2>2. Len(s) + 1 \in 1..Len(t) /\ \A i \in 1..Len(s) : i \in 1..Len(t)
    BY <1>1
  <2> QED BY <1>1, <2>1, <2>2 DEF ToSet
<1>3. ASSUME IsInjective(s), m \notin ToSet(s) PROVE IsInjective(t)
  <2>1. \A i \in 1..Len(t) : i \in 1..Len(s) \/ i = Len(s) + 1
    BY <1>1
  <2>2. \A i \in 1..Len(s) : s[i] # m
    BY <1>3 DEF ToSet
  <2> QED BY <1>1, <1>3, <2>1, <2>2 DEF IsInjective
<1> QED BY <1>1, <1>2, <1>3 DEF t

(* A sequence without repetitions that is cut in two.                      *)
LEMMA CutMembers ==
    ASSUME NEW S, NEW s \in Seq(S), NEW k \in 0..Len(s), IsInjective(s)
    PROVE  LET t == SubSeq(s, 1, k) u == SubSeq(s, k + 1, Len(s))
           IN /\ t \in Seq(S) /\ IsInjective(t)
              /\ u \in Seq(S) /\ IsInjective(u)
              /\ ToSet(t) \subseteq ToSet(s)
              /\ ToSet(u) = ToSet(s) \ ToSet(t)
<1> DEFINE t == SubSeq(s, 1, k) u == SubSeq(s, k + 1, Len(s))
<1>1. /\ t \in Seq(S) /\ Len(t) = k /\ \A i \in 1..k : t[i] = s[i]
      /\ u \in Seq(S) /\ Len(u) = Len(s) - k
      /\ \A i \in 1..(Len(s) - k) : u[i] = s[k + i]
  OBVIOUS
<1> HIDE DEF t, u
<1>2. IsInjective(t)
  BY <1>1 DEF IsInjective
<1>3. IsInjective(u)
  <2> SUFFICES ASSUME NEW i \in 1..(Len(s) - k), NEW j \in 1..(Len(s) - k),
                      u[i] = u[j]
               PROVE  i = j
    BY <1>1 DEF IsInjective
  <2>1. k + i \in 1..Len(s) /\ k + j \in 1..Len(s)
    OBVIOUS
  <2>2. s[k + i] = s[k + j]
    BY <1>1
  <2>3. \A a, b \in 1..Len(s) : s[a] = s[b] => a = b
    BY DEF IsInjective
  <2>4. k + i = k + j
    BY <2>1, <2>2, <2>3
  <2> QED BY <2>4
<1>4. \A m : m \in ToSet(t) <=> \E i \in 1..k : s[i] = m
  <2>1. \A m : m \in ToSet(t) <=> \E i \in 1..k : t[i] = m
    BY <1>1, MembersOf
  <2> QED BY <1>1, <2>1
<1>5. \A m : m \in ToSet(u) <=> \E i \in (k + 1)..Len(s) : s[i] = m
  <2>1. \A i \in (k + 1)..Len(s) : i - k \in 1..(Len(s) - k) /\ s[i] = u[i - k]
    BY <1>1
  <2>2. \A i \in 1..(Len(s) - k) : k + i \in (k + 1)..Len(s) /\ u[i] = s[k + i]
    BY <1>1
  <2>3. \A m : m \in ToSet(u) <=> \E i \in 1..(Len(s) - k) : u[i] = m
    BY <1>1, MembersOf
  <2> QED BY <2>1, <2>2, <2>3
<1>6. \A i \in 1..k, j \in (k + 1)..Len(s) : s[i] # s[j]
  BY DEF IsInjective
<1>7. \A m : m \in ToSet(s) <=> m \in ToSet(t) \/ m \in ToSet(u)
  <2>1. \A i \in 1..Len(s) : i \in 1..k \/ i \in (k + 1)..Len(s)
    OBVIOUS
  <2>2. 1..k \subseteq 1..Len(s) /\ (k + 1)..Len(s) \subseteq 1..Len(s)
    OBVIOUS
  <2>3. \A m : m \in ToSet(s) <=> \E i \in 1..Len(s) : s[i] = m
    BY MembersOf
  <2> QED BY <1>4, <1>5, <2>1, <2>2, <2>3
<1>8. ToSet(t) \cap ToSet(u) = {}
  BY <1>4, <1>5, <1>6
<1> QED BY <1>1, <1>2, <1>3, <1>7, <1>8 DEF t, u

LEMMA TailMembers ==
    ASSUME NEW S, NEW s \in Seq(S), s # <<>>, IsInjective(s)
    PROVE  /\ Head(s) \in ToSet(s)
           /\ Tail(s) \in Seq(S) /\ IsInjective(Tail(s))
           /\ ToSet(Tail(s)) = ToSet(s) \ {Head(s)}
<1> DEFINE t == Tail(s)
<1>1. /\ Head(s) = s[1] /\ t \in Seq(S) /\ Len(t) = Len(s) - 1
      /\ Len(s) \in Nat /\ Len(s) # 0
      /\ \A i \in 1..(Len(s) - 1) : t[i] = s[i + 1]
  OBVIOUS
<1> HIDE DEF t
<1>2. \A i \in 1..(Len(s) - 1) : i + 1 \in 1..Len(s) /\ i + 1 # 1
  OBVIOUS
<1>3. Head(s) \in ToSet(s)
  BY <1>1, MembersOf
<1>4. IsInjective(t)
  <2> SUFFICES ASSUME NEW i \in 1..(Len(s) - 1), NEW j \in 1..(Len(s) - 1),
                      t[i] = t[j]
               PROVE  i = j
    BY <1>1 DEF IsInjective
  <2>1. i + 1 = j + 1
    BY <1>1, <1>2 DEF IsInjective
  <2> QED BY <2>1
<1>5. \A m : m \in ToSet(t) <=> m \in ToSet(s) /\ m # s[1]
  <2>1. \A m : m \in ToSet(t) <=> \E i \in 1..(Len(s) - 1) : t[i] = m
    BY <1>1, MembersOf
  <2>2. \A m : m \in ToSet(s) <=> \E i \in 1..Len(s) : s[i] = m
    BY MembersOf
  <2>3. \A i \in 1..Len(s) : i # 1 => i - 1 \in 1..(Len(s) - 1) /\ t[i - 1] = s[i]
    BY <1>1
  <2>4. \A i \in 1..Len(s) : s[i] = s[1] => i = 1
    BY <1>1 DEF IsInjective
  <2> QED BY <1>1, <1>2, <2>1, <2>2, <2>3, <2>4
<1> QED BY <1>1, <1>3, <1>4, <1>5 DEF t

(* A choice of entries of a sequence.                                      *)
LEMMA SubsequenceMembers ==
    ASSUME NEW S, NEW s \in Seq(S), NEW t \in Subsequences(s)
    PROVE  /\ t \in Seq(S)
           /\ ToSet(t) \subseteq ToSet(s)
           /\ IsInjective(s) => IsInjective(t)
<1>0. PICK k \in 0..Len(s) : \E p \in Selections(Len(s), k) :
         t = [i \in 1..k |-> s[p[i]]]
  BY DEF Subsequences
<1>1. PICK p \in Selections(Len(s), k) : t = [i \in 1..k |-> s[p[i]]]
  BY <1>0
<1>2. /\ p \in [1..k -> 1..Len(s)]
      /\ \A i, j \in 1..k : i < j => p[i] < p[j]
  BY <1>1 DEF Selections
<1>3. \A i \in 1..k : p[i] \in 1..Len(s) /\ t[i] = s[p[i]] /\ t[i] \in S
  BY <1>1, <1>2
<1>4. t \in Seq(S) /\ Len(t) = k
  BY <1>1, <1>3
<1>5. ToSet(t) \subseteq ToSet(s)
  BY <1>3, <1>4 DEF ToSet
<1>6. ASSUME IsInjective(s) PROVE IsInjective(t)
  <2>1. \A i, j \in 1..k : p[i] = p[j] => i = j
    BY <1>2, <1>3
  <2> QED BY <1>3, <1>4, <1>6, <2>1 DEF IsInjective
<1> QED BY <1>4, <1>5, <1>6

-----------------------------------------------------------------------------
(* Types.                                                                  *)

ActiveFlush ==
    [phase : {"dispatched", "settling", "moving"}, queue : Consumed,
     todo : Seq(Messages), dead : Seq(Messages)]

LEMMA FlushTypes ==
    ASSUME TypeOK, NEW f \in Flights
    PROVE  /\ flush[f] = IdleFlush \/ flush[f] \in ActiveFlush
           /\ flush[f].todo \in Seq(Messages) /\ flush[f].dead \in Seq(Messages)
           /\ flush[f].phase # "idle" => flush[f] \in ActiveFlush
           /\ flush[f].phase # "idle" => flush[f].queue \in Consumed
<1>1. flush[f] = IdleFlush \/ flush[f] \in ActiveFlush
  BY DEF TypeOK, FlushState, ActiveFlush
<1>2. CASE flush[f] = IdleFlush
  BY <1>2 DEF IdleFlush
<1>3. CASE flush[f] \in ActiveFlush
  BY <1>3 DEF ActiveFlush
<1> QED BY <1>1, <1>2, <1>3

(* The types of all but #backlogBytes.                                     *)
TypesButBytes ==
    /\ fate \in [Messages -> Fates]
    /\ attempts \in [Messages -> Nat]
    /\ delayed \in [Queues -> SUBSET Messages]
    /\ backlog \in [Queues -> Seq(Messages)]
    /\ pending \in [Queues -> PendingFlush]
    /\ orphans \in [Queues -> Nat]
    /\ flush \in [Flights -> FlushState]

LEMMA ListTypes ==
    ASSUME NEW r \in ActiveFlush, NEW s \in Seq(Messages), NEW t \in Seq(Messages)
    PROVE  /\ [r EXCEPT !.todo = s] \in FlushState
           /\ [r EXCEPT !.todo = s, !.dead = t] \in FlushState
           /\ [r EXCEPT !.phase = "settling", !.todo = s] \in FlushState
           /\ [r EXCEPT !.phase = "moving"] \in FlushState
BY DEF ActiveFlush, FlushState

LEMMA EnsureTypes ==
    /\ NoFlush \in PendingFlush
    /\ \A p \in PendingFlush, n \in Nat : Ensure(p, n) \in PendingFlush
BY DEF NoFlush, Ensure, NewFlush, PendingFlush

LEMMA BatchLengths ==
    ASSUME TypeOK, NEW q \in Queues
    PROVE  /\ BatchLength(q) \in 0..Len(backlog[q])
           /\ BatchLength(q) <= BatchSize
           /\ Batch(q) \in Seq(Messages) /\ RestOf(q) \in Seq(Messages)
           /\ Len(Batch(q)) = BatchLength(q)
           /\ Len(RestOf(q)) = Len(backlog[q]) - BatchLength(q)
<1>1. backlog[q] \in Seq(Messages) /\ Len(backlog[q]) \in Nat
  BY DEF TypeOK
<1>2. BatchLength(q) \in 0..Len(backlog[q]) /\ BatchLength(q) <= BatchSize
  BY <1>1, LimitAssumption DEF BatchLength
<1> QED BY <1>1, <1>2 DEF Batch, RestOf

LEMMA TakeBatchTypes ==
    ASSUME TypeOK, NEW q \in Consumed, NEW f \in Flights, TakeBatch(q, f)
    PROVE  /\ backlog' \in [Queues -> Seq(Messages)]
           /\ flush' \in [Flights -> FlushState]
           /\ UNCHANGED <<fate, attempts, delayed>>
<1>1. q \in Queues
  BY QueueAssumption
<1>2. Batch(q) \in Seq(Messages) /\ RestOf(q) \in Seq(Messages)
  BY <1>1, BatchLengths
<1>3. backlog' \in [Queues -> Seq(Messages)]
  BY <1>1, <1>2 DEF TakeBatch, TypeOK
<1>4. [phase |-> "dispatched", queue |-> q, todo |-> Batch(q), dead |-> <<>>]
         \in FlushState
  BY <1>2 DEF FlushState
<1>5. flush' \in [Flights -> FlushState]
  BY <1>4 DEF TakeBatch, TypeOK
<1> QED BY <1>3, <1>5 DEF TakeBatch

(* Every step keeps the types.                                             *)
LEMMA StepTypes ==
    ASSUME TypeOK, NoFlushWithoutConsumer, Next
    PROVE  TypesButBytes'
<1> USE DEF TypeOK, TypesButBytes
<1>1. ASSUME NEW q \in Queues, NEW ms \in SUBSET Messages, Send(q, ms)
      PROVE  TypesButBytes'
  <2>1. CASE q \in Consumed
    BY <1>1, <2>1 DEF Send, Fates
  <2>2. CASE q \notin Consumed
    BY <1>1, <2>2 DEF Send, Fates
  <2> QED BY <2>1, <2>2
<1>2. ASSUME NEW q \in Queues, NEW m \in Messages, Deliver(q, m)
      PROVE  TypesButBytes'
  <2>1. Append(backlog[q], m) \in Seq(Messages) /\ Len(backlog[q]) + 1 \in Nat
    OBVIOUS
  <2>2. Ensure(pending[q], Len(backlog[q]) + 1) \in PendingFlush
    BY <2>1, EnsureTypes
  <2> QED BY <1>2, <2>1, <2>2 DEF Deliver
<1>3. ASSUME NEW q \in Queues, NEW f \in Flights, PendingFires(q, f)
      PROVE  TypesButBytes'
  <2>1. q \in Consumed
    BY <1>3 DEF PendingFires, NoFlushWithoutConsumer, NoFlush
  <2>2. pending' \in [Queues -> PendingFlush]
    BY <1>3 DEF PendingFires, PendingFlush
  <2> QED BY <1>3, <2>1, <2>2, TakeBatchTypes DEF PendingFires
<1>4. ASSUME NEW q \in Queues, NEW f \in Flights, OrphanFires(q, f)
      PROVE  TypesButBytes'
  <2>1. q \in Consumed
    BY <1>4 DEF OrphanFires, NoFlushWithoutConsumer
  <2>2. orphans' \in [Queues -> Nat]
    BY <1>4 DEF OrphanFires
  <2> QED BY <1>4, <2>1, <2>2, TakeBatchTypes DEF OrphanFires
<1>5. ASSUME NEW f \in Flights, NEW failed \in Subsequences(flush[f].todo),
             Answer(f, failed)
      PROVE  TypesButBytes'
  <2>1. flush[f] \in ActiveFlush
    BY <1>5, FlushTypes DEF Answer
  <2>2. failed \in Seq(Messages)
    BY FlushTypes, SubsequenceMembers
  <2>3. flush' = [flush EXCEPT ![f] = [flush[f] EXCEPT !.phase = "settling",
                                                       !.todo = failed]]
    BY <1>5 DEF Answer
  <2>4. flush' \in [Flights -> FlushState]
    BY <2>1, <2>2, <2>3, ListTypes
  <2> QED BY <1>5, <2>4 DEF Answer, Fates
<1>6. ASSUME NEW f \in Flights, Retry(f)
      PROVE  TypesButBytes'
  <2>1. flush[f] \in ActiveFlush /\ flush[f].queue \in Queues
    BY <1>6, FlushTypes, QueueAssumption DEF Retry
  <2>2. Head(flush[f].todo) \in Messages /\ Tail(flush[f].todo) \in Seq(Messages)
    BY <1>6, FlushTypes DEF Retry
  <2>3. flush' = [flush EXCEPT ![f] = [flush[f] EXCEPT !.todo = Tail(flush[f].todo)]]
    BY <1>6 DEF Retry
  <2>4. flush' \in [Flights -> FlushState]
    BY <2>1, <2>2, <2>3, ListTypes
  <2> QED BY <1>6, <2>1, <2>2, <2>4 DEF Retry
<1>7. ASSUME NEW f \in Flights, GiveUp(f)
      PROVE  TypesButBytes'
  <2>1. flush[f] \in ActiveFlush
    BY <1>7, FlushTypes DEF GiveUp
  <2>2. Head(flush[f].todo) \in Messages /\ Tail(flush[f].todo) \in Seq(Messages)
    BY <1>7, FlushTypes DEF GiveUp
  <2>3. Append(flush[f].dead, Head(flush[f].todo)) \in Seq(Messages)
    BY <2>2, FlushTypes
  <2> DEFINE r == [flush[f] EXCEPT !.todo = Tail(flush[f].todo)]
             s == [flush[f] EXCEPT !.todo = Tail(flush[f].todo),
                              !.dead = Append(flush[f].dead, Head(flush[f].todo))]
  <2>4. flush' = [flush EXCEPT ![f] = r] \/ flush' = [flush EXCEPT ![f] = s]
    BY <1>7 DEF GiveUp
  <2>5. flush' \in [Flights -> FlushState]
    <3>1. r \in FlushState /\ s \in FlushState
      BY <2>1, <2>2, <2>3, ListTypes
    <3> HIDE DEF r, s
    <3> QED BY <2>4, <3>1
  <2>6. fate' = fate \/ fate' = [fate EXCEPT ![Head(flush[f].todo)] = "dropped"]
    BY <1>7 DEF GiveUp
  <2>7. attempts' \in [Messages -> Nat]
    BY <1>7, <2>2 DEF GiveUp
  <2>8. fate' \in [Messages -> Fates]
    BY <2>2, <2>6 DEF Fates
  <2> QED BY <1>7, <2>5, <2>7, <2>8 DEF GiveUp
<1>8. ASSUME NEW f \in Flights, FinishFlush(f)
      PROVE  TypesButBytes'
  <2>1. flush[f] \in ActiveFlush /\ flush[f].queue \in Queues
    BY <1>8, FlushTypes, QueueAssumption DEF FinishFlush
  <2>2. flush' \in [Flights -> FlushState]
    BY <1>8, <2>1 DEF FinishFlush, ActiveFlush, FlushState
  <2>3. FlushAfter(flush[f].queue) \in PendingFlush
    <3>1. Len(backlog[flush[f].queue]) \in Nat
      BY <2>1
    <3> QED BY <3>1, EnsureTypes DEF FlushAfter
  <2>4. pending' \in [Queues -> PendingFlush] /\ orphans' \in [Queues -> Nat]
    BY <1>8, <2>1, <2>3 DEF FinishFlush
  <2> QED BY <1>8, <2>2, <2>4 DEF FinishFlush
<1>9. ASSUME NEW f \in Flights, MoveDeadLetters(f)
      PROVE  TypesButBytes'
  <2>1. ToSet(flush[f].dead) \subseteq Messages
    BY FlushTypes, MembersOf
  <2>2. flush' \in [Flights -> FlushState]
    BY <1>9 DEF MoveDeadLetters, FlushState
  <2>3. CASE DeadLetter[flush[f].queue] \in Consumed
    <3>1. delayed' = [delayed EXCEPT ![DeadLetter[flush[f].queue]] =
                        @ \cup ToSet(flush[f].dead)]
      BY <1>9, <2>3 DEF MoveDeadLetters
    <3>2. delayed' \in [Queues -> SUBSET Messages]
      BY <2>1, <3>1
    <3>3. attempts' = AttemptsReset(ToSet(flush[f].dead))
      BY <1>9, <2>3 DEF MoveDeadLetters
    <3>4. attempts' \in [Messages -> Nat]
      BY <3>3 DEF AttemptsReset
    <3> QED BY <1>9, <2>2, <2>3, <3>2, <3>4 DEF MoveDeadLetters
  <2>4. CASE DeadLetter[flush[f].queue] \notin Consumed
    BY <1>9, <2>2, <2>4 DEF MoveDeadLetters, Fates
  <2> QED BY <2>3, <2>4
<1>10. ASSUME NEW f \in Flights, LoseDeadLetters(f) \/ LogFails(f)
       PROVE  TypesButBytes'
  <2>1. flush' \in [Flights -> FlushState]
    BY <1>10 DEF LoseDeadLetters, LogFails, FlushState
  <2> QED BY <1>10, <2>1 DEF LoseDeadLetters, LogFails, Fates
<1> QED BY <1>1, <1>2, <1>3, <1>4, <1>5, <1>6, <1>7, <1>8, <1>9, <1>10
        DEF Next, Settle

-----------------------------------------------------------------------------
(* Messages and containers.                                                *)

Gone == <<"gone", NoQueue>>

(* The messages ms go to container d, or leave.                            *)
Moves(ms, d) ==
    /\ \A c \in Containers :
          Content(c)' = IF c = d THEN Content(c) \cup ms ELSE Content(c) \ ms
    /\ \A m \in Messages :
          fate'[m] = "live" <=> IF m \in ms THEN d \in Containers
                                            ELSE fate[m] = "live"

LEMMA MovesKeepOne ==
    ASSUME InOneContainer, NEW ms, NEW d, Moves(ms, d)
    PROVE  InOneContainer'
<1>1. \A m : \A c, e \in Containers :
         m \in Content(c)' /\ m \in Content(e)' => c = e
  BY DEF Moves, InOneContainer
<1>2. \A m \in Messages :
         fate'[m] = "live" <=> \E c \in Containers : m \in Content(c)'
  BY DEF Moves, InOneContainer
<1>3. Containers' = Containers
  BY DEF Containers
<1> QED BY <1>1, <1>2, <1>3 DEF InOneContainer

LEMMA ContainerKinds ==
    /\ \A q \in Queues : <<"delayed", q>> \in Containers /\ <<"backlog", q>> \in Containers
    /\ \A f \in Flights : <<"todo", f>> \in Containers /\ <<"dead", f>> \in Containers
    /\ \A c \in Containers :
          \/ \E q \in Queues : c = <<"delayed", q>> \/ c = <<"backlog", q>>
          \/ \E f \in Flights : c = <<"todo", f>> \/ c = <<"dead", f>>
    /\ Gone \notin Containers
BY DEF Containers, Gone

LEMMA ContentOf ==
    /\ \A q : /\ Content(<<"delayed", q>>) = delayed[q]
              /\ Content(<<"backlog", q>>) = ToSet(backlog[q])
    /\ \A f : /\ Content(<<"todo", f>>) = ToSet(flush[f].todo)
              /\ Content(<<"dead", f>>) = ToSet(flush[f].dead)
BY DEF Content

LEMMA ContentOfNext ==
    /\ \A q : /\ Content(<<"delayed", q>>)' = delayed'[q]
              /\ Content(<<"backlog", q>>)' = ToSet(backlog'[q])
    /\ \A f : /\ Content(<<"todo", f>>)' = ToSet(flush'[f].todo)
              /\ Content(<<"dead", f>>)' = ToSet(flush'[f].dead)
BY DEF Content

(* Messages of one container are in no other.                              *)
LEMMA Elsewhere ==
    ASSUME InOneContainer, NEW c \in Containers, NEW ms, ms \subseteq Content(c)
    PROVE  \A e \in Containers : e # c => Content(e) \ ms = Content(e)
BY DEF InOneContainer

(* Messages of no container are not live.                                  *)
LEMMA Nowhere ==
    ASSUME InOneContainer, NEW m \in Messages
    PROVE  fate[m] # "live" <=> \A e \in Containers : m \notin Content(e)
BY DEF InOneContainer

(* Messages of container src go to container d, or leave, and no other     *)
(* container changes.                                                      *)
LEMMA Relocate ==
    ASSUME InOneContainer, NEW src \in Containers, NEW d, d # src,
           NEW ms, ms \subseteq Content(src),
           Content(src)' = Content(src) \ ms,
           d \in Containers => Content(d)' = Content(d) \cup ms,
           \A e \in Containers : e # src /\ e # d => Content(e)' = Content(e),
           \A m \in Messages :
              fate'[m] = "live" <=> IF m \in ms THEN d \in Containers
                                                ELSE fate[m] = "live"
    PROVE  InOneContainer' /\ Moves(ms, d)
<1>1. \A e \in Containers : e # src => Content(e) \ ms = Content(e)
  BY Elsewhere
<1>2. Moves(ms, d)
  BY <1>1 DEF Moves
<1> QED BY <1>2, MovesKeepOne

MessagesInv == TypeOK /\ InOneContainer /\ NoRepetitions /\ PhasesInv

(* Accepted messages start to wait.                                        *)
LEMMA SendMessages ==
    ASSUME MessagesInv, NEW q \in Queues, NEW ms \in SUBSET Messages, Send(q, ms)
    PROVE  /\ InOneContainer' /\ NoRepetitions'
           /\ Moves(ms, IF q \in Consumed THEN <<"delayed", q>> ELSE Gone)
<1> USE DEF MessagesInv
<1>1. NoRepetitions'
  BY DEF Send, NoRepetitions
<1>2. \A e \in Containers : Content(e) \ ms = Content(e)
  BY Nowhere DEF Send
<1>3. \A f \in Flights : flush'[f] = flush[f]
  BY DEF Send
<1>4. \A p \in Queues : backlog'[p] = backlog[p]
  BY DEF Send
<1>5. CASE q \in Consumed
  <2>1. \A p \in Queues : delayed'[p] = IF p = q THEN delayed[p] \cup ms ELSE delayed[p]
    BY <1>5 DEF Send, TypeOK
  <2>2. /\ Content(<<"delayed", q>>)' = Content(<<"delayed", q>>) \cup ms
        /\ \A e \in Containers : e # <<"delayed", q>> => Content(e)' = Content(e)
    <3>1. \A p \in Queues \ {q} : delayed'[p] = delayed[p]
      BY <2>1
    <3>2. \A e \in Containers : e # <<"delayed", q>> => Content(e)' = Content(e)
      BY <1>3, <1>4, <3>1, ContainerKinds, ContentOf, ContentOfNext
    <3> QED BY <2>1, <3>2, ContentOf, ContentOfNext
  <2>3. \A m \in Messages : fate'[m] = "live" <=> m \in ms \/ fate[m] = "live"
    BY <1>5 DEF Send
  <2>4. Moves(ms, <<"delayed", q>>)
    BY <1>2, <2>2, <2>3, ContainerKinds DEF Moves
  <2> QED BY <1>1, <1>5, <2>4, MovesKeepOne
<1>6. CASE q \notin Consumed
  <2>1. \A e \in Containers : Content(e)' = Content(e)
    <3>1. delayed' = delayed
      BY <1>6 DEF Send
    <3> QED BY <1>3, <1>4, <3>1, ContainerKinds, ContentOf, ContentOfNext
  <2>2. \A m \in Messages : fate'[m] = "live" <=> m \notin ms /\ fate[m] = "live"
    BY <1>6 DEF Send
  <2>3. Moves(ms, Gone)
    BY <1>2, <2>1, <2>2, ContainerKinds DEF Moves
  <2> QED BY <1>1, <1>6, <2>3, MovesKeepOne
<1> QED BY <1>5, <1>6

(* A timer puts its message at the end of the backlog.                     *)
LEMMA DeliverMessages ==
    ASSUME MessagesInv, NEW q \in Queues, NEW m \in Messages, Deliver(q, m)
    PROVE  InOneContainer' /\ NoRepetitions' /\ Moves({m}, <<"backlog", q>>)
<1> USE DEF MessagesInv
<1> DEFINE src == <<"delayed", q>> d == <<"backlog", q>>
<1>1. backlog[q] \in Seq(Messages) /\ m \in delayed[q]
  BY DEF TypeOK, Deliver
<1>2. src \in Containers /\ d \in Containers /\ src # d
  BY ContainerKinds
<1>3. m \notin ToSet(backlog[q])
  BY <1>1, <1>2, ContentOf DEF InOneContainer
<1>4. /\ ToSet(backlog'[q]) = ToSet(backlog[q]) \cup {m}
      /\ IsInjective(backlog'[q])
      /\ delayed'[q] = delayed[q] \ {m}
  BY <1>1, <1>3, AppendMembers DEF Deliver, TypeOK, NoRepetitions
<1>5. \A p \in Queues \ {q} : backlog'[p] = backlog[p] /\ delayed'[p] = delayed[p]
  BY DEF Deliver, TypeOK
<1>6. flush' = flush /\ fate' = fate
  BY DEF Deliver
<1>7. NoRepetitions'
  BY <1>4, <1>5, <1>6 DEF NoRepetitions
<1>8. \A e \in Containers : e # src /\ e # d => Content(e)' = Content(e)
  BY <1>5, <1>6, ContainerKinds, ContentOf, ContentOfNext
<1>9. /\ Content(src)' = Content(src) \ {m} /\ Content(d)' = Content(d) \cup {m}
      /\ {m} \subseteq Content(src)
  BY <1>1, <1>4, ContentOf, ContentOfNext
<1>10. fate[m] = "live"
  BY <1>1, <1>2, ContentOf DEF InOneContainer
<1>11. \A n \in Messages : fate'[n] = "live" <=> IF n \in {m} THEN d \in Containers
                                                            ELSE fate[n] = "live"
  BY <1>2, <1>6, <1>10
<1> HIDE DEF src, d
<1>12. InOneContainer' /\ Moves({m}, d)
  BY <1>2, <1>8, <1>9, <1>11, Relocate
<1> QED BY <1>7, <1>12 DEF d

(* A flush takes its batch from the backlog.                               *)
LEMMA TakeMessages ==
    ASSUME MessagesInv, NEW q \in Queues, NEW f \in Flights, TakeBatch(q, f)
    PROVE  /\ InOneContainer' /\ NoRepetitions'
           /\ Moves(ToSet(Batch(q)), <<"todo", f>>)
           /\ ToSet(Batch(q)) \subseteq Content(<<"backlog", q>>)
<1> USE DEF MessagesInv
<1> DEFINE src == <<"backlog", q>> d == <<"todo", f>> ms == ToSet(Batch(q))
<1>1. /\ backlog[q] \in Seq(Messages) /\ IsInjective(backlog[q])
      /\ BatchLength(q) \in 0..Len(backlog[q])
  BY BatchLengths DEF TypeOK, NoRepetitions
<1>2. /\ IsInjective(Batch(q)) /\ IsInjective(RestOf(q))
      /\ ms \subseteq ToSet(backlog[q])
      /\ ToSet(RestOf(q)) = ToSet(backlog[q]) \ ms
  BY <1>1, CutMembers DEF Batch, RestOf
<1>3. /\ backlog'[q] = RestOf(q)
      /\ \A p \in Queues \ {q} : backlog'[p] = backlog[p]
      /\ delayed' = delayed /\ fate' = fate
  BY DEF TakeBatch, TypeOK
<1>4. /\ flush[f].todo = <<>> /\ flush[f].dead = <<>>
      /\ flush'[f].todo = Batch(q) /\ flush'[f].dead = <<>>
      /\ \A g \in Flights \ {f} : flush'[g] = flush[g]
  BY DEF TakeBatch, TypeOK, IdleFlush
<1>5. NoRepetitions'
  BY <1>2, <1>3, <1>4, EmptyHasNone DEF NoRepetitions
<1>6. src \in Containers /\ d \in Containers /\ src # d
  BY ContainerKinds
<1>7. \A e \in Containers : e # src /\ e # d => Content(e)' = Content(e)
  BY <1>3, <1>4, ContainerKinds, ContentOf, ContentOfNext
<1>8. Content(src)' = Content(src) \ ms /\ ms \subseteq Content(src)
  BY <1>2, <1>3, ContentOf, ContentOfNext
<1>9. Content(d)' = Content(d) \cup ms
  BY <1>4, EmptyHasNone, ContentOf, ContentOfNext
<1>10. \A m \in Messages : fate'[m] = "live" <=> IF m \in ms THEN d \in Containers
                                                            ELSE fate[m] = "live"
  BY <1>3, <1>6, <1>8 DEF InOneContainer
<1> HIDE DEF src, d, ms
<1>11. InOneContainer' /\ Moves(ms, d)
  BY <1>6, <1>7, <1>8, <1>9, <1>10, Relocate
<1> QED BY <1>5, <1>8, <1>11 DEF src, d, ms

(* What is acked leaves the batch.                                         *)
LEMMA AnswerMessages ==
    ASSUME MessagesInv, NEW f \in Flights,
           NEW failed \in Subsequences(flush[f].todo), Answer(f, failed)
    PROVE  /\ InOneContainer' /\ NoRepetitions'
           /\ Moves(ToSet(flush[f].todo) \ ToSet(failed), Gone)
           /\ ToSet(failed) \subseteq ToSet(flush[f].todo)
<1> USE DEF MessagesInv
<1> DEFINE src == <<"todo", f>> ms == ToSet(flush[f].todo) \ ToSet(failed)
<1>1. /\ flush[f].todo \in Seq(Messages) /\ IsInjective(flush[f].todo)
      /\ flush[f] \in ActiveFlush
  BY FlushTypes DEF Answer, NoRepetitions
<1>2. /\ IsInjective(failed) /\ ToSet(failed) \subseteq ToSet(flush[f].todo)
  BY <1>1, SubsequenceMembers
<1>3. /\ flush'[f].todo = failed /\ flush'[f].dead = flush[f].dead
      /\ \A g \in Flights \ {f} : flush'[g] = flush[g]
      /\ backlog' = backlog /\ delayed' = delayed
  BY <1>1 DEF Answer, TypeOK, ActiveFlush
<1>4. NoRepetitions'
  BY <1>2, <1>3 DEF NoRepetitions
<1>5. src \in Containers /\ Gone \notin Containers
  BY ContainerKinds
<1>6. \A e \in Containers : e # src => Content(e)' = Content(e)
  BY <1>3, ContainerKinds, ContentOf, ContentOfNext
<1>7. Content(src)' = Content(src) \ ms /\ ms \subseteq Content(src)
  BY <1>2, <1>3, ContentOf, ContentOfNext
<1>8. \A m \in Messages : fate'[m] = IF m \in ms THEN "acked" ELSE fate[m]
  BY DEF Answer
<1> HIDE DEF src, ms
<1>9. \A m \in Messages : fate'[m] = "live" <=> IF m \in ms THEN Gone \in Containers
                                                           ELSE fate[m] = "live"
  BY <1>5, <1>8
<1>10. InOneContainer' /\ Moves(ms, Gone)
  BY <1>5, <1>6, <1>7, <1>9, Relocate
<1> QED BY <1>2, <1>4, <1>10 DEF ms

(* A failed message leaves the batch for a timer, for the dead letters, or *)
(* altogether.                                                             *)
LEMMA RetryMessages ==
    ASSUME MessagesInv, NEW f \in Flights, Retry(f)
    PROVE  /\ InOneContainer' /\ NoRepetitions'
           /\ Moves({Head(flush[f].todo)}, <<"delayed", flush[f].queue>>)
<1> USE DEF MessagesInv
<1>0. PICK q \in Queues : q = flush[f].queue
  BY FlushTypes, QueueAssumption DEF Retry
<1> DEFINE m == Head(flush[f].todo) src == <<"todo", f>> d == <<"delayed", q>>
<1>1. /\ flush[f].todo \in Seq(Messages) /\ IsInjective(flush[f].todo)
      /\ flush[f].todo # <<>> /\ flush[f] \in ActiveFlush
  BY FlushTypes DEF Retry, NoRepetitions
<1>2. /\ m \in ToSet(flush[f].todo)
      /\ IsInjective(Tail(flush[f].todo))
      /\ ToSet(Tail(flush[f].todo)) = ToSet(flush[f].todo) \ {m}
  BY <1>1, TailMembers
<1>3. /\ flush'[f].todo = Tail(flush[f].todo) /\ flush'[f].dead = flush[f].dead
      /\ \A g \in Flights \ {f} : flush'[g] = flush[g]
      /\ backlog' = backlog /\ fate' = fate
      /\ delayed'[q] = delayed[q] \cup {m}
      /\ \A p \in Queues \ {q} : delayed'[p] = delayed[p]
  BY <1>0, <1>1 DEF Retry, TypeOK, ActiveFlush
<1>4. NoRepetitions'
  BY <1>2, <1>3 DEF NoRepetitions
<1>5. src \in Containers /\ d \in Containers /\ src # d
  BY <1>1, ContainerKinds
<1>6. \A e \in Containers : e # src /\ e # d => Content(e)' = Content(e)
  BY <1>3, ContainerKinds, ContentOf, ContentOfNext
<1>7. Content(src)' = Content(src) \ {m} /\ {m} \subseteq Content(src)
  BY <1>2, <1>3, ContentOf, ContentOfNext
<1>8. Content(d)' = Content(d) \cup {m}
  BY <1>3, ContentOf, ContentOfNext
<1>9. \A n \in Messages : fate'[n] = "live" <=> IF n \in {m} THEN d \in Containers
                                                           ELSE fate[n] = "live"
  BY <1>3, <1>5, <1>7 DEF InOneContainer
<1> HIDE DEF src, d, m
<1>10. InOneContainer' /\ Moves({m}, d)
  BY <1>5, <1>6, <1>7, <1>8, <1>9, Relocate
<1> QED BY <1>0, <1>4, <1>10 DEF d, m

LEMMA GiveUpMessages ==
    ASSUME MessagesInv, NEW f \in Flights, GiveUp(f)
    PROVE  /\ InOneContainer' /\ NoRepetitions'
           /\ Moves({Head(flush[f].todo)},
                    IF DeadLetter[flush[f].queue] # NoQueue THEN <<"dead", f>> ELSE Gone)
<1> USE DEF MessagesInv
<1>0. PICK m \in Messages : m = Head(flush[f].todo)
  BY FlushTypes DEF GiveUp
<1> DEFINE src == <<"todo", f>> d == <<"dead", f>>
<1>1. /\ flush[f].todo \in Seq(Messages) /\ IsInjective(flush[f].todo)
      /\ flush[f].dead \in Seq(Messages) /\ IsInjective(flush[f].dead)
      /\ flush[f].todo # <<>> /\ flush[f] \in ActiveFlush
  BY FlushTypes DEF GiveUp, NoRepetitions
<1>2. /\ m \in ToSet(flush[f].todo)
      /\ IsInjective(Tail(flush[f].todo))
      /\ ToSet(Tail(flush[f].todo)) = ToSet(flush[f].todo) \ {m}
  BY <1>0, <1>1, TailMembers
<1>3. src \in Containers /\ d \in Containers /\ src # d /\ Gone # src
      /\ Gone \notin Containers
  BY ContainerKinds
<1>4. /\ flush'[f].todo = Tail(flush[f].todo)
      /\ \A g \in Flights \ {f} : flush'[g] = flush[g]
      /\ backlog' = backlog /\ delayed' = delayed
  <2>1. CASE DeadLetter[flush[f].queue] # NoQueue
    BY <1>1, <2>1 DEF GiveUp, TypeOK, ActiveFlush
  <2>2. CASE DeadLetter[flush[f].queue] = NoQueue
    BY <1>1, <2>2 DEF GiveUp, TypeOK, ActiveFlush
  <2> QED BY <2>1, <2>2
<1>5. \A e \in Containers : e # src /\ e # d => Content(e)' = Content(e)
  BY <1>4, ContainerKinds, ContentOf, ContentOfNext
<1>6. Content(src)' = Content(src) \ {m} /\ {m} \subseteq Content(src)
  BY <1>2, <1>4, ContentOf, ContentOfNext
<1>7. CASE DeadLetter[flush[f].queue] # NoQueue
  <2>1. flush'[f].dead = Append(flush[f].dead, m) /\ fate' = fate
    BY <1>0, <1>1, <1>7 DEF GiveUp, TypeOK, ActiveFlush
  <2>2. m \notin ToSet(flush[f].dead)
    BY <1>2, <1>3, ContentOf DEF InOneContainer
  <2>3. /\ IsInjective(flush'[f].dead)
        /\ ToSet(flush'[f].dead) = ToSet(flush[f].dead) \cup {m}
    BY <1>1, <2>1, <2>2, AppendMembers
  <2>4. NoRepetitions'
    BY <1>2, <1>4, <2>3 DEF NoRepetitions
  <2>5. Content(d)' = Content(d) \cup {m}
    BY <2>3, ContentOf, ContentOfNext
  <2>6. \A n \in Messages : fate'[n] = "live" <=> IF n \in {m} THEN d \in Containers
                                                             ELSE fate[n] = "live"
    BY <1>3, <1>6, <2>1 DEF InOneContainer
  <2> HIDE DEF src, d
  <2>7. InOneContainer' /\ Moves({m}, d)
    BY <1>3, <1>5, <1>6, <2>5, <2>6, Relocate
  <2> QED BY <1>0, <1>7, <2>4, <2>7 DEF d
<1>8. CASE DeadLetter[flush[f].queue] = NoQueue
  <2>1. flush'[f].dead = flush[f].dead /\ fate' = [fate EXCEPT ![m] = "dropped"]
    BY <1>0, <1>1, <1>8 DEF GiveUp, TypeOK, ActiveFlush
  <2>2. NoRepetitions'
    BY <1>2, <1>4, <2>1 DEF NoRepetitions
  <2>3. Content(d)' = Content(d)
    BY <2>1, ContentOf, ContentOfNext
  <2>4. \A n \in Messages : fate'[n] = "live" <=> IF n \in {m} THEN Gone \in Containers
                                                             ELSE fate[n] = "live"
    BY <1>3, <2>1 DEF TypeOK
  <2> HIDE DEF src, d
  <2>5. \A e \in Containers : e # src => Content(e)' = Content(e)
    BY <1>5, <2>3
  <2>6. InOneContainer' /\ Moves({m}, Gone)
    BY <1>3, <1>6, <2>4, <2>5, Relocate
  <2> QED BY <1>0, <1>8, <2>2, <2>6
<1> QED BY <1>7, <1>8

(* The end of a flush moves no message.                                    *)
LEMMA FinishMessages ==
    ASSUME MessagesInv, NEW f \in Flights, FinishFlush(f)
    PROVE  /\ InOneContainer' /\ NoRepetitions'
           /\ \A c \in Containers : Content(c)' = Content(c)
<1> USE DEF MessagesInv
<1>1. flush[f].todo = <<>> /\ flush[f] \in ActiveFlush
  BY FlushTypes DEF FinishFlush
<1>2. /\ flush'[f].todo = flush[f].todo /\ flush'[f].dead = flush[f].dead
      /\ \A g \in Flights \ {f} : flush'[g] = flush[g]
  BY <1>1 DEF FinishFlush, TypeOK, ActiveFlush, IdleFlush
<1>3. backlog' = backlog /\ delayed' = delayed /\ fate' = fate
  BY DEF FinishFlush
<1>4. \A c \in Containers : Content(c)' = Content(c)
  BY <1>2, <1>3, ContainerKinds, ContentOf, ContentOfNext
<1>5. Containers' = Containers
  BY DEF Containers
<1>6. InOneContainer'
  BY <1>3, <1>4, <1>5 DEF InOneContainer
<1> QED BY <1>2, <1>3, <1>4, <1>6 DEF NoRepetitions

(* The dead letters go to a timer of their queue, or leave.                *)
LEMMA DeadLetterMessages ==
    ASSUME MessagesInv, NEW f \in Flights, MoveDeadLetters(f)
    PROVE  /\ InOneContainer' /\ NoRepetitions'
           /\ Moves(ToSet(flush[f].dead),
                    IF DeadLetter[flush[f].queue] \in Consumed
                    THEN <<"delayed", DeadLetter[flush[f].queue]>> ELSE Gone)
<1> USE DEF MessagesInv
<1>0. PICK p : p = DeadLetter[flush[f].queue]
  OBVIOUS
<1> DEFINE ms == ToSet(flush[f].dead) src == <<"dead", f>> d == <<"delayed", p>>
<1>1. /\ flush[f].todo = <<>> /\ flush[f] \in ActiveFlush
  BY FlushTypes DEF MoveDeadLetters, PhasesInv
<1>2. /\ flush'[f].todo = flush[f].todo /\ flush'[f].dead = <<>>
      /\ \A g \in Flights \ {f} : flush'[g] = flush[g]
      /\ backlog' = backlog
  BY <1>1 DEF MoveDeadLetters, TypeOK, IdleFlush
<1>3. NoRepetitions'
  BY <1>2, EmptyHasNone DEF NoRepetitions
<1>4. src \in Containers /\ src # d /\ Gone # src /\ Gone \notin Containers
  BY ContainerKinds
<1>5. Content(src)' = Content(src) \ ms /\ ms \subseteq Content(src)
  BY <1>2, EmptyHasNone, ContentOf, ContentOfNext
<1>6. CASE p \in Consumed
  <2>1. p \in Queues /\ d \in Containers
    BY <1>6, QueueAssumption, ContainerKinds
  <2>2. delayed' = [delayed EXCEPT ![p] = @ \cup ms] /\ fate' = fate
    BY <1>0, <1>6 DEF MoveDeadLetters
  <2>3. delayed'[p] = delayed[p] \cup ms
    BY <2>1, <2>2 DEF TypeOK
  <2>4. \A q \in Queues \ {p} : delayed'[q] = delayed[q]
    BY <2>2 DEF TypeOK
  <2>5. \A e \in Containers : e # src /\ e # d => Content(e)' = Content(e)
    BY <1>2, <2>4, ContainerKinds, ContentOf, ContentOfNext
  <2>6. Content(d)' = Content(d) \cup ms
    BY <2>3, ContentOf, ContentOfNext
  <2>7. \A n \in Messages : fate'[n] = "live" <=> IF n \in ms THEN d \in Containers
                                                             ELSE fate[n] = "live"
    BY <1>4, <1>5, <2>1, <2>2 DEF InOneContainer
  <2> HIDE DEF src, d, ms
  <2>8. InOneContainer' /\ Moves(ms, d)
    BY <1>4, <1>5, <2>5, <2>6, <2>7, Relocate
  <2> QED BY <1>0, <1>3, <1>6, <2>8 DEF d, ms
<1>7. CASE p \notin Consumed
  <2>1. delayed' = delayed /\ \A m \in Messages :
           fate'[m] = IF m \in ms THEN "dropped" ELSE fate[m]
    BY <1>0, <1>7 DEF MoveDeadLetters
  <2>2. \A e \in Containers : e # src => Content(e)' = Content(e)
    BY <1>2, <2>1, ContainerKinds, ContentOf, ContentOfNext
  <2> HIDE DEF src, d, ms
  <2>3. \A n \in Messages : fate'[n] = "live" <=> IF n \in ms THEN Gone \in Containers
                                                             ELSE fate[n] = "live"
    BY <1>4, <2>1
  <2>4. InOneContainer' /\ Moves(ms, Gone)
    BY <1>4, <1>5, <2>2, <2>3, Relocate
  <2> QED BY <1>0, <1>3, <1>7, <2>4 DEF ms
<1> QED BY <1>6, <1>7

(* A failed call loses the lists of its flush.                             *)
LEMMA LoseMessages ==
    ASSUME MessagesInv, NEW f \in Flights, LoseDeadLetters(f) \/ LogFails(f)
    PROVE  /\ InOneContainer' /\ NoRepetitions'
           /\ Moves(ToSet(flush[f].todo) \cup ToSet(flush[f].dead), Gone)
           /\ \A m \in ToSet(flush[f].todo) \cup ToSet(flush[f].dead) : fate'[m] = "lost"
<1> USE DEF MessagesInv
<1> DEFINE ms == ToSet(flush[f].todo) \cup ToSet(flush[f].dead)
           src == <<"todo", f>> sec == <<"dead", f>>
<1>1. LoseDeadLetters(f) => flush[f].todo = <<>> /\ ToSet(flush[f].todo) = {}
  BY EmptyHasNone DEF LoseDeadLetters, PhasesInv
<1>2. /\ flush'[f].todo = <<>> /\ flush'[f].dead = <<>>
      /\ \A g \in Flights \ {f} : flush'[g] = flush[g]
      /\ backlog' = backlog /\ delayed' = delayed
  BY DEF LoseDeadLetters, LogFails, TypeOK, IdleFlush
<1>3. NoRepetitions'
  BY <1>2, EmptyHasNone DEF NoRepetitions
<1>4. ms \subseteq Messages
  BY FlushTypes, MembersOf
<1>5. \A m \in Messages : fate'[m] = IF m \in ms THEN "lost" ELSE fate[m]
  BY <1>1 DEF LoseDeadLetters, LogFails
<1>6. src \in Containers /\ sec \in Containers /\ Gone \notin Containers
  BY ContainerKinds
<1>7. Content(src)' = {} /\ Content(sec)' = {} /\ ms = Content(src) \cup Content(sec)
  BY <1>2, EmptyHasNone, ContentOf, ContentOfNext
<1>8. \A e \in Containers : e # src /\ e # sec => Content(e)' = Content(e)
  BY <1>2, ContainerKinds, ContentOf, ContentOfNext
<1> HIDE DEF src, sec, ms
<1>9. \A e \in Containers : e # src /\ e # sec => Content(e) \ ms = Content(e)
  BY <1>6, <1>7 DEF InOneContainer
<1>10. Gone # src /\ Gone # sec
  BY <1>6
<1>11. Moves(ms, Gone)
  BY <1>5, <1>6, <1>7, <1>8, <1>9, <1>10 DEF Moves
<1> QED BY <1>3, <1>4, <1>5, <1>11, MovesKeepOne DEF ms

LEMMA StepMessages ==
    ASSUME MessagesInv, Next
    PROVE  InOneContainer' /\ NoRepetitions'
<1>1. ASSUME NEW q \in Queues, NEW f \in Flights, PendingFires(q, f) \/ OrphanFires(q, f)
      PROVE  InOneContainer' /\ NoRepetitions'
  BY <1>1, TakeMessages DEF PendingFires, OrphanFires
<1> QED BY <1>1, SendMessages, DeliverMessages, AnswerMessages, RetryMessages,
           GiveUpMessages, FinishMessages, DeadLetterMessages, LoseMessages
        DEF Next, Settle

-----------------------------------------------------------------------------
(* Backlogs and flush timers.                                              *)

LEMMA StepBytes ==
    ASSUME TypeOK, BacklogBytesAgree, Next
    PROVE  BacklogBytesAgree' /\ bytes' \in [Queues -> Nat]
<1>1. ASSUME NEW q \in Queues, NEW m \in Messages, Deliver(q, m)
      PROVE  BacklogBytesAgree' /\ bytes' \in [Queues -> Nat]
  <2>1. /\ backlog'[q] = Append(backlog[q], m) /\ bytes'[q] = bytes[q] + Bytes[m]
        /\ \A p \in Queues \ {q} : backlog'[p] = backlog[p] /\ bytes'[p] = bytes[p]
    BY <1>1 DEF Deliver, TypeOK
  <2>2. BytesOf(Append(backlog[q], m)) = BytesOf(backlog[q]) + Bytes[m]
    BY BytesOfAppend DEF TypeOK
  <2>3. BacklogBytesAgree'
    BY <2>1, <2>2 DEF BacklogBytesAgree
  <2>4. bytes' \in [Queues -> Nat]
    BY <1>1, LimitAssumption DEF Deliver, TypeOK
  <2> QED BY <2>3, <2>4
<1>2. ASSUME NEW q \in Queues, NEW f \in Flights, TakeBatch(q, f)
      PROVE  BacklogBytesAgree' /\ bytes' \in [Queues -> Nat]
  <2>1. /\ backlog'[q] = RestOf(q) /\ bytes'[q] = bytes[q] - BytesOf(Batch(q))
        /\ \A p \in Queues \ {q} : backlog'[p] = backlog[p] /\ bytes'[p] = bytes[p]
        /\ bytes' = [bytes EXCEPT ![q] = @ - BytesOf(Batch(q))]
    BY <1>2 DEF TakeBatch, TypeOK
  <2>2. BytesOf(backlog[q]) = BytesOf(Batch(q)) + BytesOf(RestOf(q))
    BY BatchLengths, BytesOfSplit DEF Batch, RestOf, TypeOK
  <2>3. BytesOf(Batch(q)) \in Nat /\ BytesOf(RestOf(q)) \in Nat
    BY BatchLengths, BytesOfNumber
  <2>4. bytes'[q] = BytesOf(RestOf(q))
    BY <2>1, <2>2, <2>3 DEF BacklogBytesAgree
  <2>5. BacklogBytesAgree'
    BY <2>1, <2>4 DEF BacklogBytesAgree
  <2>6. bytes' \in [Queues -> Nat]
    BY <2>1, <2>3, <2>4 DEF TypeOK
  <2> QED BY <2>5, <2>6
<1>3. ASSUME UNCHANGED <<backlog, bytes>>
      PROVE  BacklogBytesAgree' /\ bytes' \in [Queues -> Nat]
  BY <1>3 DEF BacklogBytesAgree, TypeOK
<1>4. ASSUME NEW q \in Queues, NEW f \in Flights, PendingFires(q, f) \/ OrphanFires(q, f)
      PROVE  BacklogBytesAgree' /\ bytes' \in [Queues -> Nat]
  BY <1>2, <1>4 DEF PendingFires, OrphanFires
<1> QED BY <1>1, <1>3, <1>4 DEF Next, Send, Answer, Settle, Retry, GiveUp,
        FinishFlush, MoveDeadLetters, LoseDeadLetters, LogFails

(* Only queues with a consumer have messages and flushes.                  *)
LEMMA StepConsumer ==
    ASSUME TypeOK, NoFlushWithoutConsumer, Next
    PROVE  NoFlushWithoutConsumer'
<1> SUFFICES ASSUME NEW q \in Queues \ Consumed
             PROVE  /\ delayed'[q] = delayed[q] /\ backlog'[q] = backlog[q]
                    /\ pending'[q] = pending[q] /\ orphans'[q] = orphans[q]
  BY DEF NoFlushWithoutConsumer
<1> USE DEF TypeOK, NoFlushWithoutConsumer
<1>1. ASSUME NEW p \in Queues, NEW ms \in SUBSET Messages, Send(p, ms)
      PROVE  /\ delayed'[q] = delayed[q] /\ backlog'[q] = backlog[q]
             /\ pending'[q] = pending[q] /\ orphans'[q] = orphans[q]
  BY <1>1 DEF Send
<1>2. ASSUME NEW p \in Queues, NEW m \in Messages, Deliver(p, m)
      PROVE  /\ delayed'[q] = delayed[q] /\ backlog'[q] = backlog[q]
             /\ pending'[q] = pending[q] /\ orphans'[q] = orphans[q]
  <2>1. p # q
    BY <1>2 DEF Deliver
  <2> QED BY <1>2, <2>1 DEF Deliver
<1>3. ASSUME NEW p \in Queues, NEW f \in Flights, PendingFires(p, f) \/ OrphanFires(p, f)
      PROVE  /\ delayed'[q] = delayed[q] /\ backlog'[q] = backlog[q]
             /\ pending'[q] = pending[q] /\ orphans'[q] = orphans[q]
  <2>1. p # q
    BY <1>3 DEF PendingFires, OrphanFires, NoFlush
  <2> QED BY <1>3, <2>1 DEF PendingFires, OrphanFires, TakeBatch
<1>4. ASSUME NEW f \in Flights, Settle(f)
      PROVE  /\ delayed'[q] = delayed[q] /\ backlog'[q] = backlog[q]
             /\ pending'[q] = pending[q] /\ orphans'[q] = orphans[q]
  <2>1. flush[f].phase # "idle"
    BY <1>4 DEF Settle, Retry, GiveUp, FinishFlush, MoveDeadLetters,
       LoseDeadLetters, LogFails
  <2>2. flush[f].queue # q
    BY <2>1, FlushTypes
  <2>3. CASE Retry(f) \/ GiveUp(f)
    BY <2>2, <2>3 DEF Retry, GiveUp
  <2>4. CASE FinishFlush(f)
    BY <2>2, <2>4 DEF FinishFlush
  <2>5. CASE MoveDeadLetters(f)
    BY <2>5 DEF MoveDeadLetters
  <2>6. CASE LoseDeadLetters(f) \/ LogFails(f)
    BY <2>6 DEF LoseDeadLetters, LogFails
  <2> QED BY <1>4, <2>3, <2>4, <2>5, <2>6 DEF Settle
<1>5. ASSUME NEW f \in Flights, NEW failed, Answer(f, failed)
      PROVE  /\ delayed'[q] = delayed[q] /\ backlog'[q] = backlog[q]
             /\ pending'[q] = pending[q] /\ orphans'[q] = orphans[q]
  BY <1>5 DEF Answer
<1> QED BY <1>1, <1>2, <1>3, <1>4, <1>5 DEF Next

LEMMA StepPhases ==
    ASSUME TypeOK, PhasesInv, Next
    PROVE  PhasesInv'
<1> SUFFICES ASSUME NEW f \in Flights
             PROVE  /\ flush'[f].phase = "dispatched" => flush'[f].dead = <<>>
                    /\ flush'[f].phase = "moving" => flush'[f].todo = <<>>
  BY DEF PhasesInv
<1> DEFINE Goal == /\ flush'[f].phase = "dispatched" => flush'[f].dead = <<>>
                   /\ flush'[f].phase = "moving" => flush'[f].todo = <<>>
<1>1. flush'[f] = flush[f] => Goal
  BY DEF PhasesInv
<1>2. ASSUME NEW q \in Queues, NEW g \in Flights, TakeBatch(q, g)
      PROVE  Goal
  <2>1. CASE f = g
    BY <1>2, <2>1 DEF TakeBatch, TypeOK
  <2>2. CASE f # g
    BY <1>1, <1>2, <2>2 DEF TakeBatch, TypeOK
  <2> QED BY <2>1, <2>2
<1>3. ASSUME NEW g \in Flights, NEW failed, Answer(g, failed)
      PROVE  Goal
  <2>1. CASE f = g
    <3>1. flush[f] \in ActiveFlush
      BY <1>3, <2>1, FlushTypes DEF Answer
    <3>2. flush'[f].phase = "settling"
      BY <1>3, <2>1, <3>1 DEF Answer, TypeOK, ActiveFlush
    <3> QED BY <3>2
  <2>2. CASE f # g
    BY <1>1, <1>3, <2>2 DEF Answer, TypeOK
  <2> QED BY <2>1, <2>2
<1>4. ASSUME NEW g \in Flights, Settle(g)
      PROVE  Goal
  <2>1. CASE f = g
    <3>1. flush[f] \in ActiveFlush
      BY <1>4, <2>1, FlushTypes DEF Settle, Retry, GiveUp, FinishFlush,
         MoveDeadLetters, LoseDeadLetters, LogFails
    <3>2. CASE Retry(f)
      BY <3>1, <3>2 DEF Retry, TypeOK, ActiveFlush
    <3>3. CASE GiveUp(f)
      <4>1. flush'[f].phase = flush[f].phase
        BY <3>1, <3>3 DEF GiveUp, TypeOK, ActiveFlush
      <4> QED BY <3>3, <4>1 DEF GiveUp
    <3>4. CASE FinishFlush(f)
      BY <3>1, <3>4 DEF FinishFlush, TypeOK, ActiveFlush, IdleFlush
    <3>5. CASE MoveDeadLetters(f) \/ LoseDeadLetters(f) \/ LogFails(f)
      <4>1. flush'[f] = IdleFlush
        BY <3>5 DEF MoveDeadLetters, LoseDeadLetters, LogFails, TypeOK
      <4> QED BY <4>1 DEF IdleFlush
    <3> QED BY <1>4, <2>1, <3>2, <3>3, <3>4, <3>5 DEF Settle
  <2>2. CASE f # g
    <3>1. flush'[f] = flush[f]
      BY <1>4, <2>2 DEF Settle, Retry, GiveUp, FinishFlush, MoveDeadLetters,
         LoseDeadLetters, LogFails, TypeOK
    <3> QED BY <1>1, <3>1
  <2> QED BY <2>1, <2>2
<1> QED BY <1>1, <1>2, <1>3, <1>4 DEF Next, Send, Deliver, PendingFires, OrphanFires

TimersInv == PendingInv /\ FullBatchesGoAtOnce

(* What #ensurePendingFlush leaves.                                        *)
LEMMA EnsureLeaves ==
    ASSUME NEW p \in PendingFlush, NEW n \in Nat
    PROVE  /\ Ensure(p, n).kind # "none"
           /\ n >= BatchSize => Ensure(p, n).kind = "immediate"
           /\ Ensure(p, n) = p \/ Ensure(p, n).armed
BY LimitAssumption DEF Ensure, NewFlush, PendingFlush

LEMMA TakeBatchTimers ==
    ASSUME TypeOK, TimersInv, NEW q \in Queues, NEW f \in Flights, TakeBatch(q, f),
           \A p \in Queues : /\ pending'[p].kind = pending[p].kind
                             /\ pending'[p].armed => pending[p].armed
    PROVE  TimersInv'
<1>1. /\ backlog'[q] = RestOf(q)
      /\ \A p \in Queues \ {q} : backlog'[p] = backlog[p]
  BY DEF TakeBatch, TypeOK
<1>2. /\ RestOf(q) # <<>> => backlog[q] # <<>>
      /\ Len(RestOf(q)) >= BatchSize => Len(backlog[q]) >= BatchSize
  <2>1. /\ Len(RestOf(q)) \in Nat /\ Len(backlog[q]) \in Nat
        /\ Len(RestOf(q)) <= Len(backlog[q])
        /\ RestOf(q) \in Seq(Messages)
    BY BatchLengths DEF TypeOK
  <2> QED BY <2>1, LimitAssumption
<1>3. PendingInv'
  BY <1>1, <1>2 DEF TimersInv, PendingInv
<1>4. FullBatchesGoAtOnce'
  BY <1>1, <1>2 DEF TimersInv, FullBatchesGoAtOnce
<1> QED BY <1>3, <1>4 DEF TimersInv

LEMMA StepTimers ==
    ASSUME TypeOK, TimersInv, Next
    PROVE  TimersInv'
<1>1. ASSUME NEW q \in Queues, NEW m \in Messages, Deliver(q, m)
      PROVE  TimersInv'
  <2>1. /\ backlog'[q] = Append(backlog[q], m)
        /\ pending'[q] = Ensure(pending[q], Len(backlog[q]) + 1)
        /\ \A p \in Queues \ {q} : backlog'[p] = backlog[p] /\ pending'[p] = pending[p]
    BY <1>1 DEF Deliver, TypeOK
  <2>2. Len(backlog'[q]) = Len(backlog[q]) + 1 /\ Len(backlog[q]) + 1 \in Nat
    BY <2>1 DEF TypeOK
  <2>3. pending[q] \in PendingFlush
    BY DEF TypeOK
  <2>4. /\ pending'[q].kind # "none"
        /\ Len(backlog'[q]) >= BatchSize => pending'[q].kind = "immediate"
    BY <2>1, <2>2, <2>3, EnsureLeaves
  <2> QED BY <2>1, <2>4 DEF TimersInv, PendingInv, FullBatchesGoAtOnce
<1>2. ASSUME NEW q \in Queues, NEW f \in Flights, PendingFires(q, f)
      PROVE  TimersInv'
  <2>1. \A p \in Queues : /\ pending'[p].kind = pending[p].kind
                          /\ pending'[p].armed => pending[p].armed
    BY <1>2 DEF PendingFires, TypeOK, PendingFlush
  <2> QED BY <1>2, <2>1, TakeBatchTimers DEF PendingFires
<1>3. ASSUME NEW q \in Queues, NEW f \in Flights, OrphanFires(q, f)
      PROVE  TimersInv'
  BY <1>3, TakeBatchTimers DEF OrphanFires
<1>4. ASSUME NEW f \in Flights, FinishFlush(f)
      PROVE  TimersInv'
  <2>1. PICK q \in Queues : q = flush[f].queue
    BY <1>4, FlushTypes, QueueAssumption DEF FinishFlush
  <2>2. /\ pending'[q] = FlushAfter(q) /\ backlog' = backlog
        /\ \A p \in Queues \ {q} : pending'[p] = pending[p]
    BY <1>4, <2>1 DEF FinishFlush, TypeOK
  <2>3. Len(backlog[q]) \in Nat /\ NoFlush \in PendingFlush
    BY EnsureTypes DEF TypeOK
  <2>4. /\ backlog[q] # <<>> => /\ pending'[q].kind # "none"
                                /\ Len(backlog[q]) >= BatchSize =>
                                      pending'[q].kind = "immediate"
        /\ pending'[q].armed => backlog[q] # <<>>
    BY <2>2, <2>3, EnsureLeaves DEF FlushAfter, NoFlush
  <2> QED BY <2>2, <2>4 DEF TimersInv, PendingInv, FullBatchesGoAtOnce
<1>5. UNCHANGED <<backlog, pending>> => TimersInv'
  BY DEF TimersInv, PendingInv, FullBatchesGoAtOnce
<1> QED BY <1>1, <1>2, <1>3, <1>4, <1>5 DEF Next, Send, Answer, Settle, Retry, GiveUp,
        MoveDeadLetters, LoseDeadLetters, LogFails

-----------------------------------------------------------------------------
(* The theorems.                                                           *)

LEMMA InitBroker == Init => BrokerInv /\ ScheduleInv
<1> SUFFICES ASSUME Init PROVE BrokerInv /\ ScheduleInv
  OBVIOUS
<1> USE DEF Init
<1>1. TypeOK
  BY DEF TypeOK, Fates, PendingFlush, NoFlush, FlushState
<1>2. BacklogBytesAgree
  BY BytesOfEmpty DEF BacklogBytesAgree
<1>3. \A c \in Containers : Content(c) = {}
  BY ContainerKinds, ContentOf, EmptyHasNone DEF IdleFlush
<1>4. InOneContainer
  BY <1>3 DEF InOneContainer
<1>5. NoRepetitions
  BY EmptyHasNone DEF NoRepetitions, IdleFlush
<1>6. NoFlushWithoutConsumer /\ PhasesInv /\ PendingInv /\ FullBatchesGoAtOnce
      /\ ScheduleInv
  BY DEF NoFlushWithoutConsumer, PhasesInv, PendingInv, FullBatchesGoAtOnce,
     ScheduleInv, IdleFlush, NoFlush
<1> QED BY <1>1, <1>2, <1>4, <1>5, <1>6 DEF BrokerInv

LEMMA StepBroker == BrokerInv /\ [Next]_vars => BrokerInv'
<1> SUFFICES ASSUME BrokerInv, [Next]_vars PROVE BrokerInv'
  OBVIOUS
<1>1. CASE Next
  <2> USE <1>1 DEF BrokerInv
  <2>1. TypeOK'
    BY StepTypes, StepBytes DEF TypeOK, TypesButBytes
  <2>2. InOneContainer' /\ NoRepetitions'
    BY StepMessages DEF MessagesInv
  <2>3. PendingInv' /\ FullBatchesGoAtOnce'
    BY StepTimers DEF TimersInv
  <2> QED BY <2>1, <2>2, <2>3, StepBytes, StepConsumer, StepPhases
<1>2. CASE UNCHANGED vars
  <2> USE <1>2 DEF vars, BrokerInv
  <2>1. TypeOK' /\ NoFlushWithoutConsumer' /\ BacklogBytesAgree'
    BY DEF TypeOK, NoFlushWithoutConsumer, BacklogBytesAgree
  <2>2. PhasesInv' /\ PendingInv' /\ FullBatchesGoAtOnce' /\ NoRepetitions'
    BY DEF PhasesInv, PendingInv, FullBatchesGoAtOnce, NoRepetitions
  <2>3. \A c \in Containers : Content(c)' = Content(c)
    BY DEF Content
  <2>4. InOneContainer'
    BY <2>3 DEF InOneContainer, Containers
  <2> QED BY <2>1, <2>2, <2>4
<1> QED BY <1>1, <1>2

(* The invariant holds for ever.                                           *)
THEOREM BrokerCorrect == Spec => []BrokerInv
BY InitBroker, StepBroker, PTL DEF Spec

(* #backlogBytes is always the size of the backlog (broker.worker.ts:305,  *)
(* 355 and 441).                                                           *)
THEOREM BytesCorrect == Spec => []BacklogBytesAgree
BY BrokerCorrect, PTL DEF BrokerInv

(* A full batch never waits for maxBatchTimeout.                           *)
THEOREM FullBatchesCorrect == Spec => []FullBatchesGoAtOnce
BY BrokerCorrect, PTL DEF BrokerInv

(* The assertion of #flush that there is a consumer never fails.           *)
THEOREM ConsumersCorrect == Spec => []NoFlushWithoutConsumer
BY BrokerCorrect, PTL DEF BrokerInv

(* The positions of a message in a sequence without repetitions.           *)
LEMMA OnePosition ==
    ASSUME NEW s \in Seq(Messages), IsInjective(s), NEW m
    PROVE  IF m \in ToSet(s) THEN \E i : Positions(s, m) = {i}
                             ELSE Positions(s, m) = {}
<1>1. \A i : i \in Positions(s, m) <=> i \in 1..Len(s) /\ s[i] = m
  BY DEF Positions
<1>2. \A i, j \in Positions(s, m) : i = j
  BY <1>1 DEF IsInjective
<1>3. m \in ToSet(s) <=> \E i : i \in Positions(s, m)
  BY <1>1, MembersOf
<1> QED BY <1>2, <1>3

TimerPlaces(m) == {<<"delayed", q, 0>> : q \in {p \in Queues : m \in delayed[p]}}
BacklogPlaces(m) ==
    UNION {{<<"backlog", q, i>> : i \in Positions(backlog[q], m)} : q \in Queues}
TodoPlaces(m) ==
    UNION {{<<"todo", f, i>> : i \in Positions(flush[f].todo, m)} : f \in Flights}
DeadPlaces(m) ==
    UNION {{<<"dead", f, i>> : i \in Positions(flush[f].dead, m)} : f \in Flights}

LEMMA PlacesSplit ==
    ASSUME NEW m, NEW x
    PROVE  x \in Places(m) <=>
              \/ \E q \in Queues : m \in delayed[q] /\ x = <<"delayed", q, 0>>
              \/ \E q \in Queues : \E i \in Positions(backlog[q], m) :
                    x = <<"backlog", q, i>>
              \/ \E f \in Flights : \E i \in Positions(flush[f].todo, m) :
                    x = <<"todo", f, i>>
              \/ \E f \in Flights : \E i \in Positions(flush[f].dead, m) :
                    x = <<"dead", f, i>>
<1>1. Places(m) = TimerPlaces(m) \cup BacklogPlaces(m) \cup TodoPlaces(m) \cup DeadPlaces(m)
  BY Zenon DEF Places, TimerPlaces, BacklogPlaces, TodoPlaces, DeadPlaces
<1>2. x \in TimerPlaces(m) <=> \E q \in Queues : m \in delayed[q] /\ x = <<"delayed", q, 0>>
  BY DEF TimerPlaces
<1>3. x \in BacklogPlaces(m) <=> \E q \in Queues : \E i \in Positions(backlog[q], m) :
                                    x = <<"backlog", q, i>>
  BY DEF BacklogPlaces
<1>4. x \in TodoPlaces(m) <=> \E f \in Flights : \E i \in Positions(flush[f].todo, m) :
                                 x = <<"todo", f, i>>
  BY DEF TodoPlaces
<1>5. x \in DeadPlaces(m) <=> \E f \in Flights : \E i \in Positions(flush[f].dead, m) :
                                 x = <<"dead", f, i>>
  BY DEF DeadPlaces
<1> QED BY <1>1, <1>2, <1>3, <1>4, <1>5

(* A message has as many places as containers.                             *)
LEMMA PlacesAreContainers ==
    ASSUME BrokerInv, NEW m \in Messages
    PROVE  Cardinality(Places(m)) = IF fate[m] = "live" THEN 1 ELSE 0
<1> USE DEF BrokerInv
<1>1. \A q \in Queues : /\ m \in delayed[q] <=> m \in Content(<<"delayed", q>>)
                        /\ m \in ToSet(backlog[q]) <=> m \in Content(<<"backlog", q>>)
                        /\ backlog[q] \in Seq(Messages) /\ IsInjective(backlog[q])
  BY ContentOf DEF TypeOK, NoRepetitions
<1>2. \A f \in Flights : /\ m \in ToSet(flush[f].todo) <=> m \in Content(<<"todo", f>>)
                         /\ m \in ToSet(flush[f].dead) <=> m \in Content(<<"dead", f>>)
                         /\ flush[f].todo \in Seq(Messages) /\ IsInjective(flush[f].todo)
                         /\ flush[f].dead \in Seq(Messages) /\ IsInjective(flush[f].dead)
  BY ContentOf, FlushTypes DEF NoRepetitions
<1> DEFINE B(q) == Positions(backlog[q], m)
           T(f) == Positions(flush[f].todo, m)
           D(f) == Positions(flush[f].dead, m)
<1>3. \A q \in Queues : IF m \in Content(<<"backlog", q>>) THEN \E i : B(q) = {i}
                                                           ELSE B(q) = {}
  BY <1>1, OnePosition
<1>4. \A f \in Flights : /\ IF m \in Content(<<"todo", f>>) THEN \E i : T(f) = {i}
                                                            ELSE T(f) = {}
                         /\ IF m \in Content(<<"dead", f>>) THEN \E i : D(f) = {i}
                                                            ELSE D(f) = {}
  BY <1>2, OnePosition
<1>5. \A x : x \in Places(m) <=>
         \/ \E q \in Queues : m \in delayed[q] /\ x = <<"delayed", q, 0>>
         \/ \E q \in Queues : \E i \in B(q) : x = <<"backlog", q, i>>
         \/ \E f \in Flights : \E i \in T(f) : x = <<"todo", f, i>>
         \/ \E f \in Flights : \E i \in D(f) : x = <<"dead", f, i>>
  BY PlacesSplit
<1> HIDE DEF B, T, D
<1>6. CASE fate[m] = "live"
  <2>1. PICK c \in Containers : m \in Content(c)
    BY <1>6 DEF InOneContainer
  <2>2. \A e \in Containers : m \in Content(e) => e = c
    BY <2>1 DEF InOneContainer
  <2>3. \E x : Places(m) = {x}
    <3>1. CASE \E q \in Queues : c = <<"delayed", q>>
      <4>1. PICK q \in Queues : c = <<"delayed", q>>
        BY <3>1
      <4>2. /\ \A p \in Queues : m \in delayed[p] <=> p = q
            /\ \A p \in Queues : B(p) = {}
            /\ \A f \in Flights : T(f) = {} /\ D(f) = {}
        BY <1>1, <1>3, <1>4, <2>1, <2>2, <4>1, ContainerKinds
      <4>3. \A x : x \in Places(m) <=> x = <<"delayed", q, 0>>
        BY <1>5, <4>2
      <4>4. Places(m) = {<<"delayed", q, 0>>}
        BY <4>3, Zenon
      <4> QED BY <4>4, Zenon
    <3>2. CASE \E q \in Queues : c = <<"backlog", q>>
      <4>1. PICK q \in Queues : c = <<"backlog", q>>
        BY <3>2
      <4>2. PICK i : B(q) = {i}
        BY <1>3, <2>1, <4>1
      <4>3. /\ \A p \in Queues : m \notin delayed[p]
            /\ \A p \in Queues \ {q} : B(p) = {}
            /\ \A f \in Flights : T(f) = {} /\ D(f) = {}
        BY <1>1, <1>3, <1>4, <2>1, <2>2, <4>1, ContainerKinds
      <4>4. \A x : x \in Places(m) <=> x = <<"backlog", q, i>>
        BY <1>5, <4>2, <4>3
      <4>5. Places(m) = {<<"backlog", q, i>>}
        BY <4>4, Zenon
      <4> QED BY <4>5, Zenon
    <3>3. CASE \E f \in Flights : c = <<"todo", f>>
      <4>1. PICK f \in Flights : c = <<"todo", f>>
        BY <3>3
      <4>2. PICK i : T(f) = {i}
        BY <1>4, <2>1, <4>1
      <4>3. /\ \A p \in Queues : m \notin delayed[p] /\ B(p) = {}
            /\ \A g \in Flights \ {f} : T(g) = {}
            /\ \A g \in Flights : D(g) = {}
        BY <1>1, <1>3, <1>4, <2>1, <2>2, <4>1, ContainerKinds
      <4>4. \A x : x \in Places(m) <=> x = <<"todo", f, i>>
        BY <1>5, <4>2, <4>3
      <4>5. Places(m) = {<<"todo", f, i>>}
        BY <4>4, Zenon
      <4> QED BY <4>5, Zenon
    <3>4. CASE \E f \in Flights : c = <<"dead", f>>
      <4>1. PICK f \in Flights : c = <<"dead", f>>
        BY <3>4
      <4>2. PICK i : D(f) = {i}
        BY <1>4, <2>1, <4>1
      <4>3. /\ \A p \in Queues : m \notin delayed[p] /\ B(p) = {}
            /\ \A g \in Flights \ {f} : D(g) = {}
            /\ \A g \in Flights : T(g) = {}
        BY <1>1, <1>3, <1>4, <2>1, <2>2, <4>1, ContainerKinds
      <4>4. \A x : x \in Places(m) <=> x = <<"dead", f, i>>
        BY <1>5, <4>2, <4>3
      <4>5. Places(m) = {<<"dead", f, i>>}
        BY <4>4, Zenon
      <4> QED BY <4>5, Zenon
    <3> QED BY <3>1, <3>2, <3>3, <3>4, ContainerKinds
  <2> QED BY <1>6, <2>3, FS_Singleton
<1>7. CASE fate[m] # "live"
  <2>1. \A e \in Containers : m \notin Content(e)
    BY <1>7 DEF InOneContainer
  <2>2. /\ \A p \in Queues : m \notin delayed[p] /\ B(p) = {}
        /\ \A f \in Flights : T(f) = {} /\ D(f) = {}
    BY <1>1, <1>3, <1>4, <2>1, ContainerKinds
  <2>3. Places(m) = {}
    BY <1>5, <2>2
  <2> QED BY <1>7, <2>3, FS_EmptySet
<1> QED BY <1>6, <1>7

(* No message is lost or doubled.                                          *)
THEOREM MessagesCorrect == Spec => []EveryMessageInOnePlace
<1>1. BrokerInv => EveryMessageInOnePlace
  BY PlacesAreContainers DEF EveryMessageInOnePlace, BrokerInv
<1> QED BY <1>1, BrokerCorrect, PTL

-----------------------------------------------------------------------------
(* No backlog is stranded, unless a log call fails.                        *)

(* A flush that still looks again when it is done, afterwards.             *)
LEMMA InFlightAgain ==
    ASSUME TypeOK, NEW q \in Queues, InFlight(q),
           \A f \in Flights :
              flush[f].phase \in {"dispatched", "settling"} =>
                 /\ flush'[f].phase \in {"dispatched", "settling"}
                 /\ flush'[f].queue = flush[f].queue
    PROVE  InFlight(q)'
BY DEF InFlight

LEMMA TakeBatchSchedule ==
    ASSUME TypeOK, ScheduleInv, NEW q \in Queues, NEW f \in Flights, TakeBatch(q, f),
           \A p \in Queues :
              /\ pending'[p].kind = pending[p].kind
              /\ p # q => pending'[p].armed = pending[p].armed
    PROVE  ScheduleInv'
<1>1. /\ flush'[f].phase = "dispatched" /\ flush'[f].queue = q
      /\ \A g \in Flights \ {f} : flush'[g] = flush[g]
      /\ flush[f].phase = "idle"
  BY DEF TakeBatch, TypeOK, IdleFlush
<1>2. InFlight(q)'
  BY <1>1 DEF InFlight
<1>3. \A p \in Queues : InFlight(p) => InFlight(p)'
  BY <1>1, InFlightAgain
<1> QED BY <1>2, <1>3 DEF ScheduleInv

LEMMA StepSchedule ==
    ASSUME ~ LogMayFail, TypeOK, ScheduleInv, Next
    PROVE  ScheduleInv'
<1>1. ASSUME NEW q \in Queues, NEW m \in Messages, Deliver(q, m)
      PROVE  ScheduleInv'
  <2>1. /\ pending'[q] = Ensure(pending[q], Len(backlog[q]) + 1) /\ flush' = flush
        /\ \A p \in Queues \ {q} : pending'[p] = pending[p]
    BY <1>1 DEF Deliver, TypeOK
  <2>2. Len(backlog[q]) + 1 \in Nat /\ pending[q] \in PendingFlush
    BY DEF TypeOK
  <2>3. pending'[q] = pending[q] \/ pending'[q].armed
    BY <2>1, <2>2, EnsureLeaves
  <2> QED BY <2>1, <2>3 DEF ScheduleInv, InFlight
<1>2. ASSUME NEW q \in Queues, NEW f \in Flights, PendingFires(q, f)
      PROVE  ScheduleInv'
  <2>1. \A p \in Queues : /\ pending'[p].kind = pending[p].kind
                          /\ p # q => pending'[p].armed = pending[p].armed
    BY <1>2 DEF PendingFires, TypeOK, PendingFlush
  <2> QED BY <1>2, <2>1, TakeBatchSchedule DEF PendingFires
<1>3. ASSUME NEW q \in Queues, NEW f \in Flights, OrphanFires(q, f)
      PROVE  ScheduleInv'
  BY <1>3, TakeBatchSchedule DEF OrphanFires
<1>4. ASSUME NEW f \in Flights, NEW failed, Answer(f, failed)
      PROVE  ScheduleInv'
  <2>1. flush[f] \in ActiveFlush
    BY <1>4, FlushTypes DEF Answer
  <2>2. /\ flush'[f].phase = "settling" /\ flush'[f].queue = flush[f].queue
        /\ \A g \in Flights \ {f} : flush'[g] = flush[g]
        /\ pending' = pending
    BY <1>4, <2>1 DEF Answer, TypeOK, ActiveFlush
  <2>3. \A p \in Queues : InFlight(p) => InFlight(p)'
    BY <2>2, InFlightAgain
  <2> QED BY <2>2, <2>3 DEF ScheduleInv
<1>5. ASSUME NEW f \in Flights, Retry(f) \/ GiveUp(f)
      PROVE  ScheduleInv'
  <2>1. flush[f] \in ActiveFlush
    BY <1>5, FlushTypes DEF Retry, GiveUp
  <2>2. /\ flush'[f].phase = flush[f].phase /\ flush'[f].queue = flush[f].queue
        /\ \A g \in Flights \ {f} : flush'[g] = flush[g]
        /\ pending' = pending
    <3>1. CASE Retry(f)
      BY <2>1, <3>1 DEF Retry, TypeOK, ActiveFlush
    <3>2. CASE GiveUp(f)
      BY <2>1, <3>2 DEF GiveUp, TypeOK, ActiveFlush
    <3> QED BY <1>5, <3>1, <3>2
  <2>3. \A p \in Queues : InFlight(p) => InFlight(p)'
    BY <2>2, InFlightAgain
  <2> QED BY <2>2, <2>3 DEF ScheduleInv
<1>6. ASSUME NEW f \in Flights, FinishFlush(f)
      PROVE  ScheduleInv'
  <2>1. PICK q \in Queues : q = flush[f].queue
    BY <1>6, FlushTypes, QueueAssumption DEF FinishFlush
  <2>2. /\ pending'[q] = FlushAfter(q)
        /\ \A p \in Queues \ {q} : pending'[p] = pending[p]
        /\ \A g \in Flights \ {f} : flush'[g] = flush[g]
    BY <1>6, <2>1 DEF FinishFlush, TypeOK
  <2>3. pending'[q].kind # "none" => pending'[q].armed
    BY <2>2 DEF FlushAfter, Ensure, NewFlush, NoFlush
  <2>4. \A p \in Queues \ {q} : InFlight(p) => InFlight(p)'
    BY <2>1, <2>2 DEF InFlight
  <2> QED BY <2>2, <2>3, <2>4 DEF ScheduleInv
<1>7. ASSUME NEW f \in Flights, MoveDeadLetters(f) \/ LoseDeadLetters(f)
      PROVE  ScheduleInv'
  <2>1. /\ flush[f].phase = "moving" /\ pending' = pending
        /\ \A g \in Flights \ {f} : flush'[g] = flush[g]
    BY <1>7 DEF MoveDeadLetters, LoseDeadLetters, TypeOK
  <2>2. \A p \in Queues : InFlight(p) => InFlight(p)'
    BY <2>1, InFlightAgain
  <2> QED BY <2>1, <2>2 DEF ScheduleInv
<1>8. UNCHANGED <<pending, flush>> => ScheduleInv'
  BY DEF ScheduleInv, InFlight
<1> QED BY <1>1, <1>2, <1>3, <1>4, <1>5, <1>6, <1>7, <1>8
        DEF Next, Settle, Send, LogFails

(* While log calls succeed, a flush of every backlog is armed, or one is   *)
(* in progress that looks again when it is done (broker.worker.ts:377-381, *)
(* 403-427).                                                               *)
THEOREM SchedulesCorrect ==
    ASSUME ~ LogMayFail
    PROVE  Spec => []FlushIsComing
<1>1. BrokerInv /\ ScheduleInv /\ [Next]_vars => ScheduleInv'
  <2>1. BrokerInv /\ ScheduleInv /\ Next => ScheduleInv'
    BY StepSchedule DEF BrokerInv
  <2>2. ScheduleInv /\ UNCHANGED vars => ScheduleInv'
    BY DEF vars, ScheduleInv, InFlight
  <2> QED BY <2>1, <2>2
<1>2. BrokerInv /\ ScheduleInv => FlushIsComing
  BY DEF BrokerInv, PendingInv, ScheduleInv, FlushIsComing
<1> QED BY <1>1, <1>2, InitBroker, BrokerCorrect, PTL DEF Spec

-----------------------------------------------------------------------------
(* The brokers implement MessageDelivery.                                  *)

(* What MessageDelivery sees of a message, by its container.               *)
SeenByContainer ==
    \A m \in Messages :
        /\ fate[m] # "live" => StatusOf(m) = fate[m] /\ HomeOf(m) = NoQueue
        /\ \A q \in Queues :
              m \in Content(<<"delayed", q>>) \cup Content(<<"backlog", q>>) =>
                  StatusOf(m) = "waiting" /\ HomeOf(m) = q
        /\ \A f \in Flights :
              /\ m \in Content(<<"todo", f>>) =>
                    StatusOf(m) = "out" /\ HomeOf(m) = flush[f].queue
              /\ m \in Content(<<"dead", f>>) =>
                    StatusOf(m) = "moving" /\ HomeOf(m) = flush[f].queue

LEMMA WaitingOutMoving ==
    ASSUME BrokerInv, NEW m \in Messages, NEW q \in Queues
    PROVE  /\ m \in Waiting(q) <=>
                 m \in Content(<<"delayed", q>>) \cup Content(<<"backlog", q>>)
           /\ m \in Out(q) <=>
                 \E f \in Flights : flush[f].queue = q /\ m \in Content(<<"todo", f>>)
           /\ m \in Moving(q) <=>
                 \E f \in Flights : flush[f].queue = q /\ m \in Content(<<"dead", f>>)
<1> USE DEF BrokerInv
<1>1. m \in Waiting(q) <=>
         m \in Content(<<"delayed", q>>) \cup Content(<<"backlog", q>>)
  BY ContentOf DEF Waiting
<1>2. ASSUME NEW f \in Flights
      PROVE  /\ m \in ToSet(flush[f].todo) => flush[f].phase \in {"dispatched", "settling"}
             /\ m \in ToSet(flush[f].dead) => flush[f].phase \in {"settling", "moving"}
  <2>1. CASE flush[f] = IdleFlush
    BY <2>1, EmptyHasNone DEF IdleFlush
  <2>2. CASE flush[f] \in ActiveFlush
    BY <2>2, EmptyHasNone DEF PhasesInv, ActiveFlush
  <2> QED BY <2>1, <2>2, FlushTypes
<1>3. m \in Out(q) <=>
         \E f \in Flights : flush[f].queue = q /\ m \in Content(<<"todo", f>>)
  BY <1>2, ContentOf DEF Out
<1>4. m \in Moving(q) <=>
         \E f \in Flights : flush[f].queue = q /\ m \in Content(<<"dead", f>>)
  BY <1>2, ContentOf DEF Moving
<1> QED BY <1>1, <1>3, <1>4

LEMMA SeenIs == BrokerInv => SeenByContainer
<1> SUFFICES ASSUME BrokerInv, NEW m \in Messages
             PROVE  /\ fate[m] # "live" => StatusOf(m) = fate[m] /\ HomeOf(m) = NoQueue
                    /\ \A q \in Queues :
                          m \in Content(<<"delayed", q>>) \cup Content(<<"backlog", q>>) =>
                              StatusOf(m) = "waiting" /\ HomeOf(m) = q
                    /\ \A f \in Flights :
                          /\ m \in Content(<<"todo", f>>) =>
                                StatusOf(m) = "out" /\ HomeOf(m) = flush[f].queue
                          /\ m \in Content(<<"dead", f>>) =>
                                StatusOf(m) = "moving" /\ HomeOf(m) = flush[f].queue
  BY DEF SeenByContainer
<1> USE DEF BrokerInv
<1>1. ASSUME fate[m] # "live" PROVE StatusOf(m) = fate[m] /\ HomeOf(m) = NoQueue
  BY <1>1 DEF StatusOf, HomeOf
<1>2. ASSUME NEW c \in Containers, m \in Content(c)
      PROVE  fate[m] = "live" /\ \A e \in Containers : m \in Content(e) <=> e = c
  BY <1>2 DEF InOneContainer
<1>3. ASSUME NEW q \in Queues, fate[m] = "live",
             \A p \in Queues : m \in Waiting(p) \cup Out(p) \cup Moving(p) <=> p = q
      PROVE  HomeOf(m) = q
  <2>1. q = CHOOSE p \in Queues : m \in Waiting(p) \cup Out(p) \cup Moving(p)
    BY <1>3
  <2> QED BY <1>3, <2>1 DEF HomeOf
<1>4. ASSUME NEW q \in Queues, NEW c \in Containers, m \in Content(c),
             c = <<"delayed", q>> \/ c = <<"backlog", q>>
      PROVE  StatusOf(m) = "waiting" /\ HomeOf(m) = q
  <2>1. /\ \A p \in Queues :
              m \in Content(<<"delayed", p>>) \cup Content(<<"backlog", p>>) <=> p = q
        /\ \A g \in Flights : m \notin Content(<<"todo", g>>)
                              /\ m \notin Content(<<"dead", g>>)
    BY <1>2, <1>4, ContainerKinds
  <2>2. \A p \in Queues : /\ m \in Waiting(p) <=> p = q
                          /\ m \notin Out(p) /\ m \notin Moving(p)
    BY <2>1, WaitingOutMoving
  <2>3. HomeOf(m) = q
    BY <1>2, <1>3, <1>4, <2>2
  <2> QED BY <1>2, <1>4, <2>2, <2>3 DEF StatusOf
<1>5. ASSUME NEW f \in Flights, m \in Content(<<"todo", f>>)
      PROVE  StatusOf(m) = "out" /\ HomeOf(m) = flush[f].queue
  <2>1. flush[f].queue \in Queues
    <3>1. ToSet(flush[f].todo) # {}
      BY <1>5, ContentOf
    <3> QED BY <3>1, FlushTypes, QueueAssumption, EmptyHasNone DEF IdleFlush, ActiveFlush
  <2>2. <<"todo", f>> \in Containers
    BY ContainerKinds
  <2>3. fate[m] = "live" /\ \A e \in Containers : m \in Content(e) <=> e = <<"todo", f>>
    BY <1>2, <1>5, <2>2
  <2>4. /\ \A p \in Queues : m \notin Content(<<"delayed", p>>)
                             /\ m \notin Content(<<"backlog", p>>)
        /\ \A g \in Flights : /\ m \notin Content(<<"dead", g>>)
                              /\ m \in Content(<<"todo", g>>) <=> g = f
    BY <2>3, ContainerKinds
  <2>5. \A p \in Queues : /\ m \notin Waiting(p) /\ m \notin Moving(p)
                          /\ m \in Out(p) <=> p = flush[f].queue
    BY <2>4, WaitingOutMoving
  <2>6. HomeOf(m) = flush[f].queue
    BY <1>3, <2>1, <2>3, <2>5
  <2> QED BY <2>1, <2>3, <2>5, <2>6 DEF StatusOf
<1>6. ASSUME NEW f \in Flights, m \in Content(<<"dead", f>>)
      PROVE  StatusOf(m) = "moving" /\ HomeOf(m) = flush[f].queue
  <2>1. flush[f].queue \in Queues
    <3>1. ToSet(flush[f].dead) # {}
      BY <1>6, ContentOf
    <3> QED BY <3>1, FlushTypes, QueueAssumption, EmptyHasNone DEF IdleFlush, ActiveFlush
  <2>2. <<"dead", f>> \in Containers
    BY ContainerKinds
  <2>3. fate[m] = "live" /\ \A e \in Containers : m \in Content(e) <=> e = <<"dead", f>>
    BY <1>2, <1>6, <2>2
  <2>4. /\ \A p \in Queues : m \notin Content(<<"delayed", p>>)
                             /\ m \notin Content(<<"backlog", p>>)
        /\ \A g \in Flights : /\ m \notin Content(<<"todo", g>>)
                              /\ m \in Content(<<"dead", g>>) <=> g = f
    BY <2>3, ContainerKinds
  <2>5. \A p \in Queues : /\ m \notin Waiting(p) /\ m \notin Out(p)
                          /\ m \in Moving(p) <=> p = flush[f].queue
    BY <2>4, WaitingOutMoving
  <2>6. HomeOf(m) = flush[f].queue
    BY <1>3, <2>1, <2>3, <2>5
  <2> QED BY <2>1, <2>3, <2>5, <2>6 DEF StatusOf
<1> QED BY <1>1, <1>4, <1>5, <1>6, ContainerKinds

LEMMA SeenNext == BrokerInv' => SeenByContainer'
BY SeenIs, PTL

(* What a step does not move looks the same afterwards.                    *)
LEMMA OthersStay ==
    ASSUME BrokerInv, BrokerInv', NEW ms, NEW d, Moves(ms, d),
           \A m \in Messages \ ms : fate'[m] = fate[m],
           \A f \in Flights : \/ flush'[f].queue = flush[f].queue
                              \/ ToSet(flush[f].todo) \cup ToSet(flush[f].dead)
                                    \subseteq ms
    PROVE  \A m \in Messages \ ms : StatusOf(m)' = StatusOf(m) /\ HomeOf(m)' = HomeOf(m)
<1> SUFFICES ASSUME NEW m \in Messages \ ms
             PROVE  StatusOf(m)' = StatusOf(m) /\ HomeOf(m)' = HomeOf(m)
  OBVIOUS
<1>1. SeenByContainer /\ SeenByContainer'
  BY SeenIs, SeenNext
<1>2. CASE fate[m] # "live"
  BY <1>1, <1>2 DEF SeenByContainer
<1>3. CASE fate[m] = "live"
  <2>1. PICK c \in Containers : m \in Content(c)
    BY <1>3 DEF BrokerInv, InOneContainer
  <2>2. m \in Content(c)'
    BY <2>1 DEF Moves
  <2>3. CASE \E q \in Queues : c = <<"delayed", q>> \/ c = <<"backlog", q>>
    BY <1>1, <2>1, <2>2, <2>3 DEF SeenByContainer
  <2>4. CASE \E f \in Flights : c = <<"todo", f>> \/ c = <<"dead", f>>
    <3>1. PICK f \in Flights : c = <<"todo", f>> \/ c = <<"dead", f>>
      BY <2>4
    <3>2. flush'[f].queue = flush[f].queue
      BY <2>1, <3>1, ContentOf
    <3>3. CASE c = <<"todo", f>>
      <4>1. StatusOf(m) = "out" /\ HomeOf(m) = flush[f].queue
        BY <1>1, <2>1, <3>3 DEF SeenByContainer
      <4>2. StatusOf(m)' = "out" /\ HomeOf(m)' = flush'[f].queue
        BY <1>1, <2>2, <3>3 DEF SeenByContainer
      <4> QED BY <3>2, <4>1, <4>2
    <3>4. CASE c = <<"dead", f>>
      <4>1. StatusOf(m) = "moving" /\ HomeOf(m) = flush[f].queue
        BY <1>1, <2>1, <3>4 DEF SeenByContainer
      <4>2. StatusOf(m)' = "moving" /\ HomeOf(m)' = flush'[f].queue
        BY <1>1, <2>2, <3>4 DEF SeenByContainer
      <4> QED BY <3>2, <4>1, <4>2
    <3> QED BY <3>1, <3>3, <3>4
  <2> QED BY <2>3, <2>4, ContainerKinds
<1> QED BY <1>2, <1>3

LEMMA Becomes ==
    ASSUME NEW ms \in SUBSET Messages, NEW s, NEW q,
           \A m \in ms : /\ StatusOf(m)' = s
                         /\ HomeOf(m)' = IF s \in Delivery!Finished THEN NoQueue ELSE q,
           \A m \in Messages \ ms : StatusOf(m)' = StatusOf(m) /\ HomeOf(m)' = HomeOf(m)
    PROVE  Delivery!Become(ms, s, q)
BY DEF Delivery!Become

LEMMA IsAt ==
    ASSUME NEW ms \in SUBSET Messages, NEW s, NEW q,
           \A m \in ms : StatusOf(m) = s /\ HomeOf(m) = q
    PROVE  Delivery!At(ms, s, q)
BY DEF Delivery!At

LEMMA SendRefines ==
    ASSUME BrokerInv, BrokerInv', NEW q \in Queues, NEW ms \in SUBSET Messages, Send(q, ms)
    PROVE  Delivery!Send(q, ms)
<1>1. SeenByContainer /\ SeenByContainer'
  BY SeenIs, SeenNext
<1>2. Moves(ms, IF q \in Consumed THEN <<"delayed", q>> ELSE Gone)
  BY SendMessages DEF BrokerInv, MessagesInv
<1>3. /\ \A m \in Messages \ ms : fate'[m] = fate[m]
      /\ flush' = flush /\ attempts' = attempts
      /\ \A m \in ms : fate[m] = "unsent"
  BY DEF Send
<1>4. \A m \in Messages \ ms : StatusOf(m)' = StatusOf(m) /\ HomeOf(m)' = HomeOf(m)
  BY <1>2, <1>3, OthersStay
<1>5. Delivery!At(ms, "unsent", NoQueue)
  <2>1. \A m \in ms : StatusOf(m) = "unsent" /\ HomeOf(m) = NoQueue
    BY <1>1, <1>3 DEF SeenByContainer
  <2> QED BY <2>1, IsAt
<1>6. CASE q \in Consumed
  <2>1. \A m \in ms : m \in Content(<<"delayed", q>>)'
    BY <1>2, <1>6, ContainerKinds DEF Moves
  <2>2. \A m \in ms : StatusOf(m)' = "waiting" /\ HomeOf(m)' = q
    BY <1>1, <2>1 DEF SeenByContainer
  <2>3. Delivery!Become(ms, "waiting", q)
    BY <1>4, <2>2, Becomes DEF Delivery!Finished
  <2> QED BY <1>3, <1>5, <1>6, <2>3 DEF Delivery!Send
<1>7. CASE q \notin Consumed
  <2>1. \A m \in ms : fate'[m] = "dropped"
    BY <1>7 DEF Send
  <2>2. \A m \in ms : StatusOf(m)' = "dropped" /\ HomeOf(m)' = NoQueue
    BY <1>1, <2>1 DEF SeenByContainer
  <2>3. Delivery!Become(ms, "dropped", q)
    BY <1>4, <2>2, Becomes DEF Delivery!Finished
  <2> QED BY <1>3, <1>5, <1>7, <2>3 DEF Delivery!Send
<1> QED BY <1>6, <1>7

LEMMA DeliverRefines ==
    ASSUME BrokerInv, BrokerInv', NEW q \in Queues, NEW m \in Messages, Deliver(q, m)
    PROVE  UNCHANGED Delivery!vars
<1>1. SeenByContainer /\ SeenByContainer'
  BY SeenIs, SeenNext
<1>2. Moves({m}, <<"backlog", q>>)
  BY DeliverMessages DEF BrokerInv, MessagesInv
<1>3. fate' = fate /\ flush' = flush /\ attempts' = attempts
  BY DEF Deliver
<1>4. \A n \in Messages \ {m} : StatusOf(n)' = StatusOf(n) /\ HomeOf(n)' = HomeOf(n)
  BY <1>2, <1>3, OthersStay
<1>5. StatusOf(m) = "waiting" /\ HomeOf(m) = q
  BY <1>1, ContentOf DEF Deliver, SeenByContainer
<1>6. StatusOf(m)' = "waiting" /\ HomeOf(m)' = q
  BY <1>1, <1>2, ContainerKinds DEF Moves, SeenByContainer
<1>7. \A n \in Messages : StatusOf(n)' = StatusOf(n) /\ HomeOf(n)' = HomeOf(n)
  BY <1>4, <1>5, <1>6
<1> QED BY <1>3, <1>7 DEF Delivery!vars

LEMMA DispatchRefines ==
    ASSUME BrokerInv, BrokerInv', NEW q \in Queues, NEW f \in Flights, TakeBatch(q, f)
    PROVE  Delivery!Dispatch(q, ToSet(Batch(q)))
<1> DEFINE ms == ToSet(Batch(q))
<1>1. SeenByContainer /\ SeenByContainer'
  BY SeenIs, SeenNext
<1>2. Moves(ms, <<"todo", f>>) /\ ms \subseteq Content(<<"backlog", q>>)
  BY TakeMessages DEF BrokerInv, MessagesInv
<1>3. Batch(q) \in Seq(Messages) /\ Len(Batch(q)) <= BatchSize /\ Len(Batch(q)) \in Nat
  BY BatchLengths, LimitAssumption DEF BrokerInv
<1>4. ms \in SUBSET Messages
  BY <1>3, MembersOf
<1>5. /\ fate' = fate /\ attempts' = attempts /\ flush[f] = IdleFlush
      /\ flush'[f].queue = q
      /\ \A g \in Flights \ {f} : flush'[g] = flush[g]
  BY DEF TakeBatch, BrokerInv, TypeOK
<1>6. ToSet(flush[f].todo) \cup ToSet(flush[f].dead) \subseteq ms
  BY <1>5, EmptyHasNone DEF IdleFlush
<1>7. Cardinality(ms) <= BatchSize
  <2> DEFINE n == Len(Batch(q))
  <2>1. Batch(q) \in [1..n -> ms] /\ \A m \in ms : \E i \in 1..n : Batch(q)[i] = m
    BY <1>3 DEF ToSet
  <2>2. ExistsSurjection(1..n, ms)
    BY <2>1 DEF ExistsSurjection, Surjection
  <2>3. Cardinality(ms) <= n
    BY <1>3, <2>2, FS_SurjCardinalityBound
  <2>4. Cardinality(ms) \in Nat
    <3>1. IsFiniteSet(ms)
      BY <1>3, <2>2, FS_NatSurjection
    <3> QED BY <3>1, FS_CardinalityType
  <2> QED BY <1>3, <2>3, <2>4, LimitAssumption
<1> HIDE DEF ms
<1>8. \A m \in Messages \ ms : StatusOf(m)' = StatusOf(m) /\ HomeOf(m)' = HomeOf(m)
  BY <1>2, <1>5, <1>6, OthersStay
<1>9. Delivery!At(ms, "waiting", q)
  <2>1. \A m \in ms : StatusOf(m) = "waiting" /\ HomeOf(m) = q
    BY <1>1, <1>2, <1>4 DEF SeenByContainer
  <2> QED BY <1>4, <2>1, IsAt
<1>10. Delivery!Become(ms, "out", q)
  <2>1. \A m \in ms : m \in Content(<<"todo", f>>)'
    BY <1>2, ContainerKinds DEF Moves
  <2>2. \A m \in ms : StatusOf(m)' = "out" /\ HomeOf(m)' = q
    BY <1>1, <1>4, <1>5, <2>1 DEF SeenByContainer
  <2> QED BY <1>4, <1>8, <2>2, Becomes DEF Delivery!Finished
<1>11. Delivery!Dispatch(q, ms)
  <2>1. Delivery!Cardinality(ms) = Cardinality(ms)
    BY Zenon DEF Delivery!Cardinality, Cardinality
  <2> QED BY <1>5, <1>7, <1>9, <1>10, <2>1 DEF Delivery!Dispatch
<1> QED BY <1>11 DEF ms

LEMMA AnswerRefines ==
    ASSUME BrokerInv, BrokerInv', NEW f \in Flights,
           NEW failed \in Subsequences(flush[f].todo), Answer(f, failed)
    PROVE  \E q \in Queues, ms \in SUBSET Messages : Delivery!Ack(q, ms)
<1>0. PICK q \in Queues : q = flush[f].queue
  BY FlushTypes, QueueAssumption DEF Answer, BrokerInv
<1>1. PICK ms : ms = ToSet(flush[f].todo) \ ToSet(failed)
  OBVIOUS
<1>2. SeenByContainer /\ SeenByContainer'
  BY SeenIs, SeenNext
<1>3. Moves(ms, Gone)
  BY <1>1, AnswerMessages DEF BrokerInv, MessagesInv
<1>4. ms \in SUBSET Messages
  BY <1>1, FlushTypes, MembersOf DEF BrokerInv
<1>5. /\ \A m \in Messages : fate'[m] = IF m \in ms THEN "acked" ELSE fate[m]
      /\ attempts' = attempts
  BY <1>1 DEF Answer
<1>6. \A g \in Flights : flush'[g].queue = flush[g].queue
  <2>1. flush[f] \in ActiveFlush
    BY FlushTypes DEF Answer, BrokerInv
  <2> QED BY <2>1 DEF Answer, BrokerInv, TypeOK, ActiveFlush
<1>7. \A m \in Messages \ ms : StatusOf(m)' = StatusOf(m) /\ HomeOf(m)' = HomeOf(m)
  BY <1>3, <1>5, <1>6, OthersStay
<1>8. Delivery!At(ms, "out", q)
  <2>1. \A m \in ms : m \in Content(<<"todo", f>>)
    BY <1>1, ContentOf
  <2>2. \A m \in ms : StatusOf(m) = "out" /\ HomeOf(m) = q
    BY <1>0, <1>2, <1>4, <2>1 DEF SeenByContainer
  <2> QED BY <1>4, <2>2, IsAt
<1>9. Delivery!Become(ms, "acked", q)
  <2>1. \A m \in ms : StatusOf(m)' = "acked" /\ HomeOf(m)' = NoQueue
    BY <1>2, <1>4, <1>5 DEF SeenByContainer
  <2> QED BY <1>4, <1>7, <2>1, Becomes DEF Delivery!Finished
<1>10. Delivery!Ack(q, ms)
  BY <1>5, <1>8, <1>9 DEF Delivery!Ack
<1> QED BY <1>4, <1>10

(* The first failed message is tried again, moved or dropped, by the tries *)
(* that it had.                                                            *)
LEMMA FailRefines ==
    ASSUME BrokerInv, BrokerInv', NEW f \in Flights, Retry(f) \/ GiveUp(f)
    PROVE  \E q \in Queues, m \in Messages : Delivery!Fail(q, m)
<1>0. PICK q \in Queues : q = flush[f].queue
  BY FlushTypes, QueueAssumption DEF Retry, GiveUp, BrokerInv
<1>1. PICK m \in Messages : m = Head(flush[f].todo)
  BY FlushTypes DEF Retry, GiveUp, BrokerInv
<1>2. SeenByContainer /\ SeenByContainer'
  BY SeenIs, SeenNext
<1>3. \A g \in Flights : flush'[g].queue = flush[g].queue
  <2>1. flush[f] \in ActiveFlush
    BY FlushTypes DEF Retry, GiveUp, BrokerInv
  <2>2. CASE Retry(f)
    BY <2>1, <2>2 DEF Retry, BrokerInv, TypeOK, ActiveFlush
  <2>3. CASE GiveUp(f) /\ DeadLetter[flush[f].queue] # NoQueue
    <3>1. flush' = [flush EXCEPT ![f].todo = Tail(@),
                                 ![f].dead = Append(@, Head(flush[f].todo))]
      BY <2>3 DEF GiveUp
    <3> QED BY <2>1, <3>1 DEF BrokerInv, TypeOK, ActiveFlush
  <2>4. CASE GiveUp(f) /\ DeadLetter[flush[f].queue] = NoQueue
    <3>1. flush' = [flush EXCEPT ![f].todo = Tail(@)]
      BY <2>4 DEF GiveUp
    <3> QED BY <2>1, <3>1 DEF BrokerInv, TypeOK, ActiveFlush
  <2> QED BY <2>2, <2>3, <2>4
<1>4. Delivery!At({m}, "out", q)
  <2>1. m \in Content(<<"todo", f>>)
    <3>1. flush[f].todo # <<>> /\ flush[f].todo \in Seq(Messages)
          /\ IsInjective(flush[f].todo)
      BY FlushTypes DEF Retry, GiveUp, BrokerInv, NoRepetitions
    <3> QED BY <1>1, <3>1, TailMembers, ContentOf
  <2>2. StatusOf(m) = "out" /\ HomeOf(m) = q
    BY <1>0, <1>2, <2>1 DEF SeenByContainer
  <2> QED BY <2>2, IsAt
<1>5. attempts' = [attempts EXCEPT ![m] = @ + 1]
  BY <1>1 DEF Retry, GiveUp
<1>6. CASE Retry(f)
  <2>1. attempts[m] + 1 < MaxAttempts /\ fate' = fate
    BY <1>1, <1>6 DEF Retry, HasRetries
  <2>2. Moves({m}, <<"delayed", q>>)
    BY <1>0, <1>1, <1>6, RetryMessages DEF BrokerInv, MessagesInv
  <2>3. \A n \in Messages \ {m} : StatusOf(n)' = StatusOf(n) /\ HomeOf(n)' = HomeOf(n)
    BY <1>3, <2>1, <2>2, OthersStay
  <2>4. m \in Content(<<"delayed", q>>)'
    BY <2>2, ContainerKinds DEF Moves
  <2>5. StatusOf(m)' = "waiting" /\ HomeOf(m)' = q
    BY <1>2, <2>4 DEF SeenByContainer
  <2>6. Delivery!Become({m}, "waiting", q)
    BY <2>3, <2>5, Becomes DEF Delivery!Finished
  <2>7. Delivery!Fail(q, m)
    BY <1>4, <1>5, <2>1, <2>6 DEF Delivery!Fail
  <2> QED BY <2>7
<1>7. CASE GiveUp(f) /\ DeadLetter[q] # NoQueue
  <2>1. ~ (attempts[m] + 1 < MaxAttempts) /\ fate' = fate
    BY <1>0, <1>1, <1>7 DEF GiveUp, HasRetries
  <2>2. Moves({m}, <<"dead", f>>)
    BY <1>0, <1>1, <1>7, GiveUpMessages DEF BrokerInv, MessagesInv
  <2>3. \A n \in Messages \ {m} : StatusOf(n)' = StatusOf(n) /\ HomeOf(n)' = HomeOf(n)
    BY <1>3, <2>1, <2>2, OthersStay
  <2>4. m \in Content(<<"dead", f>>)'
    BY <2>2, ContainerKinds DEF Moves
  <2>5. StatusOf(m)' = "moving" /\ HomeOf(m)' = q
    BY <1>0, <1>2, <1>3, <2>4 DEF SeenByContainer
  <2>6. Delivery!Become({m}, "moving", q)
    BY <2>3, <2>5, Becomes DEF Delivery!Finished
  <2>7. Delivery!Fail(q, m)
    BY <1>4, <1>5, <1>7, <2>1, <2>6 DEF Delivery!Fail
  <2> QED BY <2>7
<1>8. CASE GiveUp(f) /\ DeadLetter[q] = NoQueue
  <2>1. ~ (attempts[m] + 1 < MaxAttempts) /\ fate' = [fate EXCEPT ![m] = "dropped"]
    BY <1>0, <1>1, <1>8 DEF GiveUp, HasRetries
  <2>2. Moves({m}, Gone)
    BY <1>0, <1>1, <1>8, GiveUpMessages DEF BrokerInv, MessagesInv
  <2>3. \A n \in Messages \ {m} : fate'[n] = fate[n]
    BY <2>1 DEF BrokerInv, TypeOK
  <2>4. \A n \in Messages \ {m} : StatusOf(n)' = StatusOf(n) /\ HomeOf(n)' = HomeOf(n)
    BY <1>3, <2>2, <2>3, OthersStay
  <2>5. fate'[m] = "dropped"
    BY <2>1 DEF BrokerInv, TypeOK
  <2>6. StatusOf(m)' = "dropped" /\ HomeOf(m)' = NoQueue
    BY <1>2, <2>5 DEF SeenByContainer
  <2>7. Delivery!Become({m}, "dropped", q)
    BY <2>4, <2>6, Becomes DEF Delivery!Finished
  <2>8. Delivery!Fail(q, m)
    BY <1>4, <1>5, <1>8, <2>1, <2>7 DEF Delivery!Fail
  <2> QED BY <2>8
<1> QED BY <1>6, <1>7, <1>8

LEMMA FinishRefines ==
    ASSUME BrokerInv, BrokerInv', NEW f \in Flights, FinishFlush(f)
    PROVE  UNCHANGED Delivery!vars
<1>1. /\ fate' = fate /\ attempts' = attempts
      /\ \A c \in Containers : Content(c)' = Content(c)
  BY FinishMessages DEF FinishFlush, BrokerInv, MessagesInv
<1>2. Moves({}, Gone)
  BY <1>1 DEF Moves
<1>3. \A g \in Flights : \/ flush'[g].queue = flush[g].queue
                         \/ ToSet(flush[g].todo) \cup ToSet(flush[g].dead) \subseteq {}
  <2>1. flush[f] \in ActiveFlush /\ flush[f].todo = <<>>
    BY FlushTypes DEF FinishFlush, BrokerInv
  <2>2. CASE flush[f].dead = <<>>
    BY <2>1, <2>2, EmptyHasNone DEF FinishFlush, BrokerInv, TypeOK
  <2>3. CASE flush[f].dead # <<>>
    BY <2>1, <2>3 DEF FinishFlush, BrokerInv, TypeOK, ActiveFlush
  <2> QED BY <2>2, <2>3
<1>4. \A m \in Messages : StatusOf(m)' = StatusOf(m) /\ HomeOf(m)' = HomeOf(m)
  <2>1. \A m \in Messages \ {} : StatusOf(m)' = StatusOf(m) /\ HomeOf(m)' = HomeOf(m)
    BY <1>1, <1>2, <1>3, OthersStay
  <2> QED BY <2>1
<1> QED BY <1>1, <1>4 DEF Delivery!vars

(* The dead letters start to wait on their queue, or are dropped.          *)
LEMMA MoveRefines ==
    ASSUME BrokerInv, BrokerInv', NEW f \in Flights, MoveDeadLetters(f)
    PROVE  \E q \in Queues, ms \in SUBSET Messages : Delivery!Move(q, ms)
<1>0. PICK q \in Queues : q = flush[f].queue
  BY FlushTypes, QueueAssumption DEF MoveDeadLetters, BrokerInv
<1>1. PICK ms : ms = ToSet(flush[f].dead)
  OBVIOUS
<1>2. PICK d : d = DeadLetter[q]
  OBVIOUS
<1>3. SeenByContainer /\ SeenByContainer'
  BY SeenIs, SeenNext
<1>4. Moves(ms, IF d \in Consumed THEN <<"delayed", d>> ELSE Gone)
  BY <1>0, <1>1, <1>2, DeadLetterMessages DEF BrokerInv, MessagesInv
<1>5. ms \in SUBSET Messages
  BY <1>1, FlushTypes, MembersOf DEF BrokerInv
<1>6. \A m \in Messages \ ms : fate'[m] = fate[m]
  BY <1>1 DEF MoveDeadLetters
<1>7. \A g \in Flights : \/ flush'[g].queue = flush[g].queue
                         \/ ToSet(flush[g].todo) \cup ToSet(flush[g].dead) \subseteq ms
  <2>1. ToSet(flush[f].todo) = {}
    BY EmptyHasNone DEF MoveDeadLetters, BrokerInv, PhasesInv
  <2>2. \A g \in Flights \ {f} : flush'[g] = flush[g]
    BY DEF MoveDeadLetters, BrokerInv, TypeOK
  <2> QED BY <1>1, <2>1, <2>2
<1>8. \A m \in Messages \ ms : StatusOf(m)' = StatusOf(m) /\ HomeOf(m)' = HomeOf(m)
  BY <1>4, <1>6, <1>7, OthersStay
<1>9. Delivery!At(ms, "moving", q)
  <2>1. \A m \in ms : m \in Content(<<"dead", f>>)
    BY <1>1, ContentOf
  <2>2. \A m \in ms : StatusOf(m) = "moving" /\ HomeOf(m) = q
    BY <1>0, <1>3, <1>5, <2>1 DEF SeenByContainer
  <2> QED BY <1>5, <2>2, IsAt
<1>10. CASE d \in Consumed
  <2>1. d \in Queues
    BY <1>10, QueueAssumption
  <2>2. attempts' = [m \in Messages |-> IF m \in ms THEN 0 ELSE attempts[m]]
    BY <1>0, <1>1, <1>2, <1>10 DEF MoveDeadLetters, AttemptsReset
  <2>3. \A m \in ms : m \in Content(<<"delayed", d>>)'
    BY <1>4, <1>10, <2>1, ContainerKinds DEF Moves
  <2>4. \A m \in ms : StatusOf(m)' = "waiting" /\ HomeOf(m)' = d
    BY <1>3, <1>5, <2>1, <2>3 DEF SeenByContainer
  <2>5. Delivery!Become(ms, "waiting", d)
    BY <1>5, <1>8, <2>4, Becomes DEF Delivery!Finished
  <2>6. Delivery!Move(q, ms)
    BY <1>2, <1>9, <1>10, <2>2, <2>5 DEF Delivery!Move
  <2> QED BY <1>5, <2>6
<1>11. CASE d \notin Consumed
  <2>1. attempts' = attempts /\ \A m \in ms : fate'[m] = "dropped"
    BY <1>0, <1>1, <1>2, <1>5, <1>11 DEF MoveDeadLetters
  <2>2. \A m \in ms : StatusOf(m)' = "dropped" /\ HomeOf(m)' = NoQueue
    BY <1>3, <1>5, <2>1 DEF SeenByContainer
  <2>3. Delivery!Become(ms, "dropped", d)
    BY <1>5, <1>8, <2>2, Becomes DEF Delivery!Finished
  <2>4. Delivery!Move(q, ms)
    BY <1>2, <1>9, <1>11, <2>1, <2>3 DEF Delivery!Move
  <2> QED BY <1>5, <2>4
<1> QED BY <1>10, <1>11

(* A failed call loses what its flush held.                                *)
LEMMA LoseRefines ==
    ASSUME BrokerInv, BrokerInv', NEW f \in Flights, LoseDeadLetters(f) \/ LogFails(f)
    PROVE  \E ms \in SUBSET Messages : Delivery!Lose(ms)
<1>1. PICK ms : ms = ToSet(flush[f].todo) \cup ToSet(flush[f].dead)
  OBVIOUS
<1>2. SeenByContainer /\ SeenByContainer'
  BY SeenIs, SeenNext
<1>3. Moves(ms, Gone) /\ \A m \in ms : fate'[m] = "lost"
  BY <1>1, LoseMessages DEF BrokerInv, MessagesInv
<1>4. ms \in SUBSET Messages
  BY <1>1, FlushTypes, MembersOf DEF BrokerInv
<1>5. attempts' = attempts /\ \A m \in Messages \ ms : fate'[m] = fate[m]
  BY <1>1 DEF LoseDeadLetters, LogFails
<1>6. \A g \in Flights : \/ flush'[g].queue = flush[g].queue
                         \/ ToSet(flush[g].todo) \cup ToSet(flush[g].dead) \subseteq ms
  <2>1. \A g \in Flights \ {f} : flush'[g] = flush[g]
    BY DEF LoseDeadLetters, LogFails, BrokerInv, TypeOK
  <2> QED BY <1>1, <2>1
<1>7. \A m \in Messages \ ms : StatusOf(m)' = StatusOf(m) /\ HomeOf(m)' = HomeOf(m)
  BY <1>3, <1>5, <1>6, OthersStay
<1>8. \A m \in ms : StatusOf(m) \in {"out", "moving"}
  <2>1. \A m \in ms : m \in Content(<<"todo", f>>) \/ m \in Content(<<"dead", f>>)
    BY <1>1, ContentOf
  <2> QED BY <1>2, <1>4, <2>1 DEF SeenByContainer
<1>9. \A m \in ms : StatusOf(m)' = "lost" /\ HomeOf(m)' = NoQueue
  BY <1>2, <1>3, <1>4 DEF SeenByContainer
<1>10. Delivery!Become(ms, "lost", NoQueue)
  BY <1>4, <1>7, <1>9, Becomes DEF Delivery!Finished
<1>11. Delivery!Lose(ms)
  BY <1>4, <1>5, <1>8, <1>10 DEF Delivery!Lose
<1> QED BY <1>4, <1>11

LEMMA InitRefines == Init => Delivery!Init
<1> SUFFICES ASSUME Init PROVE Delivery!Init
  OBVIOUS
<1>1. SeenByContainer
  BY InitBroker, SeenIs
<1>2. \A m \in Messages : StatusOf(m) = "unsent" /\ HomeOf(m) = NoQueue
  BY <1>1 DEF Init, SeenByContainer
<1> QED BY <1>2 DEF Init, Delivery!Init

(* A step of the brokers is a step of MessageDelivery or changes nothing   *)
(* that it sees.                                                           *)
LEMMA StepRefines ==
    ASSUME BrokerInv, BrokerInv', [Next]_vars
    PROVE  [Delivery!Next]_(Delivery!vars)
<1>1. ASSUME NEW q \in Queues, NEW ms \in SUBSET Messages, Send(q, ms)
      PROVE  Delivery!Next
  BY <1>1, SendRefines DEF Delivery!Next
<1>2. ASSUME NEW q \in Queues, NEW m \in Messages, Deliver(q, m)
      PROVE  UNCHANGED Delivery!vars
  BY <1>2, DeliverRefines
<1>3. ASSUME NEW q \in Queues, NEW f \in Flights, TakeBatch(q, f)
      PROVE  Delivery!Next
  <2>1. ToSet(Batch(q)) \in SUBSET Messages
    BY BatchLengths, MembersOf DEF BrokerInv
  <2>2. Delivery!Dispatch(q, ToSet(Batch(q)))
    BY <1>3, DispatchRefines
  <2> QED BY <2>1, <2>2 DEF Delivery!Next
<1>4. ASSUME NEW f \in Flights, NEW failed \in Subsequences(flush[f].todo),
             Answer(f, failed)
      PROVE  Delivery!Next
  BY <1>4, AnswerRefines DEF Delivery!Next
<1>5. ASSUME NEW f \in Flights, Retry(f) \/ GiveUp(f)
      PROVE  Delivery!Next
  BY <1>5, FailRefines DEF Delivery!Next
<1>6. ASSUME NEW f \in Flights, FinishFlush(f)
      PROVE  UNCHANGED Delivery!vars
  BY <1>6, FinishRefines
<1>7. ASSUME NEW f \in Flights, MoveDeadLetters(f)
      PROVE  Delivery!Next
  BY <1>7, MoveRefines DEF Delivery!Next
<1>8. ASSUME NEW f \in Flights, LoseDeadLetters(f) \/ LogFails(f)
      PROVE  Delivery!Next
  BY <1>8, LoseRefines DEF Delivery!Next
<1>9. ASSUME UNCHANGED vars
      PROVE  UNCHANGED Delivery!vars
  BY <1>9 DEF vars, Delivery!vars, StatusOf, HomeOf, Waiting, Out, Moving
<1>10. ASSUME NEW f \in Flights, Settle(f)
       PROVE  [Delivery!Next]_(Delivery!vars)
  BY <1>5, <1>6, <1>7, <1>8, <1>10 DEF Settle
<1>11. ASSUME NEW q \in Queues, NEW f \in Flights, PendingFires(q, f) \/ OrphanFires(q, f)
       PROVE  Delivery!Next
  BY <1>3, <1>11 DEF PendingFires, OrphanFires
<1> QED BY <1>1, <1>2, <1>4, <1>9, <1>10, <1>11 DEF Next

(* The brokers keep the promise of MessageDelivery: one consumer at a      *)
(* time, at most BatchLimit messages in a batch, at most TryLimit tries on *)
(* a queue, and nothing given up before (broker.worker.ts).                *)
THEOREM DeliveryCorrect == Spec => ImplementsDelivery
<1>1. BrokerInv /\ BrokerInv' /\ [Next]_vars => [Delivery!Next]_(Delivery!vars)
  BY StepRefines
<1> QED BY <1>1, InitRefines, BrokerCorrect, PTL
        DEF Spec, ImplementsDelivery, Delivery!Spec
=============================================================================
