----------------------- MODULE TransportReceiverProofs -----------------------
(***************************************************************************)
(* Proofs about PartnerLedger and TransportReceiver.  The ledger in memory *)
(* and the one on file are the same until a save has failed; the receiver  *)
(* in memory is never behind its file in its sequences, which is what      *)
(* keeps an event whose receipt was dropped from being receipted again.    *)
(***************************************************************************)
EXTENDS TransportReceiver, FiniteSetTheorems, TLAPS

-----------------------------------------------------------------------------
(* Sums over finite sets.  MapThenSumSet is computed by a function on the  *)
(* subsets of a set that is defined by recursion; that there is such a     *)
(* function, and only one, is proved here, and that the order in which it  *)
(* takes the elements does not matter.                                     *)

\* The sum of h over S, and what its function says of the subsets of S.
Sum(h, S) == MapThenSumSet(LAMBDA x : h[x], S)
First(s) == CHOOSE x \in s : TRUE
Sums(h, S, g) == g = [s \in SUBSET S |-> IF s = {} THEN 0 ELSE h[First(s)] + g[s \ {First(s)}]]

-----------------------------------------------------------------------------
LEMMA FirstIn == \A s : s # {} => First(s) \in s
BY DEF First

\* Of some subsets of a finite set one includes no other.
LEMMA LeastSubset ==
  ASSUME NEW S, IsFiniteSet(S), NEW T, T \subseteq SUBSET S, T # {}
  PROVE  \E t \in T : \A u \in T : u \subseteq t => u = t
<1>1. T \subseteq FiniteSubsetsOf(S)
  BY FS_Subset DEF FiniteSubsetsOf
<1>2. IsWellFoundedOn(StrictSubsetOrdering(S), FiniteSubsetsOf(S))
  BY FS_StrictSubsetOrderingWellFounded
<1>3. PICK t \in T : \A u \in T : <<u, t>> \notin StrictSubsetOrdering(S)
  BY <1>1, <1>2, WFMin
<1>. QED
  BY <1>3 DEF StrictSubsetOrdering

\* A set of naturals has a least element: of the initial segments they end, one is
\* included in the others.
LEMMA LeastElement ==
  ASSUME NEW S, S \subseteq Nat, S # {}
  PROVE  \E i \in S : \A j \in S : i <= j
<1> DEFINE Upto(i) == 0..i
           T == {Upto(i) : i \in S}
<1>1. T \subseteq FiniteSubsetsOf(Nat)
  <2>1. \A i \in S : Upto(i) \subseteq Nat /\ IsFiniteSet(Upto(i))
    BY FS_Interval
  <2>2. QED
    BY <2>1 DEF FiniteSubsetsOf
<1>2. T # {}
  OBVIOUS
<1>3. IsWellFoundedOn(StrictSubsetOrdering(Nat), FiniteSubsetsOf(Nat))
  BY FS_StrictSubsetOrderingWellFounded
<1>4. PICK t \in T : \A u \in T : <<u, t>> \notin StrictSubsetOrdering(Nat)
  <2> HIDE DEF T
  <2>1. QED
    BY <1>1, <1>2, <1>3, WFMin
<1>5. PICK i \in S : t = Upto(i)
  OBVIOUS
<1>6. \A j \in S : ~(j < i)
  <2>1. SUFFICES ASSUME NEW j \in S, j < i PROVE FALSE
    OBVIOUS
  <2>2. Upto(j) \in SUBSET Nat /\ Upto(i) \in SUBSET Nat
    OBVIOUS
  <2>3. Upto(j) \subseteq Upto(i) /\ i \in Upto(i) /\ i \notin Upto(j)
    BY <2>1
  <2>4. <<Upto(j), Upto(i)>> \in StrictSubsetOrdering(Nat)
    BY <2>2, <2>3 DEF StrictSubsetOrdering
  <2>5. QED
    BY <1>4, <1>5, <2>4
<1>7. QED
  BY <1>6

\* Of a finite set one is the greatest by a function to the integers: of the sets
\* of those that are no smaller than one of them, the smallest is its.
LEMMA Greatest ==
  ASSUME NEW S, IsFiniteSet(S), S # {}, NEW f, \A x \in S : f[x] \in Int
  PROVE  \E x \in S : \A y \in S : f[y] <= f[x]
<1>. DEFINE Above(x) == {y \in S : f[x] <= f[y]}
            T == {Above(x) : x \in S}
<1>1. T # {} /\ T \subseteq SUBSET S
  OBVIOUS
<1>2. PICK t \in T : \A u \in T : u \subseteq t => u = t
  <2>. HIDE DEF T
  <2>. QED
    BY <1>1, LeastSubset
<1>3. PICK x \in S : t = Above(x)
  OBVIOUS
<1>4. ASSUME NEW y \in S, ~(f[y] <= f[x]) PROVE FALSE
  <2>1. Above(y) \subseteq Above(x) /\ x \in Above(x) /\ x \notin Above(y)
    BY <1>4
  <2>. QED
    BY <1>2, <1>3, <2>1
<1>. QED
  BY <1>4

\* What two such functions say of a set is the same.
LEMMA SumsAgree ==
  ASSUME NEW S, IsFiniteSet(S), NEW A, NEW B, A \subseteq S, B \subseteq S,
         NEW h, NEW f, NEW g, Sums(h, A, f), Sums(h, B, g)
  PROVE  \A s \in SUBSET (A \cap B) : f[s] = g[s]
<1>. DEFINE T == {s \in SUBSET (A \cap B) : f[s] # g[s]}
<1>1. SUFFICES ASSUME T # {} PROVE FALSE
  OBVIOUS
<1>2. PICK t \in T : \A u \in T : u \subseteq t => u = t
  <2>1. T \subseteq SUBSET S
    OBVIOUS
  <2>. HIDE DEF T
  <2>. QED
    BY <1>1, <2>1, LeastSubset
<1>3. /\ t \in SUBSET A /\ t \in SUBSET B /\ f[t] # g[t]
      /\ f[t] = IF t = {} THEN 0 ELSE h[First(t)] + f[t \ {First(t)}]
      /\ g[t] = IF t = {} THEN 0 ELSE h[First(t)] + g[t \ {First(t)}]
  BY DEF Sums
<1>4. t # {} /\ First(t) \in t
  BY <1>3, FirstIn
<1>5. f[t \ {First(t)}] = g[t \ {First(t)}]
  BY <1>2, <1>3, <1>4
<1>. QED
  BY <1>3, <1>4, <1>5

\* There is one.
LEMMA SumsExist ==
  ASSUME NEW S, IsFiniteSet(S), NEW h
  PROVE  \E g : Sums(h, S, g)
<1>. DEFINE T == {s \in SUBSET S : ~ \E g : Sums(h, s, g)}
<1>1. SUFFICES ASSUME T # {} PROVE FALSE
  OBVIOUS
<1>2. PICK t \in T : \A u \in T : u \subseteq t => u = t
  <2>1. T \subseteq SUBSET S
    OBVIOUS
  <2>. HIDE DEF T
  <2>. QED
    BY <1>1, <2>1, LeastSubset
<1>3. t \subseteq S /\ ~ \E g : Sums(h, t, g)
  OBVIOUS
<1>. DEFINE Of(u) == CHOOSE g : Sums(h, u, g)
            Value(u) == Of(u)[u]
            G == [s \in SUBSET t |-> IF s = {} THEN 0 ELSE h[First(s)] + Value(s \ {First(s)})]
<1>4. ASSUME NEW u \in SUBSET t, u # t
      PROVE  Sums(h, u, Of(u))
  <2>1. \E g : Sums(h, u, g)
    BY <1>2, <1>3, <1>4
  <2>. QED
    BY <2>1
<1>. HIDE DEF T, Of
<1>5. ASSUME NEW u \in SUBSET t, u # t
      PROVE  Value(u) = IF u = {} THEN 0 ELSE h[First(u)] + Value(u \ {First(u)})
  <2>. DEFINE w == u \ {First(u)}
  <2>1. Sums(h, u, Of(u)) /\ Sums(h, w, Of(w))
    <3>1. w \in SUBSET t /\ w # t
      BY <1>5, FirstIn
    <3>. QED
      BY <1>4, <1>5, <3>1
  <2>2. Of(u)[w] = Of(w)[w]
    <3>1. w \in SUBSET (u \cap w) /\ u \subseteq S /\ w \subseteq S
      BY <1>3
    <3>. HIDE DEF w
    <3>. QED
      BY <2>1, <3>1, SumsAgree
  <2>3. Of(u)[u] = IF u = {} THEN 0 ELSE h[First(u)] + Of(u)[w]
    <3>1. u \in SUBSET u
      OBVIOUS
    <3>. QED
      BY <2>1, <3>1 DEF Sums
  <2>. QED
    BY <2>2, <2>3
<1>6. ASSUME NEW s \in SUBSET t, s # {}
      PROVE  G[s \ {First(s)}] = Value(s \ {First(s)})
  <2>. DEFINE u == s \ {First(s)}
  <2>1. u \in SUBSET t /\ u # t
    BY <1>6, FirstIn
  <2>2. G[u] = IF u = {} THEN 0 ELSE h[First(u)] + Value(u \ {First(u)})
    BY <2>1
  <2>. HIDE DEF u, G, Value
  <2>3. G[u] = Value(u)
    BY <1>5, <2>1, <2>2
  <2>. QED
    BY <2>3 DEF u
<1>7. Sums(h, t, G)
  <2>. HIDE DEF Value
  <2>1. \A s \in SUBSET t : G[s] = IF s = {} THEN 0 ELSE h[First(s)] + G[s \ {First(s)}]
    BY <1>6
  <2>2. G = [s \in SUBSET t |-> G[s]]
    OBVIOUS
  <2>. HIDE DEF G
  <2>. QED
    BY <2>1, <2>2 DEF Sums
<1>. QED
  BY <1>3, <1>7

\* Any such function gives the sum.
LEMMA SumIs ==
  ASSUME NEW S, IsFiniteSet(S), NEW h, NEW f, Sums(h, S, f)
  PROVE  Sum(h, S) = f[S]
<1>1. Sum(h, S) = (CHOOSE g : Sums(h, S, g))[S]
  BY DEF Sum, MapThenSumSet, MapThenFoldSet, Sums, First
<1>2. Sums(h, S, CHOOSE g : Sums(h, S, g))
  OBVIOUS
<1>. DEFINE c == CHOOSE g : Sums(h, S, g)
<1>. HIDE DEF c
<1>3. Sums(h, S, c) /\ Sum(h, S) = c[S]
  BY <1>1, <1>2 DEF c
<1>4. S \in SUBSET (S \cap S)
  OBVIOUS
<1>. QED
  BY <1>3, <1>4, SumsAgree

\* The sum over no element, and over some.
LEMMA SumEmpty == \A h : Sum(h, {}) = 0
<1>1. SUFFICES ASSUME NEW h PROVE Sum(h, {}) = 0
  OBVIOUS
<1>2. IsFiniteSet({})
  BY FS_EmptySet
<1>3. PICK g : Sums(h, {}, g)
  BY <1>2, SumsExist
<1>4. g[{}] = 0
  <2>1. {} \in SUBSET {}
    OBVIOUS
  <2>. QED
    BY <1>3, <2>1 DEF Sums
<1>. QED
  BY <1>2, <1>3, <1>4, SumIs

LEMMA SumFirst ==
  ASSUME NEW S, IsFiniteSet(S), NEW h, S # {}
  PROVE  Sum(h, S) = h[First(S)] + Sum(h, S \ {First(S)})
<1>. DEFINE R == S \ {First(S)}
<1>1. IsFiniteSet(R) /\ R \subseteq S
  BY FS_RemoveElement
<1>. HIDE DEF R
<1>2. PICK g : Sums(h, S, g)
  BY SumsExist
<1>3. PICK f : Sums(h, R, f)
  BY <1>1, SumsExist
<1>4. f[R] = g[R]
  <2>1. R \in SUBSET (R \cap S)
    BY <1>1
  <2>. QED
    BY <1>1, <1>2, <1>3, <2>1, SumsAgree
<1>5. g[S] = h[First(S)] + g[R]
  <2>1. S \in SUBSET S
    OBVIOUS
  <2>. QED
    BY <1>2, <2>1 DEF Sums, R
<1>6. Sum(h, S) = g[S] /\ Sum(h, R) = f[R]
  BY <1>1, <1>2, <1>3, SumIs
<1>. QED
  BY <1>4, <1>5, <1>6 DEF R

\* A sum of integers is an integer, and of naturals a natural.
LEMMA SumType ==
  ASSUME NEW S, IsFiniteSet(S), NEW h, \A x \in S : h[x] \in Int
  PROVE  Sum(h, S) \in Int /\ ((\A x \in S : h[x] >= 0) => Sum(h, S) >= 0)
<1>. DEFINE T == {s \in SUBSET S : ~(Sum(h, s) \in Int /\ ((\A x \in s : h[x] >= 0) => Sum(h, s) >= 0))}
<1>1. SUFFICES ASSUME T # {} PROVE FALSE
  <2>1. S \in SUBSET S
    OBVIOUS
  <2>. QED
    BY <2>1
<1>2. PICK t \in T : \A u \in T : u \subseteq t => u = t
  <2>1. T \subseteq SUBSET S
    OBVIOUS
  <2>. HIDE DEF T
  <2>. QED
    BY <1>1, <2>1, LeastSubset
<1>3. t # {}
  BY SumEmpty
<1>4. t \subseteq S /\ First(t) \in t /\ t \ {First(t)} # t
  BY <1>3, FirstIn
<1>. DEFINE u == t \ {First(t)}
<1>5. Sum(h, t) = h[First(t)] + Sum(h, u)
  <2>1. IsFiniteSet(t)
    BY <1>4, FS_Subset
  <2>. QED
    BY <1>3, <2>1, SumFirst
<1>6. Sum(h, u) \in Int /\ ((\A x \in u : h[x] >= 0) => Sum(h, u) >= 0)
  <2>1. u \in SUBSET S /\ u \notin T
    BY <1>2, <1>4
  <2>. QED
    BY <2>1
<1>7. h[First(t)] \in Int
  BY <1>4
<1>8. Sum(h, t) \in Int /\ ((\A x \in t : h[x] >= 0) => Sum(h, t) >= 0)
  BY <1>4, <1>5, <1>6, <1>7
<1>. QED
  BY <1>8

\* Any element may be taken first.
LEMMA SumWithout ==
  ASSUME NEW S, IsFiniteSet(S), NEW h, \A x \in S : h[x] \in Int, NEW y \in S
  PROVE  Sum(h, S) = h[y] + Sum(h, S \ {y})
<1>. DEFINE T == {s \in SUBSET S : \E x \in s : Sum(h, s) # h[x] + Sum(h, s \ {x})}
<1>1. SUFFICES ASSUME T # {} PROVE FALSE
  <2>1. S \in SUBSET S
    OBVIOUS
  <2>. QED
    BY <2>1
<1>2. PICK t \in T : \A u \in T : u \subseteq t => u = t
  <2>1. T \subseteq SUBSET S
    OBVIOUS
  <2>. HIDE DEF T
  <2>. QED
    BY <1>1, <2>1, LeastSubset
<1>3. PICK x \in t : Sum(h, t) # h[x] + Sum(h, t \ {x})
  OBVIOUS
<1>4. t \subseteq S /\ t # {} /\ First(t) \in t
  BY <1>3, FirstIn
<1>5. \A u \in SUBSET t : u # t => \A z \in u : Sum(h, u) = h[z] + Sum(h, u \ {z})
  BY <1>2, <1>4
<1>. HIDE DEF T
<1>6. \A u \in SUBSET t : IsFiniteSet(u) /\ Sum(h, u) \in Int
  BY <1>4, FS_Subset, SumType
<1>. DEFINE f == First(t)
            r == (t \ {f}) \ {x}
<1>7. Sum(h, t) = h[f] + Sum(h, t \ {f})
  <2>1. IsFiniteSet(t)
    BY <1>4, FS_Subset
  <2>. QED
    BY <1>4, <2>1, SumFirst
<1>8. x # f /\ h[x] \in Int /\ h[f] \in Int
  BY <1>3, <1>4, <1>7
<1>9. Sum(h, t \ {f}) = h[x] + Sum(h, r)
  <2>1. t \ {f} \in SUBSET t /\ t \ {f} # t /\ x \in t \ {f}
    BY <1>4, <1>8
  <2>. QED
    BY <1>5, <2>1
<1>10. Sum(h, t \ {x}) = h[f] + Sum(h, r)
  <2>1. t \ {x} \in SUBSET t /\ t \ {x} # t /\ f \in t \ {x} /\ (t \ {x}) \ {f} = r
    BY <1>4, <1>8
  <2>. QED
    BY <1>5, <2>1
<1>11. Sum(h, r) \in Int
  BY <1>6
<1>. HIDE DEF f, r
<1>. QED
  BY <1>3, <1>7, <1>8, <1>9, <1>10, <1>11

\* An element more.
LEMMA SumWith ==
  ASSUME NEW S, IsFiniteSet(S), NEW h, NEW y, y \notin S, \A x \in S \cup {y} : h[x] \in Int
  PROVE  Sum(h, S \cup {y}) = h[y] + Sum(h, S)
<1>1. IsFiniteSet(S \cup {y}) /\ (S \cup {y}) \ {y} = S /\ y \in S \cup {y}
  BY FS_AddElement
<1>. DEFINE R == S \cup {y}
<1>. HIDE DEF R
<1>2. Sum(h, R) = h[y] + Sum(h, R \ {y})
  BY <1>1, SumWithout DEF R
<1>. QED
  BY <1>1, <1>2 DEF R

\* Only the summands matter.
LEMMA SumSame ==
  ASSUME NEW S, IsFiniteSet(S), NEW h, NEW k, \A x \in S : h[x] = k[x]
  PROVE  Sum(h, S) = Sum(k, S)
<1>1. PICK g : Sums(h, S, g)
  BY SumsExist
<1>2. Sums(k, S, g)
  <2>1. \A s \in SUBSET S : s # {} => h[First(s)] = k[First(s)]
    BY FirstIn
  <2>2. \A s \in SUBSET S : g[s] = IF s = {} THEN 0 ELSE k[First(s)] + g[s \ {First(s)}]
    <3>1. \A s \in SUBSET S : g[s] = IF s = {} THEN 0 ELSE h[First(s)] + g[s \ {First(s)}]
      BY <1>1 DEF Sums
    <3>. QED
      BY <2>1, <3>1
  <2>3. g = [s \in SUBSET S |-> g[s]]
    BY <1>1 DEF Sums
  <2>. QED
    BY <2>2, <2>3 DEF Sums
<1>. QED
  BY <1>1, <1>2, SumIs

\* A sum of smaller integers is no larger.
LEMMA SumLess ==
  ASSUME NEW S, IsFiniteSet(S), NEW h, NEW k, \A x \in S : h[x] \in Int /\ k[x] \in Int /\ h[x] <= k[x]
  PROVE  Sum(h, S) <= Sum(k, S)
<1>. DEFINE T == {s \in SUBSET S : ~(Sum(h, s) <= Sum(k, s))}
<1>1. SUFFICES ASSUME T # {} PROVE FALSE
  <2>1. S \in SUBSET S
    OBVIOUS
  <2>. QED
    BY <2>1
<1>2. PICK t \in T : \A u \in T : u \subseteq t => u = t
  <2>1. T \subseteq SUBSET S
    OBVIOUS
  <2>. HIDE DEF T
  <2>. QED
    BY <1>1, <2>1, LeastSubset
<1>3. t # {}
  BY SumEmpty
<1>4. t \subseteq S /\ First(t) \in t
  BY <1>3, FirstIn
<1>. DEFINE u == t \ {First(t)}
<1>5. Sum(h, u) <= Sum(k, u)
  <2>1. u \in SUBSET S /\ u \notin T
    BY <1>2, <1>4
  <2>. QED
    BY <2>1
<1>6. Sum(h, t) = h[First(t)] + Sum(h, u) /\ Sum(k, t) = k[First(t)] + Sum(k, u)
  <2>1. IsFiniteSet(t)
    BY <1>4, FS_Subset
  <2>. QED
    BY <1>3, <2>1, SumFirst
<1>7. Sum(h, u) \in Int /\ Sum(k, u) \in Int
  <2>1. IsFiniteSet(u) /\ u \subseteq S
    BY <1>4, FS_Subset
  <2>. HIDE DEF u
  <2>. QED
    BY <2>1, SumType
<1>8. Sum(h, t) <= Sum(k, t)
  <2>1. /\ h[First(t)] \in Int /\ k[First(t)] \in Int /\ h[First(t)] <= k[First(t)]
    BY <1>4
  <2>. HIDE DEF u
  <2>. QED
    BY <1>5, <1>6, <1>7, <2>1
<1>. QED
  BY <1>8

\* A sum is linear.
LEMMA SumLinear ==
  ASSUME NEW S, IsFiniteSet(S), NEW a \in Int, NEW h, NEW k, NEW g,
         \A x \in S : h[x] \in Int /\ k[x] \in Int /\ g[x] = a * h[x] + k[x]
  PROVE  Sum(g, S) = a * Sum(h, S) + Sum(k, S)
<1>. DEFINE T == {s \in SUBSET S : Sum(g, s) # a * Sum(h, s) + Sum(k, s)}
<1>1. SUFFICES ASSUME T # {} PROVE FALSE
  <2>1. S \in SUBSET S
    OBVIOUS
  <2>. QED
    BY <2>1
<1>2. PICK t \in T : \A u \in T : u \subseteq t => u = t
  <2>1. T \subseteq SUBSET S
    OBVIOUS
  <2>. HIDE DEF T
  <2>. QED
    BY <1>1, <2>1, LeastSubset
<1>3. t # {}
  <2>1. a * 0 + 0 = 0
    OBVIOUS
  <2>2. Sum(g, {}) = a * Sum(h, {}) + Sum(k, {})
    BY <2>1, SumEmpty
  <2>. QED
    BY <2>2
<1>4. t \subseteq S /\ First(t) \in t
  BY <1>3, FirstIn
<1>. DEFINE u == t \ {First(t)}
<1>5. Sum(g, u) = a * Sum(h, u) + Sum(k, u)
  <2>1. u \in SUBSET S /\ u \notin T
    BY <1>2, <1>4
  <2>. QED
    BY <2>1
<1>6. Sum(g, t) = g[First(t)] + Sum(g, u) /\ Sum(h, t) = h[First(t)] + Sum(h, u) /\ Sum(k, t) = k[First(t)] + Sum(k, u)
  <2>1. IsFiniteSet(t)
    BY <1>4, FS_Subset
  <2>. QED
    BY <1>3, <2>1, SumFirst
<1>7. Sum(h, u) \in Int /\ Sum(k, u) \in Int
  <2>1. IsFiniteSet(u) /\ u \subseteq S
    BY <1>4, FS_Subset
  <2>. HIDE DEF u
  <2>. QED
    BY <2>1, SumType
<1>8. Sum(g, t) = a * Sum(h, t) + Sum(k, t)
  <2>1. \A x, y \in Int : a * (x + y) = a * x + a * y /\ a * x \in Int
    OBVIOUS
  <2>2. h[First(t)] \in Int /\ k[First(t)] \in Int /\ g[First(t)] = a * h[First(t)] + k[First(t)]
    BY <1>4
  <2>. DEFINE p == Sum(h, u)
              q == Sum(k, u)
              x == h[First(t)]
              y == k[First(t)]
  <2>3. p \in Int /\ q \in Int /\ x \in Int /\ y \in Int /\ g[First(t)] = a * x + y
    BY <1>7, <2>2
  <2>4. Sum(g, t) = (a * x + y) + (a * p + q)
    BY <1>5, <1>6, <2>3
  <2>5. Sum(h, t) = x + p /\ Sum(k, t) = y + q
    BY <1>6
  <2>. HIDE DEF p, q, x, y
  <2>6. (a * x + y) + (a * p + q) = a * (x + p) + (y + q)
    BY <2>1, <2>3
  <2>. QED
    BY <2>4, <2>5, <2>6
<1>. QED
  BY <1>8

\* A sum of which one summand changes.
LEMMA SumChange ==
  ASSUME NEW S, IsFiniteSet(S), NEW h, NEW k, NEW y \in S, \A x \in S : h[x] \in Int /\ k[x] \in Int,
         \A x \in S : x # y => k[x] = h[x]
  PROVE  Sum(k, S) = Sum(h, S) - h[y] + k[y]
<1>. DEFINE R == S \ {y}
<1>1. IsFiniteSet(R) /\ \A x \in R : h[x] = k[x] /\ h[x] \in Int
  BY FS_RemoveElement
<1>2. Sum(h, S) = h[y] + Sum(h, R) /\ Sum(k, S) = k[y] + Sum(k, R)
  BY SumWithout
<1>. HIDE DEF R
<1>3. Sum(h, R) = Sum(k, R) /\ Sum(h, R) \in Int
  BY <1>1, SumSame, SumType
<1>. QED
  BY <1>2, <1>3

-----------------------------------------------------------------------------
\* What the code and its schemas say of the constants.
Sized ==
  /\ Opening \in Nat /\ TombstoneRetention \in Nat
  /\ MaxFailedSaves \in Nat /\ MaxRestarts \in Nat /\ MaxTime \in Nat
  /\ \A r \in Requests : r.amount \in Nat
  /\ \A e \in Events : e.request \in Requests /\ e.sequence \in Nat

-----------------------------------------------------------------------------
\* The ledger.
OneEach(l) == \A k \in Keys : \A r, q \in l.result[k] : r.request.key = k /\ q = r

OnePerTransaction(l) ==
  \A k, m \in Keys : \A r \in l.result[k], q \in l.result[m] :
    r.request.transaction = q.request.transaction => k = m /\ r = q

\* The effect of a result, and what they account for.
Effects == [r \in Results |-> Effect(r.request)]
Accounted(l) ==
  \A c \in Customers :
    IsFiniteSet(Accepted(l, c)) /\ l.balance[c] = Opening + Sum(Effects, Accepted(l, c))

Sound(l) ==
  /\ l \in LedgerTypes /\ (\A c \in Customers : l.balance[c] >= 0)
  /\ OneEach(l) /\ OnePerTransaction(l) /\ Accounted(l)

Grows(l, n) == \A k \in Keys : l.result[k] \subseteq n.result[k]

LInv ==
  /\ Sized /\ TypeOK
  /\ Sound(ledger) /\ Sound(ledgerFile)
  /\ failedSaves = 0 => ledger = ledgerFile
  /\ ToldIsDurable

LEMMA InitLInv == Sized /\ Init => LInv
<1>. SUFFICES ASSUME Sized, Init PROVE LInv
  OBVIOUS
<1>1. Sound(ledger)
  <2>1. /\ ledger \in LedgerTypes /\ OneEach(ledger) /\ OnePerTransaction(ledger)
        /\ \A c \in Customers : ledger.balance[c] >= 0
    BY DEF Sized, Init, LedgerTypes, OneEach, OnePerTransaction
  <2>2. Accounted(ledger)
    <3>1. \A c \in Customers : Accepted(ledger, c) = {} /\ ledger.balance[c] = Opening
      BY DEF Init, Accepted
    <3>2. IsFiniteSet({}) /\ Opening = Opening + Sum(Effects, {})
      BY FS_EmptySet, SumEmpty DEF Sized
    <3>. QED
      BY <3>1, <3>2 DEF Accounted
  <2>. QED
    BY <2>1, <2>2 DEF Sound
<1>2. TypeOK
  BY <1>1 DEF Sized, Init, Sound, TypeOK
<1>. QED
  BY <1>1, <1>2 DEF Init, LInv, ToldIsDurable

LEMMA EffectIsInt == Sized => \A r \in Results : Effects[r] \in Int /\ Effects[r] = Effect(r.request)
BY DEF Sized, Effects, Effect, Results

\* The module's sum is that of the function.
LEMMA EffectsSum ==
  ASSUME NEW S, S \subseteq Results, IsFiniteSet(S)
  PROVE  MapThenSumSet(LAMBDA r : Effect(r.request), S) = Sum(Effects, S)
<1>. DEFINE Body(g) == [s \in SUBSET S |-> IF s = {} THEN 0 ELSE Effect(First(s).request) + g[s \ {First(s)}]]
            c == CHOOSE g : g = Body(g)
<1>1. MapThenSumSet(LAMBDA r : Effect(r.request), S) = c[S]
  BY DEF MapThenSumSet, MapThenFoldSet, First
<1>2. \A s \in SUBSET S : s # {} => Effect(First(s).request) = Effects[First(s)]
  BY FirstIn DEF Effects
<1>3. \A g : g = Body(g) <=> Sums(Effects, S, g)
  BY <1>2 DEF Sums
<1>4. \E g : g = Body(g)
  BY <1>3, SumsExist
<1>5. c = Body(c)
  BY <1>4
<1>. HIDE DEF c, Body
<1>6. Sums(Effects, S, c)
  BY <1>3, <1>5
<1>. QED
  BY <1>1, <1>6, SumIs

\* One result more, of a transaction that had none.
LEMMA PostedAccounted ==
  ASSUME Sized, ledger \in LedgerTypes, OneEach(ledger), Accounted(ledger), NEW request \in Requests, Postable(request)
  PROVE  Accounted(Posted(request))
<1>. DEFINE k == request.key
            new == Posted(request)
            result == [request |-> request, state |-> StateOf(request)]
<1>1. /\ k \in Keys /\ request.customer \in Customers /\ ledger.result \in [Keys -> SUBSET Results]
      /\ ledger.balance \in [Customers -> Int] /\ Opening \in Int
  BY DEF Sized, Keys, Customers, LedgerTypes
<1>2. result \in Results
  BY DEF Results, States, StateOf
<1>3. /\ \A m \in Keys : m # k => new.result[m] = ledger.result[m]
      /\ new.result[k] = {result} /\ ledger.result[k] = {}
  BY <1>1 DEF Posted, Postable
<1>4. SUFFICES ASSUME NEW c \in Customers
               PROVE  IsFiniteSet(Accepted(new, c)) /\ new.balance[c] = Opening + Sum(Effects, Accepted(new, c))
  BY DEF Accounted
<1>5. IsFiniteSet(Accepted(ledger, c)) /\ ledger.balance[c] = Opening + Sum(Effects, Accepted(ledger, c))
  BY DEF Accounted
<1>. DEFINE counts == StateOf(request) = "PARTNER_ACCEPTED" /\ c = request.customer
<1>6. Accepted(new, c) = IF counts THEN Accepted(ledger, c) \cup {result} ELSE Accepted(ledger, c)
  <2>. HIDE DEF new
  <2>1. \A r : (\E m \in Keys : r \in new.result[m]) <=> r = result \/ \E m \in Keys : r \in ledger.result[m]
    BY <1>1, <1>3
  <2>2. \A l, r : r \in Accepted(l, c) <=>
          (\E m \in Keys : r \in l.result[m]) /\ r.state = "PARTNER_ACCEPTED" /\ r.request.customer = c
    BY DEF Accepted
  <2>3. (result.state = "PARTNER_ACCEPTED" /\ result.request.customer = c) <=> counts
    OBVIOUS
  <2>. HIDE DEF counts, result
  <2>4. \A r : r \in Accepted(new, c) <=> r \in Accepted(ledger, c) \/ (r = result /\ counts)
    BY <2>1, <2>2, <2>3
  <2>5. CASE counts
    <3>1. Accepted(new, c) = Accepted(ledger, c) \cup {result}
      BY <2>4, <2>5
    <3>. QED
      BY <3>1, <2>5
  <2>6. CASE ~counts
    <3>1. Accepted(new, c) = Accepted(ledger, c)
      BY <2>4, <2>6
    <3>. QED
      BY <3>1, <2>6
  <2>. QED
    BY <2>5, <2>6
<1>7. new.balance[c] = IF counts THEN ledger.balance[c] + Effect(request) ELSE ledger.balance[c]
  BY <1>1 DEF Posted
<1>8. result \notin Accepted(ledger, c)
  BY <1>1, <1>3 DEF OneEach, Accepted
<1>9. Accepted(ledger, c) \subseteq Results
  BY <1>1 DEF Accepted
<1>10. Effects[result] = Effect(request) /\ Effect(request) \in Int
  BY <1>2, EffectIsInt
<1>. DEFINE before == Accepted(ledger, c)
<1>. HIDE DEF new, result, before
<1>11. CASE counts
  <2>1. IsFiniteSet(before) /\ result \notin before /\ \A r \in before \cup {result} : Effects[r] \in Int
    BY <1>2, <1>5, <1>8, <1>9, EffectIsInt DEF before
  <2>2. IsFiniteSet(before \cup {result}) /\ Sum(Effects, before \cup {result}) = Effects[result] + Sum(Effects, before)
    BY <2>1, FS_AddElement, SumWith
  <2>3. Sum(Effects, before) \in Int
    BY <2>1, SumType
  <2>4. Accepted(new, c) = before \cup {result} /\ new.balance[c] = Opening + Sum(Effects, before) + Effects[result]
    BY <1>5, <1>6, <1>7, <1>10, <1>11 DEF before
  <2>. QED
    BY <1>1, <1>10, <2>2, <2>3, <2>4
<1>12. CASE ~counts
  BY <1>5, <1>6, <1>7, <1>12
<1>. QED
  BY <1>11, <1>12

LEMMA PostedSound ==
  ASSUME LInv, NEW request \in Requests, Postable(request)
  PROVE  /\ Sound(Posted(request)) /\ Grows(ledger, Posted(request))
         /\ Posted(request).result[request.key] = {[request |-> request, state |-> StateOf(request)]}
<1>. DEFINE c == request.customer
            k == request.key
            result == [request |-> request, state |-> StateOf(request)]
<1>1. /\ c \in Customers /\ k \in Keys /\ request.amount \in Nat
      /\ ledger \in LedgerTypes /\ ledger.balance \in [Customers -> Int] /\ ledger.result \in [Keys -> SUBSET Results]
  BY DEF LInv, Sized, TypeOK, LedgerTypes, Customers, Keys
<1>2. result \in Results
  BY DEF Results, States, StateOf
<1>3. /\ Posted(request).result = [ledger.result EXCEPT ![k] = {result}]
      /\ Posted(request).result \in [Keys -> SUBSET Results]
      /\ Posted(request).result[k] = {result}
      /\ \A l \in Keys : l # k => Posted(request).result[l] = ledger.result[l]
  BY <1>1, <1>2 DEF Posted
<1>4. Posted(request).balance \in [Customers -> Int] /\ \A d \in Customers : Posted(request).balance[d] >= 0
  <2>1. \A d \in Customers : ledger.balance[d] \in Int /\ ledger.balance[d] >= 0
    BY <1>1 DEF LInv, Sound
  <2>2. CASE StateOf(request) = "PARTNER_ACCEPTED"
    <3>1. Posted(request).balance = [ledger.balance EXCEPT ![c] = ledger.balance[c] + Effect(request)]
      BY <2>2 DEF Posted
    <3>2. ledger.balance[c] + Effect(request) \in Int /\ ledger.balance[c] + Effect(request) >= 0
      BY <1>1, <2>1, <2>2 DEF StateOf, Authorized, Effect
    <3>. QED
      BY <1>1, <2>1, <3>1, <3>2
  <2>3. CASE StateOf(request) # "PARTNER_ACCEPTED"
    <3>1. Posted(request).balance = [ledger.balance EXCEPT ![c] = ledger.balance[c]]
      BY <2>3 DEF Posted
    <3>. QED
      BY <1>1, <2>1, <3>1
  <2>. QED
    BY <2>2, <2>3
<1>5. Posted(request) \in LedgerTypes
  BY <1>3, <1>4 DEF Posted, LedgerTypes
<1>6. OneEach(Posted(request))
  BY <1>1, <1>3 DEF LInv, Sound, OneEach
<1>7. OnePerTransaction(Posted(request))
  <2>1. \A l \in Keys : \A r \in ledger.result[l] : r.request.transaction # request.transaction
    BY DEF Postable, Replay
  <2>. QED
    BY <1>1, <1>3, <2>1 DEF LInv, Sound, OnePerTransaction
<1>8. Grows(ledger, Posted(request))
  BY <1>1, <1>3 DEF Grows, Postable
<1>9. Accounted(Posted(request))
  BY PostedAccounted DEF LInv, Sound
<1>. QED
  BY <1>3, <1>4, <1>5, <1>6, <1>7, <1>8, <1>9 DEF Sound

\* What a step adds to what callers were told is under one key.
LEMMA PostStep ==
  ASSUME LInv, NEW request \in Requests, Postable(request), ledger' = Posted(request),
         \/ ledgerFile' = ledger' /\ told' \subseteq told \cup ledger'.result[request.key]
         \/ ledgerFile' = ledgerFile /\ told' = told /\ failedSaves' = failedSaves + 1,
         failedSaves' = failedSaves \/ (failedSaves < MaxFailedSaves /\ failedSaves' = failedSaves + 1),
         restarts' = restarts \/ (restarts < MaxRestarts /\ restarts' = restarts + 1),
         outcome' \in {"accept", "reject", "reconcile"}, eligible' = eligible
  PROVE  LInv' /\ Grows(ledger, ledger')
<1>1. /\ Sound(ledger') /\ Grows(ledger, ledger') /\ Sound(ledgerFile')
      /\ ledger'.result[request.key] = {[request |-> request, state |-> StateOf(request)]}
  BY PostedSound DEF LInv
<1>2. failedSaves \in 0..MaxFailedSaves /\ restarts \in 0..MaxRestarts /\ MaxFailedSaves \in Nat /\ MaxRestarts \in Nat
  BY DEF LInv, TypeOK, Sized
<1>3. failedSaves' \in 0..MaxFailedSaves /\ restarts' \in 0..MaxRestarts
  BY <1>2
<1>4. [request |-> request, state |-> StateOf(request)] \in Results
  BY DEF Results, States, StateOf
<1>5. told' \subseteq Results
  BY <1>1, <1>4 DEF LInv, TypeOK
<1>6. TypeOK'
  BY <1>1, <1>3, <1>5 DEF LInv, TypeOK, Sound
<1>7. failedSaves' = 0 => failedSaves = 0 /\ ledgerFile' = ledger'
  BY <1>2
<1>8. ToldIsDurable'
  <2>. SUFFICES ASSUME failedSaves' = 0, NEW r \in told' PROVE r \in ledgerFile'.result[r.request.key]
    BY DEF ToldIsDurable
  <2>1. CASE r \in told
    <3>1. r \in ledger.result[r.request.key] /\ r.request.key \in Keys
      BY <1>7, <2>1 DEF LInv, ToldIsDurable, TypeOK, Results, Keys
    <3>. QED
      BY <1>1, <1>7, <3>1 DEF Grows
  <2>2. CASE r \notin told
    BY <1>1, <1>7, <2>2
  <2>. QED
    BY <2>1, <2>2
<1>. QED
  BY <1>1, <1>6, <1>7, <1>8 DEF LInv, Sized

\* A retry, a refusal, a failed save of something else, or nothing.
LEMMA SameLedgerStep ==
  ASSUME LInv, UNCHANGED <<ledger, ledgerFile, restarts>>, NEW k \in Keys, told' \subseteq told \cup ledger.result[k],
         failedSaves' = failedSaves \/ (failedSaves < MaxFailedSaves /\ failedSaves' = failedSaves + 1),
         outcome' = outcome, eligible' \in [Customers -> BOOLEAN]
  PROVE  LInv'
<1>1. failedSaves' \in 0..MaxFailedSaves /\ (failedSaves' = 0 => failedSaves = 0)
  BY DEF LInv, TypeOK, Sized
<1>2. \A r \in ledger.result[k] : r \in Results /\ r.request.key = k
  BY DEF LInv, TypeOK, LedgerTypes, Sound, OneEach
<1>3. TypeOK'
  BY <1>1, <1>2 DEF LInv, TypeOK
<1>4. ToldIsDurable'
  BY <1>1, <1>2 DEF LInv, ToldIsDurable
<1>. QED
  BY <1>1, <1>3, <1>4 DEF LInv, Sized

LEMMA ToldStaysStep ==
  ASSUME LInv, UNCHANGED <<ledger, ledgerFile, restarts, told, outcome>>,
         failedSaves' = failedSaves \/ (failedSaves < MaxFailedSaves /\ failedSaves' = failedSaves + 1),
         eligible' \in [Customers -> BOOLEAN]
  PROVE  LInv'
<1>1. failedSaves' \in 0..MaxFailedSaves /\ (failedSaves' = 0 => failedSaves = 0)
  BY DEF LInv, TypeOK, Sized
<1>. QED
  BY <1>1 DEF LInv, Sized, TypeOK, ToldIsDurable

LEMMA RestartStep ==
  ASSUME LInv, Restart
  PROVE  LInv' /\ (failedSaves = 0 => ledger' = ledger)
<1>1. restarts' \in 0..MaxRestarts
  BY DEF LInv, TypeOK, Sized, Restart
<1>. QED
  BY <1>1 DEF LInv, Sized, TypeOK, ToldIsDurable, Restart

\* The parts of a submission.
LEMMA SubmissionStep ==
  ASSUME LInv, NEW request \in Requests,
         failedSaves' = failedSaves \/ (failedSaves < MaxFailedSaves /\ failedSaves' = failedSaves + 1),
         \/ Post(request) /\ told' \subseteq told \cup ledger'.result[request.key]
         \/ Recall(request) /\ told' \subseteq told \cup ledger.result[request.key]
         \/ PostUnsaved(request) /\ told' = told
  PROVE  LInv' /\ Grows(ledger, ledger') /\ (failedSaves' = 0 => failedSaves = 0)
<1>1. request.key \in Keys /\ failedSaves \in Nat /\ eligible \in [Customers -> BOOLEAN]
      /\ outcome \in {"accept", "reject", "reconcile"}
  BY DEF Keys, LInv, TypeOK, Sized
<1>2. CASE Post(request) /\ told' \subseteq told \cup ledger'.result[request.key]
  BY <1>1, <1>2, PostStep DEF Post
<1>3. CASE Recall(request) /\ told' \subseteq told \cup ledger.result[request.key]
  BY <1>1, <1>3, SameLedgerStep DEF Recall, Grows
<1>4. CASE PostUnsaved(request) /\ told' = told
  BY <1>1, <1>4, PostStep DEF PostUnsaved, SaveFails
<1>. QED
  BY <1>1, <1>2, <1>3, <1>4

LEMMA SubmitStep ==
  ASSUME LInv, NEW request \in Requests, Submit(request)
  PROVE  LInv' /\ Grows(ledger, ledger') /\ (failedSaves' = 0 => failedSaves = 0)
<1>1. CASE Refused(request) /\ UNCHANGED ledgerVars
  BY <1>1 DEF ledgerVars, LInv, Sized, TypeOK, ToldIsDurable, Grows
<1>2. CASE ~(Refused(request) /\ UNCHANGED ledgerVars)
  <2>1. failedSaves' = failedSaves \/ (failedSaves < MaxFailedSaves /\ failedSaves' = failedSaves + 1)
    BY <1>2 DEF Submit, PostUnsaved, SaveFails
  <2>2. \/ Post(request) /\ told' \subseteq told \cup ledger'.result[request.key]
        \/ Recall(request) /\ told' \subseteq told \cup ledger.result[request.key]
        \/ PostUnsaved(request) /\ told' = told
    BY <1>2 DEF Submit, Recall
  <2>. QED
    BY <2>1, <2>2, SubmissionStep
<1>. QED
  BY <1>1, <1>2

LEMMA NextLInv == LInv /\ [Next]_ledgerVars => LInv'
<1>. SUFFICES ASSUME LInv, [Next]_ledgerVars PROVE LInv'
  OBVIOUS
<1>1. CASE UNCHANGED ledgerVars
  BY <1>1 DEF ledgerVars, LInv, Sized, TypeOK, ToldIsDurable
<1>2. ASSUME NEW c \in Customers, ChangeEligibility(c) PROVE LInv'
  <2>1. eligible' \in [Customers -> BOOLEAN]
    BY <1>2 DEF ChangeEligibility, LInv, TypeOK
  <2>. QED
    BY <1>2, <2>1, ToldStaysStep DEF ChangeEligibility
<1>. QED
  BY <1>1, <1>2, SubmitStep, RestartStep DEF Next

LEMMA LedgerAccounted == LInv => BalanceIsExplained /\ OneResultPerTransaction
<1>. SUFFICES ASSUME LInv PROVE BalanceIsExplained /\ OneResultPerTransaction
  OBVIOUS
<1>1. ASSUME NEW l \in {ledger, ledgerFile}, NEW c \in Customers
      PROVE  /\ l.balance[c] = Opening + MapThenSumSet(LAMBDA r : Effect(r.request), Accepted(l, c))
             /\ l.balance[c] >= 0
  <2>1. Sound(l) /\ l.result \in [Keys -> SUBSET Results]
    BY <1>1 DEF LInv, Sound, LedgerTypes
  <2>2. Accepted(l, c) \subseteq Results
    BY <2>1 DEF Accepted
  <2>3. IsFiniteSet(Accepted(l, c)) /\ l.balance[c] = Opening + Sum(Effects, Accepted(l, c))
    BY <1>1, <2>1 DEF Sound, Accounted
  <2>4. MapThenSumSet(LAMBDA r : Effect(r.request), Accepted(l, c)) = Sum(Effects, Accepted(l, c))
    BY <2>2, <2>3, EffectsSum
  <2>. QED
    BY <1>1, <2>1, <2>3, <2>4 DEF Sound
<1>2. OneResultPerTransaction
  BY DEF LInv, Sound, OnePerTransaction, OneResultPerTransaction
<1>. QED
  BY <1>1, <1>2 DEF BalanceIsExplained

\* The ledger: as long as no save failed, what a caller was told is on file; a
\* transaction has one result; and a balance, in memory and on file, is never overdrawn
\* and is what the accepted results beside it add up to, whatever was retried, not saved
\* or restarted.
THEOREM LedgerHolds ==
  ASSUME Sized
  PROVE  Spec => [](ToldIsDurable /\ BalanceIsExplained /\ OneResultPerTransaction /\ TypeOK)
<1>1. LInv => ToldIsDurable /\ TypeOK
  BY DEF LInv
<1>. QED
  BY <1>1, LedgerAccounted, InitLInv, NextLInv, PTL DEF Spec

-----------------------------------------------------------------------------
\* The receiver.  A receipt in memory is on file, or its event was never receipted
\* there; what was receipted on file is not ahead of the customer's sequence.
Kept(m) ==
  \A i \in Ids : \A r \in m.receipt[i] :
    /\ r.event.id = i /\ \A q \in m.receipt[i] : q = r
    /\ r.event.sequence <= m.sequence[r.event.request.customer]

Fit(m, onFile, count) ==
  /\ m \in ReceiverTypes /\ Kept(m)
  /\ \A c \in Customers : onFile.sequence[c] <= m.sequence[c]
  /\ \A i \in Ids : \A r \in m.receipt[i] : r \in onFile.receipt[i] \/ count[r.event] = 0

Counted(onFile, count) ==
  \A e \in Events : count[e] \in {0, 1} /\ (count[e] = 1 => e.sequence <= onFile.sequence[e.request.customer])

\* What m says of the ledger l is so.
Known(m, l) ==
  /\ \A i \in Ids : \A r \in m.receipt[i] :
       \E q \in l.result[r.event.request.key] : q.request = r.event.request /\ q.state = r.state
  /\ \A c \in Customers : \A n \in 1..m.sequence[c] :
       \E k \in Keys : \E r \in l.result[k] : \E e \in Events :
         r.request = e.request /\ e.request.customer = c /\ e.sequence = n

ReceiverInv ==
  /\ now \in 0..MaxTime /\ receipted = [e \in Events |-> receipted[e]]
  /\ Fit(receiver, receiverFile, receipted) /\ Fit(receiverFile, receiverFile, receipted)
  /\ Counted(receiverFile, receipted)

TInv ==
  /\ LInv /\ ReceiverInv
  /\ failedSaves = 0 => Known(receiver, ledger) /\ Known(receiverFile, ledger)

LEMMA Fields ==
  ASSUME NEW m \in ReceiverTypes
  PROVE  /\ m.receipt \in [Ids -> SUBSET Receipts] /\ m.tombstone \in [Ids -> SUBSET Tombstones]
         /\ m.sequence \in [Customers -> Nat]
BY DEF ReceiverTypes

LEMMA OfEvents ==
  ASSUME Sized, NEW e \in Events
  PROVE  e.id \in Ids /\ e.request \in Requests /\ e.request.key \in Keys /\ e.request.customer \in Customers
         /\ e.sequence \in Nat
BY DEF Sized, Ids, Keys, Customers

\* Pruning only drops receipts.
LEMMA PrunedFields ==
  ASSUME Sized, now \in 0..MaxTime, NEW m \in ReceiverTypes
  PROVE  /\ Pruned(m) \in ReceiverTypes /\ Pruned(m).sequence = m.sequence
         /\ \A i \in Ids : Pruned(m).receipt[i] \subseteq m.receipt[i]
<1>. DEFINE receipt == [i \in Ids |-> m.receipt[i] \ OldReceipts(m, i)]
            buried(i) == {[event |-> r.event, expires |-> now + TombstoneRetention] : r \in OldReceipts(m, i)}
            tombstone == [i \in Ids |-> {t \in m.tombstone[i] \cup buried(i) : t.expires > now}]
<1>1. Pruned(m) = [m EXCEPT !.receipt = receipt, !.tombstone = tombstone]
  BY DEF Pruned
<1>2. receipt \in [Ids -> SUBSET Receipts]
  BY Fields
<1>3. \A i \in Ids : buried(i) \subseteq Tombstones
  <2>1. now + TombstoneRetention \in Nat
    BY DEF Sized
  <2>2. \A i \in Ids : \A r \in OldReceipts(m, i) : r.event \in Events
    BY Fields DEF OldReceipts, Receipts
  <2>. QED
    BY <2>1, <2>2 DEF Tombstones
<1>4. tombstone \in [Ids -> SUBSET Tombstones]
  BY <1>3, Fields
<1>. HIDE DEF receipt, tombstone
<1>5. Pruned(m) \in ReceiverTypes /\ Pruned(m).sequence = m.sequence /\ Pruned(m).receipt = receipt
  BY <1>1, <1>2, <1>4 DEF ReceiverTypes
<1>. QED
  BY <1>5 DEF receipt

LEMMA PrunedFit ==
  ASSUME Sized, now \in 0..MaxTime, NEW m, NEW onFile, NEW count, Fit(m, onFile, count)
  PROVE  Fit(Pruned(m), onFile, count) /\ \A l : Known(m, l) => Known(Pruned(m), l)
<1>1. /\ Pruned(m) \in ReceiverTypes /\ Pruned(m).sequence = m.sequence
      /\ \A i \in Ids : Pruned(m).receipt[i] \subseteq m.receipt[i]
  BY PrunedFields DEF Fit
<1>2. Fit(Pruned(m), onFile, count)
  BY <1>1 DEF Fit, Kept
<1>3. \A l : Known(m, l) => Known(Pruned(m), l)
  BY <1>1 DEF Known
<1>. QED
  BY <1>2, <1>3

\* The receipt of an admissible event.
LEMMA ReceiptedFit ==
  ASSUME LInv, ReceiverInv, NEW m, Fit(m, receiverFile, receipted), NEW e \in Events, Admissible(m, e),
         NEW r0 \in Results
  PROVE  Fit(Receipted(m, e, {r0}), receiverFile, receipted)
<1>. DEFINE c == e.request.customer
            entry == [event |-> e, state |-> r0.state, received |-> now]
            n == Receipted(m, e, {r0})
<1>1. /\ e.id \in Ids /\ c \in Customers /\ e.sequence \in Nat /\ Sized /\ m \in ReceiverTypes
      /\ entry \in Receipts /\ e.sequence = m.sequence[c] + 1
  BY OfEvents DEF LInv, Results, Receipts, ReceiverInv, Admissible, Fit
<1>2. {[event |-> e, state |-> r.state, received |-> now] : r \in {r0}} = {entry}
  OBVIOUS
<1>3. n = [m EXCEPT !.receipt[e.id] = {entry}, !.sequence[c] = e.sequence]
  BY <1>2 DEF Receipted
<1>. HIDE DEF entry, n
<1>4. /\ n.receipt = [m.receipt EXCEPT ![e.id] = {entry}] /\ n.sequence = [m.sequence EXCEPT ![c] = e.sequence]
      /\ n \in ReceiverTypes
  BY <1>1, <1>3, Fields DEF ReceiverTypes
<1>5. /\ n.receipt[e.id] = {entry} /\ \A i \in Ids : i # e.id => n.receipt[i] = m.receipt[i]
      /\ n.sequence[c] = e.sequence /\ \A d \in Customers : d # c => n.sequence[d] = m.sequence[d]
      /\ \A d \in Customers : m.sequence[d] \in Nat /\ receiverFile.sequence[d] \in Nat
  BY <1>1, <1>4, Fields DEF ReceiverInv, Fit
<1>6. \A d \in Customers : m.sequence[d] <= n.sequence[d]
  BY <1>1, <1>5
<1>7. entry.event = e /\ receipted[e] = 0
  BY <1>1, <1>5 DEF entry, ReceiverInv, Counted, Fit
<1>8. Kept(n)
  <2>. SUFFICES ASSUME NEW i \in Ids, NEW r \in n.receipt[i]
                PROVE  /\ r.event.id = i /\ \A q \in n.receipt[i] : q = r
                       /\ r.event.sequence <= n.sequence[r.event.request.customer]
    BY DEF Kept
  <2>1. CASE i = e.id
    BY <1>1, <1>5, <1>7, <2>1
  <2>2. CASE i # e.id
    <3>1. r \in m.receipt[i] /\ n.receipt[i] = m.receipt[i]
      BY <1>5, <2>2
    <3>2. r.event \in Events
      BY <1>1, <3>1, Fields DEF Receipts
    <3>3. r.event.request.customer \in Customers /\ r.event.sequence \in Nat
      BY <1>1, <3>2, OfEvents
    <3>4. r.event.sequence <= m.sequence[r.event.request.customer]
      BY <3>1 DEF Fit, Kept
    <3>5. r.event.sequence <= n.sequence[r.event.request.customer]
      BY <1>1, <1>5, <1>6, <3>3, <3>4
    <3>. QED
      BY <3>1, <3>5 DEF Fit, Kept
  <2>. QED
    BY <2>1, <2>2
<1>9. \A d \in Customers : receiverFile.sequence[d] <= n.sequence[d]
  <2>1. \A d \in Customers : receiverFile.sequence[d] <= m.sequence[d] /\ n.sequence[d] \in Nat
    BY <1>4, Fields DEF Fit
  <2>. QED
    BY <1>5, <1>6, <2>1
<1>10. \A i \in Ids : \A r \in n.receipt[i] : r \in receiverFile.receipt[i] \/ receipted[r.event] = 0
  BY <1>5, <1>7 DEF Fit
<1>. QED
  BY <1>4, <1>8, <1>9, <1>10 DEF Fit, n

LEMMA ReceiptedKnown ==
  ASSUME Sized, NEW m \in ReceiverTypes, NEW l, NEW r0, NEW e \in Events, Known(m, l), Admissible(m, e),
         r0 \in l.result[e.request.key], r0.request = e.request
  PROVE  Known(Receipted(m, e, {r0}), l)
<1>. DEFINE c == e.request.customer
            entry == [event |-> e, state |-> r0.state, received |-> now]
            n == Receipted(m, e, {r0})
<1>1. /\ e.id \in Ids /\ c \in Customers /\ e.sequence \in Nat /\ e.sequence = m.sequence[c] + 1 /\ e.request.key \in Keys
      /\ m.sequence[c] \in Nat
  BY OfEvents, Fields DEF Admissible
<1>2. {[event |-> e, state |-> r.state, received |-> now] : r \in {r0}} = {entry}
  OBVIOUS
<1>3. n = [m EXCEPT !.receipt[e.id] = {entry}, !.sequence[c] = e.sequence]
  BY <1>2 DEF Receipted
<1>4. entry.event = e /\ entry.state = r0.state
  OBVIOUS
<1>. HIDE DEF entry, n
<1>5. n.receipt = [m.receipt EXCEPT ![e.id] = {entry}] /\ n.sequence = [m.sequence EXCEPT ![c] = e.sequence]
  BY <1>3 DEF ReceiverTypes
<1>6. /\ n.receipt[e.id] = {entry} /\ \A i \in Ids : i # e.id => n.receipt[i] = m.receipt[i]
      /\ n.sequence[c] = m.sequence[c] + 1 /\ \A d \in Customers : d # c => n.sequence[d] = m.sequence[d]
  BY <1>1, <1>5, Fields
<1>7. \A i \in Ids : \A r \in n.receipt[i] :
        \E q \in l.result[r.event.request.key] : q.request = r.event.request /\ q.state = r.state
  BY <1>4, <1>6 DEF Known
<1>8. \A d \in Customers : \A k \in 1..n.sequence[d] :
        \E key \in Keys : \E r \in l.result[key] : \E a \in Events :
          r.request = a.request /\ a.request.customer = d /\ a.sequence = k
  <2>. SUFFICES ASSUME NEW d \in Customers, NEW k \in 1..n.sequence[d]
                PROVE  \E key \in Keys : \E r \in l.result[key] : \E a \in Events :
                         r.request = a.request /\ a.request.customer = d /\ a.sequence = k
    OBVIOUS
  <2>1. CASE k \in 1..m.sequence[d]
    BY <2>1 DEF Known
  <2>2. CASE k \notin 1..m.sequence[d]
    <3>1. d = c /\ k = e.sequence
      BY <1>1, <1>6, <2>2
    <3>. QED
      BY <1>1, <3>1
  <2>. QED
    BY <2>1, <2>2
<1>. QED
  BY <1>7, <1>8 DEF Known, n

LEMMA KnownGrows ==
  ASSUME Sized, NEW m \in ReceiverTypes, NEW l, NEW n, Known(m, l), Grows(l, n)
  PROVE  Known(m, n)
<1>1. \A i \in Ids : \A r \in m.receipt[i] : r.event.request.key \in Keys
  BY OfEvents, Fields DEF Receipts
<1>. QED
  BY <1>1 DEF Known, Grows

\* Saving what fits, or failing to.
LEMMA SaveStep ==
  ASSUME Sized, ReceiverInv, NEW m, Fit(m, receiverFile, receipted), ReceiverSaved(m) \/ ReceiverUnsaved(m), now' = now
  PROVE  ReceiverInv'
<1>1. CASE ReceiverUnsaved(m)
  BY <1>1 DEF ReceiverUnsaved, ReceiverInv
<1>2. CASE ReceiverSaved(m)
  <2>1. receiver' = m /\ receiverFile' = m
    BY <1>2 DEF ReceiverSaved
  <2>2. \A d \in Customers : m.sequence[d] \in Nat /\ receiverFile.sequence[d] \in Nat
    BY Fields DEF Fit, ReceiverInv
  <2>3. Fit(m, m, receipted')
    BY <2>2 DEF Fit
  <2>4. ASSUME NEW e \in Events
        PROVE  /\ receipted'[e] \in {0, 1}
               /\ receipted'[e] = 1 => e.sequence <= m.sequence[e.request.customer]
    <3>. DEFINE new == {r \in m.receipt[e.id] \ receiverFile.receipt[e.id] : r.event = e}
    <3>1. receipted'[e] = receipted[e] + Cardinality(new)
      BY <1>2 DEF ReceiverSaved
    <3>2. e.id \in Ids /\ e.request.customer \in Customers /\ e.sequence \in Nat
      BY OfEvents
    <3>6. receiverFile.sequence[e.request.customer] <= m.sequence[e.request.customer]
      BY <3>2 DEF Fit
    <3>7. receipted[e] \in {0, 1} /\ (receipted[e] = 1 => e.sequence <= receiverFile.sequence[e.request.customer])
      BY DEF ReceiverInv, Counted
    <3>3. receipted[e] \in {0, 1} /\ (receipted[e] = 1 => e.sequence <= m.sequence[e.request.customer])
      BY <2>2, <3>2, <3>6, <3>7
    <3>4. CASE new = {}
      <4>. HIDE DEF new
      <4>1. Cardinality(new) = 0
        BY <3>4, FS_EmptySet
      <4>. QED
        BY <3>1, <3>3, <4>1
    <3>5. ASSUME NEW r \in new
          PROVE  Cardinality(new) = 1 /\ receipted[e] = 0 /\ e.sequence <= m.sequence[e.request.customer]
      <4>1. r \in m.receipt[e.id] /\ r.event = e /\ r \notin receiverFile.receipt[e.id]
        OBVIOUS
      <4>2. \A q \in new : q = r
        BY <3>2, <4>1 DEF Fit, Kept
      <4>. HIDE DEF new
      <4>3. new = {r}
        BY <4>2
      <4>4. Cardinality(new) = 1
        BY <4>3, FS_Singleton
      <4>. QED
        BY <3>2, <4>1, <4>4 DEF Fit, Kept
    <3>. QED
      BY <3>1, <3>3, <3>4, <3>5
  <2>5. Counted(m, receipted')
    BY <2>4 DEF Counted
  <2>6. receipted' = [e \in Events |-> receipted'[e]]
    BY <1>2 DEF ReceiverSaved
  <2>. QED
    BY <2>1, <2>3, <2>5, <2>6 DEF ReceiverInv
<1>. QED
  BY <1>1, <1>2

\* Nothing of the receiver changes but, perhaps, the time.
LEMMA ReceiverRests ==
  ASSUME ReceiverInv, UNCHANGED <<receiver, receiverFile, receipted>>, now' \in 0..MaxTime
  PROVE  ReceiverInv'
BY DEF ReceiverInv

\* The ledger moves on under what the receiver knows.
LEMMA LedgerMoves ==
  ASSUME TInv, LInv', ReceiverInv', UNCHANGED <<receiver, receiverFile>>,
         failedSaves' = 0 => failedSaves = 0 /\ Grows(ledger, ledger')
  PROVE  TInv'
<1>1. failedSaves' = 0 => Known(receiver, ledger') /\ Known(receiverFile, ledger')
  BY KnownGrows DEF TInv, LInv, ReceiverInv, Fit
<1>. QED
  BY <1>1 DEF TInv

LEMMA PruneFailsStep ==
  ASSUME TInv, PruneFails
  PROVE  TInv'
<1>1. eligible \in [Customers -> BOOLEAN] /\ failedSaves \in Nat /\ Sized /\ now \in 0..MaxTime
  BY DEF TInv, LInv, TypeOK, ReceiverInv
<1>2. LInv'
  BY <1>1, ToldStaysStep DEF TInv, PruneFails, SaveFails
<1>3. Fit(Pruned(receiver), receiverFile, receipted)
  BY <1>1, PrunedFit DEF TInv, ReceiverInv
<1>4. ReceiverInv'
  BY <1>1, <1>3, SaveStep DEF TInv, PruneFails
<1>5. failedSaves' # 0
  BY <1>1 DEF PruneFails, SaveFails
<1>. QED
  BY <1>2, <1>4, <1>5 DEF TInv

\* Pruned on the way in, and saved if that changed anything.
LEMMA PrunedStep ==
  ASSUME TInv, NEW m, m = Pruned(receiver),
         IF m = receiver THEN ReceiverUnsaved(m) ELSE ReceiverSaved(m), now' = now
  PROVE  ReceiverInv' /\ receiver' = m /\ receiverFile' \in {receiverFile, m}
<1>1. Fit(m, receiverFile, receipted)
  BY PrunedFit DEF TInv, LInv, ReceiverInv
<1>2. ReceiverSaved(m) \/ ReceiverUnsaved(m)
  OBVIOUS
<1>. QED
  BY <1>1, <1>2, SaveStep DEF TInv, LInv, ReceiverSaved, ReceiverUnsaved

LEMMA RefuseStep ==
  ASSUME TInv, NEW e \in Events, Refuse(e)
  PROVE  TInv'
<1>1. PICK m : /\ m = Pruned(receiver) /\ now' = now /\ UNCHANGED ledgerVars
               /\ IF m = receiver THEN ReceiverUnsaved(m) ELSE ReceiverSaved(m)
  BY DEF Refuse
<1>2. ReceiverInv' /\ receiver' = m /\ receiverFile' \in {receiverFile, m}
  BY <1>1, PrunedStep
<1>3. LInv'
  BY <1>1 DEF TInv, LInv, ledgerVars, TypeOK, Sized, ToldIsDurable
<1>4. \A l : Known(receiver, l) => Known(m, l)
  BY <1>1, PrunedFit DEF TInv, LInv, ReceiverInv
<1>. QED
  BY <1>1, <1>2, <1>3, <1>4 DEF TInv, ledgerVars

LEMMA SubmitFailsStep ==
  ASSUME TInv, NEW e \in Events, SubmitFails(e)
  PROVE  TInv'
<1>1. PICK m : /\ m = Pruned(receiver) /\ now' = now /\ PostUnsaved(e.request) /\ told' = told
               /\ IF m = receiver THEN ReceiverUnsaved(m) ELSE ReceiverSaved(m)
  BY DEF SubmitFails
<1>2. ReceiverInv'
  BY <1>1, PrunedStep
<1>3. failedSaves \in Nat /\ e.request \in Requests
  BY DEF TInv, LInv, TypeOK, Sized
<1>4. LInv'
  BY <1>1, <1>3, SubmissionStep DEF TInv, PostUnsaved, SaveFails
<1>5. failedSaves' # 0
  BY <1>1, <1>3 DEF PostUnsaved, SaveFails
<1>. QED
  BY <1>2, <1>4, <1>5 DEF TInv

\* After a request was posted or found its key has it alone.
LEMMA ResultIsOfRequest ==
  ASSUME LInv, LInv', NEW request \in Requests, Post(request) \/ Recall(request)
  PROVE  \E r0 \in Results : ledger'.result[request.key] = {r0} /\ r0.request = request
<1>1. request.key \in Keys
  BY DEF Keys
<1>2. ledger.result[request.key] \subseteq Results /\ \A r, q \in ledger.result[request.key] : q = r
  BY <1>1 DEF LInv, TypeOK, LedgerTypes, Sound, OneEach
<1>3. CASE Post(request)
  <2>1. ledger'.result[request.key] = {[request |-> request, state |-> StateOf(request)]}
    BY <1>3, PostedSound DEF Post
  <2>2. [request |-> request, state |-> StateOf(request)] \in Results
    BY DEF Results, States, StateOf
  <2>. QED
    BY <2>1, <2>2
<1>4. CASE Recall(request)
  <2>1. PICK r0 \in ledger.result[request.key] : r0.request = request
    BY <1>4 DEF Recall, Recorded
  <2>2. ledger.result[request.key] = {r0} /\ ledger' = ledger
    BY <1>2, <1>4, <2>1 DEF Recall
  <2>. QED
    BY <1>2, <2>1, <2>2
<1>. QED
  BY <1>3, <1>4

LEMMA ReceiveStep ==
  ASSUME TInv, NEW e \in Events, Receive(e)
  PROVE  TInv'
<1>1. PICK m : /\ m = Pruned(receiver) /\ Admissible(m, e) /\ (Post(e.request) \/ Recall(e.request))
               /\ UNCHANGED <<told, now>>
               /\ \/ ReceiverSaved(Receipted(m, e, ledger'.result[e.request.key])) /\ failedSaves' = failedSaves
                  \/ SaveFails /\ ReceiverUnsaved(Receipted(m, e, ledger'.result[e.request.key]))
  BY DEF Receive
<1>2. Sized /\ e.request \in Requests /\ e.request.key \in Keys /\ now \in 0..MaxTime /\ failedSaves \in Nat
  BY OfEvents DEF TInv, LInv, TypeOK, ReceiverInv
<1>3. LInv' /\ Grows(ledger, ledger') /\ (failedSaves' = 0 => failedSaves = 0)
  <2>1. failedSaves' = failedSaves \/ (failedSaves < MaxFailedSaves /\ failedSaves' = failedSaves + 1)
    BY <1>1 DEF SaveFails
  <2>. QED
    BY <1>1, <1>2, <2>1, SubmissionStep DEF TInv
<1>4. PICK r0 \in Results : ledger'.result[e.request.key] = {r0} /\ r0.request = e.request
  BY <1>1, <1>2, <1>3, ResultIsOfRequest DEF TInv
<1>. DEFINE n == Receipted(m, e, {r0})
<1>5. Fit(m, receiverFile, receipted) /\ m \in ReceiverTypes /\ \A l : Known(receiver, l) => Known(m, l)
  <2>1. Fit(m, receiverFile, receipted) /\ \A l : Known(receiver, l) => Known(m, l)
    BY <1>1, <1>2, PrunedFit DEF TInv, ReceiverInv
  <2>. QED
    BY <2>1 DEF Fit
<1>6. Fit(n, receiverFile, receipted)
  BY <1>1, <1>5, ReceiptedFit DEF TInv
<1>7. ReceiverSaved(n) \/ ReceiverUnsaved(n)
  BY <1>1, <1>4
<1>8. (ReceiverUnsaved(n) => failedSaves' = failedSaves + 1) \/ ReceiverSaved(n)
  BY <1>1, <1>4 DEF SaveFails
<1>. HIDE DEF n
<1>9. ReceiverInv'
  BY <1>1, <1>2, <1>6, <1>7, SaveStep DEF TInv
<1>10. failedSaves' = 0 => receiver' = n /\ receiverFile' = n
  BY <1>2, <1>7, <1>8 DEF ReceiverSaved, ReceiverUnsaved
<1>11. failedSaves' = 0 => Known(n, ledger')
  <2>1. failedSaves' = 0 => Known(m, ledger)
    BY <1>3, <1>5 DEF TInv
  <2>2. failedSaves' = 0 => Known(m, ledger')
    BY <1>2, <1>3, <1>5, <2>1, KnownGrows
  <2>3. r0 \in ledger'.result[e.request.key]
    BY <1>4
  <2>. QED
    BY <1>1, <1>2, <1>4, <1>5, <2>2, <2>3, ReceiptedKnown DEF n
<1>. QED
  BY <1>3, <1>9, <1>10, <1>11 DEF TInv

\* The ledger is saved, then the process stops.
LEMMA StopBetweenStep ==
  ASSUME TInv, NEW e \in Events, StopBetween(e)
  PROVE  TInv'
<1>1. PICK saved : /\ saved \in {receiverFile, Pruned(receiver)} /\ receiverFile' = saved /\ receiver' = Pruned(saved)
                   /\ UNCHANGED <<eligible, told, failedSaves, now, receipted>>
                   /\ Postable(e.request) /\ ledger' = Posted(e.request) /\ ledgerFile' = ledger'
                   /\ restarts < MaxRestarts /\ restarts' = restarts + 1 /\ outcome' \in {"accept", "reject", "reconcile"}
  BY DEF StopBetween
<1>2. Sized /\ e.request \in Requests /\ now \in 0..MaxTime
  BY DEF TInv, LInv, Sized, ReceiverInv
<1>3. LInv' /\ Grows(ledger, ledger')
  BY <1>1, <1>2, PostStep DEF TInv
<1>4. Fit(saved, receiverFile, receipted) /\ \A l : Known(receiver, l) /\ Known(receiverFile, l) => Known(saved, l)
  BY <1>1, <1>2, PrunedFit DEF TInv, ReceiverInv
<1>5. \A c \in Customers : saved.sequence[c] \in Nat /\ receiverFile.sequence[c] \in Nat
  BY <1>4, Fields DEF TInv, ReceiverInv, Fit
<1>6. Fit(saved, saved, receipted)
  BY <1>4, <1>5 DEF Fit
<1>7. Fit(Pruned(saved), saved, receipted) /\ \A l : Known(saved, l) => Known(Pruned(saved), l)
  BY <1>2, <1>6, PrunedFit
<1>8. Counted(saved, receipted)
  <2>1. \A a \in Events : a.request.customer \in Customers /\ a.sequence \in Nat
    BY <1>2, OfEvents
  <2>2. \A c \in Customers : receiverFile.sequence[c] <= saved.sequence[c]
    BY <1>4 DEF Fit
  <2>. QED
    BY <1>5, <2>1, <2>2 DEF TInv, ReceiverInv, Counted
<1>9. ReceiverInv'
  BY <1>1, <1>2, <1>6, <1>7, <1>8 DEF TInv, ReceiverInv
<1>10. failedSaves' = 0 => Known(saved, ledger')
  BY <1>1, <1>2, <1>3, <1>4, KnownGrows DEF TInv, Fit
<1>. QED
  BY <1>1, <1>3, <1>7, <1>9, <1>10 DEF TInv

LEMMA RestartBothStep ==
  ASSUME TInv, RestartBoth
  PROVE  TInv'
<1>1. Restart /\ receiver' = Pruned(receiverFile) /\ UNCHANGED <<receiverFile, now, receipted, failedSaves>>
  BY DEF RestartBoth, Restart
<1>2. LInv' /\ (failedSaves = 0 => ledger' = ledger)
  BY <1>1, RestartStep DEF TInv
<1>3. Fit(Pruned(receiverFile), receiverFile, receipted) /\ \A l : Known(receiverFile, l) => Known(Pruned(receiverFile), l)
  BY PrunedFit DEF TInv, LInv, ReceiverInv
<1>4. ReceiverInv'
  BY <1>1, <1>3 DEF TInv, ReceiverInv
<1>. QED
  BY <1>1, <1>2, <1>3, <1>4 DEF TInv

LEMMA TickStep ==
  ASSUME TInv, Tick
  PROVE  TInv'
<1>1. now' \in 0..MaxTime
  BY DEF Tick, TInv, LInv, Sized, ReceiverInv
<1>2. LInv' /\ ReceiverInv'
  BY <1>1, ReceiverRests DEF Tick, TInv, LInv, ledgerVars, TypeOK, Sized, ToldIsDurable
<1>. QED
  BY <1>2 DEF Tick, TInv, ledgerVars

LEMMA NextTInv == TInv /\ [NextTransport]_<<ledgerVars, receiverVars>> => TInv'
<1>. SUFFICES ASSUME TInv, [NextTransport]_<<ledgerVars, receiverVars>> PROVE TInv'
  OBVIOUS
<1>1. CASE UNCHANGED <<ledgerVars, receiverVars>>
  BY <1>1 DEF ledgerVars, receiverVars, TInv, LInv, ReceiverInv, TypeOK, Sized, ToldIsDurable
<1>2. ASSUME UNCHANGED receiverVars, LInv', failedSaves' = 0 => failedSaves = 0 /\ Grows(ledger, ledger')
      PROVE  TInv'
  <2>1. ReceiverInv'
    BY <1>2 DEF TInv, ReceiverInv, receiverVars
  <2>. QED
    BY <1>2, <2>1, LedgerMoves DEF receiverVars
<1>3. ASSUME NEW request \in Requests, Submit(request), UNCHANGED receiverVars PROVE TInv'
  BY <1>2, <1>3, SubmitStep DEF TInv
<1>4. ASSUME NEW c \in Customers, ChangeEligibility(c), UNCHANGED receiverVars PROVE TInv'
  <2>1. eligible' \in [Customers -> BOOLEAN]
    BY <1>4 DEF ChangeEligibility, TInv, LInv, TypeOK
  <2>2. LInv'
    BY <1>4, <2>1, ToldStaysStep DEF ChangeEligibility, TInv
  <2>3. Grows(ledger, ledger') /\ failedSaves' = failedSaves
    BY <1>4 DEF ChangeEligibility, Grows
  <2>. QED
    BY <1>2, <1>4, <2>2, <2>3
<1>. QED
  BY <1>1, <1>3, <1>4, PruneFailsStep, RefuseStep, SubmitFailsStep, ReceiveStep, StopBetweenStep, RestartBothStep,
     TickStep DEF NextTransport

LEMMA InitTInv == Sized /\ InitTransport => TInv
<1>. SUFFICES ASSUME Sized, InitTransport PROVE TInv
  OBVIOUS
<1>1. LInv
  BY InitLInv DEF InitTransport
<1>2. /\ receiver = [receipt |-> [i \in Ids |-> {}], tombstone |-> [i \in Ids |-> {}], sequence |-> [c \in Customers |-> 0]]
      /\ receiverFile = receiver /\ now = 0 /\ receipted = [e \in Events |-> 0]
  BY DEF InitTransport
<1>3. receiver \in ReceiverTypes
  BY <1>2 DEF ReceiverTypes
<1>4. /\ \A i \in Ids : receiver.receipt[i] = {}
      /\ \A c \in Customers : receiver.sequence[c] = 0
  BY <1>2
<1>5. Fit(receiver, receiver, receipted) /\ Counted(receiver, receipted)
  BY <1>2, <1>3, <1>4 DEF Fit, Kept, Counted
<1>6. Known(receiver, ledger)
  BY <1>4 DEF Known
<1>7. now \in 0..MaxTime
  BY <1>2 DEF Sized
<1>. QED
  BY <1>1, <1>2, <1>5, <1>6, <1>7 DEF TInv, ReceiverInv

LEMMA TransportHolds ==
  TInv => TypeOKTransport /\ ReceiptsHaveResults /\ ReceiptedOnce /\ ToldIsDurable /\ OneResultPerTransaction
<1>. SUFFICES ASSUME TInv
              PROVE  TypeOKTransport /\ ReceiptsHaveResults /\ ReceiptedOnce /\ ToldIsDurable /\ OneResultPerTransaction
  OBVIOUS
<1>1. ReceiptsHaveResults
  BY DEF TInv, Known, ReceiptsHaveResults
<1>2. ReceiptedOnce /\ receipted \in [Events -> Nat]
  BY DEF TInv, ReceiverInv, Counted, ReceiptedOnce
<1>3. TypeOKTransport
  BY <1>2 DEF TInv, LInv, ReceiverInv, Fit, TypeOKTransport
<1>. QED
  BY <1>1, <1>2, <1>3 DEF TInv, LInv, Sound, OnePerTransaction, OneResultPerTransaction

\* The receiver: until a save has failed a receipt says what the ledger says and every
\* number up to a customer's last was posted; and an event is receipted on file once,
\* whatever was pruned, dropped, not saved or restarted.
THEOREM ReceiptsAreTrue ==
  ASSUME Sized
  PROVE  SpecTransport => [](ReceiptsHaveResults /\ ReceiptedOnce)
BY InitTInv, NextTInv, TransportHolds, PTL DEF SpecTransport
==============================================================================
