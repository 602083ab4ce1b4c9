-------------------------- MODULE ResultCharts_proofs --------------------------
(***************************************************************************)
(* Proofs about the BeCoMe method, for lists of any length up to MaxExperts  *)
(* of any whole numbers, and about the charts that draw its results.  What  *)
(* the method computes is proved by induction over data, in the form of a   *)
(* theorem about sets: a set that holds the empty set, and a subset of D as *)
(* soon as it holds all that lack one element, holds every subset of D.     *)
(***************************************************************************)
EXTENDS ResultCharts, FiniteSetTheorems, TLAPS

-------------------------------------------------------------------------------
(* Numbers.                                                                 *)

(* Multiplying keeps the order.                                             *)
LEMMA TimesMonotone ==
  ASSUME NEW n \in Nat, NEW a \in Int, NEW b \in Int, a <= b
  PROVE  n * a <= n * b
<1>1. n * (b - a) \in Nat
  OBVIOUS
<1>2. n * (b - a) = n * b - n * a
  OBVIOUS
<1> QED
  BY <1>1, <1>2

(* Less than one multiple above is at most.                                 *)
LEMMA Cancelled ==
  ASSUME NEW n \in Nat \ {0}, NEW a \in Int, NEW b \in Int, n * a < n * b + n
  PROVE  a <= b
<1>1. ~(a >= b + 1)
  <2>1. n * (b + 1) = n * b + n
    OBVIOUS
  <2>2. SUFFICES ASSUME b + 1 <= a PROVE n * (b + 1) <= n * a
    BY <2>1
  <2> QED
    BY <2>2, TimesMonotone
<1> QED
  BY <1>1

(* What \div is.                                                            *)
LEMMA Divided ==
  ASSUME NEW a \in Int, NEW n \in Nat \ {0}
  PROVE  /\ a \div n \in Int
         /\ n * (a \div n) <= a
         /\ a < n * (a \div n) + n
  OBVIOUS

(* A multiple is divided exactly.                                           *)
LEMMA DivExact ==
  ASSUME NEW n \in Nat \ {0}, NEW m \in Int
  PROVE  (n * m) \div n = m
  OBVIOUS

(* Dividing keeps the order.                                                *)
LEMMA DivMonotone ==
  ASSUME NEW a \in Int, NEW b \in Int, NEW n \in Nat \ {0}, a <= b
  PROVE  a \div n <= b \div n
  BY Divided, Cancelled

(* No remainder means a multiple.                                           *)
LEMMA Multiple ==
  ASSUME NEW a \in Int, NEW n \in Nat \ {0}
  PROVE  a % n = 0 <=> \E k \in Int : a = n * k
<1>1. a \div n \in Int /\ a = n * (a \div n) + (a % n) /\ a % n \in 0..(n - 1)
  OBVIOUS
<1>2. ASSUME NEW k \in Int PROVE (n * k) % n = 0
  OBVIOUS
<1>3. a % n = 0 => a = n * (a \div n)
  BY <1>1
<1>4. (\E k \in Int : a = n * k) => a % n = 0
  BY <1>2
<1>5. a % n = 0 => \E k \in Int : a = n * k
  BY <1>1, <1>3
<1> QED
  BY <1>4, <1>5

-------------------------------------------------------------------------------
(* Induction.                                                               *)

(* Induction over the subsets of a finite set: a set F that holds {}, and   *)
(* with all that lacks one element the whole, holds every subset.  A        *)
(* smallest one missing would refute it.                                    *)
LEMMA Subsets ==
  ASSUME NEW D, IsFiniteSet(D), NEW F, {} \in F,
         \A s \in SUBSET D : s # {} /\ (\A x \in s : s \ {x} \in F) => s \in F
  PROVE  SUBSET D \subseteq F
<1> DEFINE O == StrictSubsetOrdering(D)
           T == (SUBSET D) \ F
<1>1. IsWellFoundedOn(O, SUBSET D)
  BY FS_StrictSubsetOrderingWellFounded, FS_FiniteSubsetsOfFinite
<1>2. SUFFICES ASSUME T # {} PROVE FALSE
  OBVIOUS
<1>2a. T \subseteq SUBSET D
  OBVIOUS
<1> HIDE DEF O, T
<1>3. PICK s \in T : \A r \in T : ~(<<r, s>> \in O)
  BY <1>1, <1>2, <1>2a, WFMin
<1> USE DEF T
<1>3a. s \in SUBSET D /\ s \notin F /\ s # {}
  BY <1>3
<1>4. PICK x \in s : s \ {x} \notin F
  BY <1>3a
<1>5. <<s \ {x}, s>> \in O
  BY <1>3a, <1>4 DEF O, StrictSubsetOrdering
<1>6. s \ {x} \in T
  BY <1>3, <1>4
<1> QED
  BY <1>3, <1>5, <1>6

(* Induction over the numbers, about a set.                                 *)
LEMMA Induct ==
  ASSUME NEW S, 0 \in S, \A n \in Nat : n \in S => n + 1 \in S
  PROVE  Nat \subseteq S
<1> DEFINE T == Nat \ S
           R == OpToRel(<, Nat)
<1>1. SUFFICES ASSUME T # {} PROVE FALSE
  OBVIOUS
<1>2. IsWellFoundedOn(R, Nat)
  BY NatLessThanWellFounded
<1> HIDE DEF R
<1>3. PICK x \in T : \A y \in T : ~(<<y, x>> \in R)
  BY <1>1, <1>2, WFMin
<1>4. x # 0 /\ x - 1 \in Nat /\ x - 1 < x
  BY <1>3
<1>5. x - 1 \notin S
  BY <1>3, <1>4
<1>6. <<x - 1, x>> \in R
  BY <1>3, <1>4 DEF R, OpToRel
<1> QED
  BY <1>3, <1>4, <1>5, <1>6

-------------------------------------------------------------------------------
(* Sums.                                                                    *)

(* SumFunction takes the elements of the domain in an arbitrary order.      *)
Chosen(s) == CHOOSE x \in s : TRUE

(* The recursive function behind SumFunction.                               *)
Sums(f, D, g) ==
    g = [s \in SUBSET D |-> IF s = {} THEN 0 ELSE f[Chosen(s)] + g[s \ {Chosen(s)}]]

(* g is the sum of f over every subset of D.                                *)
SumsTo(f, D, g) ==
    /\ g \in [SUBSET D -> Int] /\ g[{}] = 0
    /\ \A s \in SUBSET D : \A x \in s : g[s] = f[x] + g[s \ {x}]

(* What is chosen is an element.                                            *)
LEMMA ChosenIn == ASSUME NEW s, s # {} PROVE Chosen(s) \in s
  BY DEF Chosen

(* right for the subsets of at most k elements                              *)
SumsUpTo(f, D, g, k) ==
    /\ g \in [SUBSET D -> Int] /\ g[{}] = 0
    /\ \A s \in SUBSET D : s # {} /\ Cardinality(s) <= k => g[s] = f[Chosen(s)] + g[s \ {Chosen(s)}]

(* There is such a function: one that is right up to k elements gives one   *)
(* that is right up to k + 1.                                               *)
LEMMA SumExists ==
  ASSUME NEW D, IsFiniteSet(D), NEW f \in [D -> Int]
  PROVE  \E g \in [SUBSET D -> Int] : Sums(f, D, g)
<1> DEFINE Known == {k \in Nat : \E g : SumsUpTo(f, D, g, k)}
<1>0. \A s \in SUBSET D : IsFiniteSet(s) /\ Cardinality(s) \in Nat
  BY FS_Subset, FS_CardinalityType
<1>1. 0 \in Known
  <2> DEFINE g == [s \in SUBSET D |-> 0]
  <2>1. \A s \in SUBSET D : s # {} => Cardinality(s) # 0
    BY <1>0, FS_EmptySet
  <2>2. SumsUpTo(f, D, g, 0)
    BY <1>0, <2>1 DEF SumsUpTo
  <2> QED
    BY <2>2
<1>2. ASSUME NEW k \in Nat, k \in Known PROVE k + 1 \in Known
  <2>1. PICK g : SumsUpTo(f, D, g, k)
    BY <1>2
  <2> DEFINE h == [s \in SUBSET D |-> IF s = {} THEN 0 ELSE f[Chosen(s)] + g[s \ {Chosen(s)}]]
  <2>2. \A s \in SUBSET D : s # {} => Chosen(s) \in D /\ Chosen(s) \in s /\ s \ {Chosen(s)} \in SUBSET D
    BY ChosenIn
  <2>3. h \in [SUBSET D -> Int] /\ h[{}] = 0
    BY <2>1, <2>2 DEF SumsUpTo
  <2>4. ASSUME NEW s \in SUBSET D, Cardinality(s) <= k PROVE h[s] = g[s]
    BY <2>1, <2>4 DEF SumsUpTo
  <2>4a. \A s \in SUBSET D : s # {} => h[s] = f[Chosen(s)] + g[s \ {Chosen(s)}]
    OBVIOUS
  <2> HIDE DEF h
  <2>5. ASSUME NEW s \in SUBSET D, s # {}, Cardinality(s) <= k + 1
        PROVE  h[s] = f[Chosen(s)] + h[s \ {Chosen(s)}]
    <3> DEFINE r == s \ {Chosen(s)}
    <3>1. r \in SUBSET D /\ Chosen(s) \in s
      BY <2>2, <2>5
    <3>2. Cardinality(r) = Cardinality(s) - 1
      BY <1>0, <3>1, FS_RemoveElement
    <3>4. h[s] = f[Chosen(s)] + g[r]
      BY <2>4a, <2>5
    <3> HIDE DEF r
    <3>5. Cardinality(r) <= k
      BY <1>0, <2>5, <3>2
    <3>3. h[r] = g[r]
      BY <2>4, <3>1, <3>5
    <3> QED
      BY <3>3, <3>4 DEF r
  <2>6. SumsUpTo(f, D, h, k + 1)
    BY <2>3, <2>5 DEF SumsUpTo
  <2> QED
    BY <2>6
<1> HIDE DEF Known
<1>3. Cardinality(D) \in Known
  BY <1>0, <1>1, <1>2, Induct
<1>4. PICK g : SumsUpTo(f, D, g, Cardinality(D))
  BY <1>3 DEF Known
<1>5. \A s \in SUBSET D : Cardinality(s) <= Cardinality(D)
  BY FS_Subset
<1>6. Sums(f, D, g)
  <2> DEFINE h == [s \in SUBSET D |-> IF s = {} THEN 0 ELSE f[Chosen(s)] + g[s \ {Chosen(s)}]]
  <2>1. \A s \in SUBSET D : g[s] = h[s]
    BY <1>4, <1>5 DEF SumsUpTo
  <2>2. g \in [SUBSET D -> Int]
    BY <1>4 DEF SumsUpTo
  <2>3. g = h
    BY <2>1, <2>2
  <2> QED
    BY <2>3 DEF Sums
<1> QED
  BY <1>4, <1>6 DEF SumsUpTo

(* It does not matter which element is taken first.                         *)
LEMMA SumAny ==
  ASSUME NEW D, IsFiniteSet(D), NEW f \in [D -> Int], NEW g, Sums(f, D, g)
  PROVE  SumsTo(f, D, g)
<1>1. \A s \in SUBSET D : g[s] = IF s = {} THEN 0 ELSE f[Chosen(s)] + g[s \ {Chosen(s)}]
  BY Zenon DEF Sums
<1>1a. g[{}] = 0
  BY <1>1
<1>1b. \A s \in SUBSET D : s # {} => g[s] = f[Chosen(s)] + g[s \ {Chosen(s)}]
  BY <1>1
<1>2. \A s \in SUBSET D : s # {} => Chosen(s) \in s
  BY ChosenIn
<1> DEFINE I == {s \in SUBSET D : g[s] \in Int}
<1>3. SUBSET D \subseteq I
  <2>1. {} \in I
    BY <1>1a
  <2>2. ASSUME NEW s \in SUBSET D, s # {}, \A x \in s : s \ {x} \in I
        PROVE  s \in I
    <3>1. Chosen(s) \in s /\ g[s] = f[Chosen(s)] + g[s \ {Chosen(s)}]
      BY <1>1b, <1>2, <2>2
    <3>2. g[s \ {Chosen(s)}] \in Int
      BY <2>2, <3>1
    <3>3. f[Chosen(s)] \in Int
      BY <3>1
    <3> QED
      BY <3>1, <3>2, <3>3
  <2> HIDE DEF I
  <2> QED
    BY <2>1, <2>2, Subsets
<1> DEFINE A == {s \in SUBSET D : \A x \in s : g[s] = f[x] + g[s \ {x}]}
<1>4. {} \in A
  OBVIOUS
<1>5. ASSUME NEW s \in SUBSET D, s # {}, \A x \in s : s \ {x} \in A
      PROVE  s \in A
  <2> SUFFICES ASSUME NEW x \in s, x # Chosen(s) PROVE g[s] = f[x] + g[s \ {x}]
    BY <1>1b, <1>5
  <2> DEFINE c == Chosen(s)
  <2>1. c \in s
    BY <1>2
  <2> HIDE DEF c
  <2>2. g[s] = f[c] + g[s \ {c}]
    BY <1>1b, <1>5 DEF c
  <2>3. g[s \ {c}] = f[x] + g[(s \ {c}) \ {x}]
    BY <1>5, <2>1 DEF c
  <2>4. g[s \ {x}] = f[c] + g[(s \ {x}) \ {c}]
    BY <1>5, <2>1 DEF c
  <2> DEFINE r == (s \ {c}) \ {x}
  <2>5. (s \ {x}) \ {c} = r /\ r \in SUBSET D
    OBVIOUS
  <2>6. f[c] \in Int /\ f[x] \in Int /\ g[r] \in Int
    BY <1>3, <2>1, <2>5
  <2>7. g[s] = f[c] + (f[x] + g[r])
    BY <2>2, <2>3
  <2>8. g[s \ {x}] = f[c] + g[r]
    BY <2>4, <2>5
  <2> HIDE DEF r
  <2> QED
    BY <2>6, <2>7, <2>8
<1>6. SUBSET D \subseteq A
  <2> HIDE DEF A
  <2> QED
    BY <1>4, <1>5, Subsets
<1>7. g \in [SUBSET D -> Int]
  <2>1. g = [s \in SUBSET D |-> IF s = {} THEN 0 ELSE f[Chosen(s)] + g[s \ {Chosen(s)}]]
    BY Zenon DEF Sums
  <2>2. g = [s \in SUBSET D |-> g[s]]
    BY <2>1
  <2> QED
    BY <1>3, <2>2
<1> QED
  BY <1>1a, <1>6, <1>7 DEF SumsTo

(* SumFunction is the sum, however taken.                                   *)
LEMMA Summed ==
  ASSUME NEW D, IsFiniteSet(D), NEW f \in [D -> Int]
  PROVE  \E g : SumsTo(f, D, g) /\ SumFunction(f) = g[D]
<1>1. DOMAIN f = D
  OBVIOUS
<1>2. SumFunction(f) = (CHOOSE g : Sums(f, DOMAIN f, g))[DOMAIN f]
  BY DEF SumFunction, SumFunctionOnSet, FoldFunctionOnSet, MapThenFoldSet, Sums, Chosen
<1> DEFINE G == CHOOSE g : Sums(f, D, g)
<1>3. Sums(f, D, G)
  BY SumExists
<1> HIDE DEF G
<1>4. SumsTo(f, D, G)
  BY <1>3, SumAny
<1>5. SumFunction(f) = G[D]
  BY <1>1, <1>2 DEF G
<1> QED
  BY <1>4, <1>5

(* The multiples of d.                                                      *)
Multiples(d) == {d * k : k \in Int}

(* Fuzzy triangular numbers whose components are multiples of d.            *)
Fuzzy(d) ==
    {n \in [lower : Multiples(d), peak : Multiples(d), upper : Multiples(d)] : Ordered(n)}

(* A list as a function.                                                    *)
LEMMA Lists ==
  ASSUME NEW n \in Nat, NEW S, NEW f \in [1..n -> S]
  PROVE  f \in Seq(S) /\ Len(f) = n /\ DOMAIN f = 1..n
  OBVIOUS

(* Multiples are numbers.                                                   *)
LEMMA MultipleInt ==
  ASSUME NEW d \in Int
  PROVE  Multiples(d) \subseteq Int
  BY DEF Multiples

(* Greater terms, greater sum.                                              *)
LEMMA SumMonotone ==
  ASSUME NEW D, IsFiniteSet(D), NEW f \in [D -> Int], NEW h \in [D -> Int],
         \A i \in D : f[i] <= h[i]
  PROVE  SumFunction(f) <= SumFunction(h)
<1>1. PICK F : SumsTo(f, D, F) /\ SumFunction(f) = F[D]
  BY Summed
<1>2. PICK H : SumsTo(h, D, H) /\ SumFunction(h) = H[D]
  BY Summed
<1> DEFINE A == {s \in SUBSET D : F[s] <= H[s]}
<1>3. {} \in A
  BY <1>1, <1>2 DEF SumsTo
<1>4. ASSUME NEW s \in SUBSET D, s # {}, \A x \in s : s \ {x} \in A PROVE s \in A
  <2>1. PICK x \in s : TRUE
    BY <1>4
  <2>2. F[s \ {x}] <= H[s \ {x}] /\ f[x] <= h[x]
    BY <1>4
  <2>3. F[s] = f[x] + F[s \ {x}] /\ H[s] = h[x] + H[s \ {x}]
    BY <1>1, <1>2 DEF SumsTo
  <2>4. /\ f[x] \in Int /\ h[x] \in Int
        /\ F[s \ {x}] \in Int /\ H[s \ {x}] \in Int
    BY <1>1, <1>2 DEF SumsTo
  <2> QED
    BY <2>2, <2>3, <2>4
<1> HIDE DEF A
<1>5. D \in A
  BY <1>3, <1>4, Subsets
<1> QED
  BY <1>1, <1>2, <1>5 DEF A

(* A sum of multiples is one.                                               *)
LEMMA SumOfMultiples ==
  ASSUME NEW D, IsFiniteSet(D), NEW d \in Int, NEW f \in [D -> Multiples(d)]
  PROVE  SumFunction(f) \in Multiples(d)
<1>0. f \in [D -> Int]
  BY MultipleInt
<1>1. PICK F : SumsTo(f, D, F) /\ SumFunction(f) = F[D]
  BY <1>0, Summed
<1> DEFINE A == {s \in SUBSET D : F[s] \in Multiples(d)}
<1>3. {} \in A
  <2>1. 0 = d * 0
    OBVIOUS
  <2> QED
    BY <1>1, <2>1 DEF SumsTo, Multiples
<1>4. ASSUME NEW s \in SUBSET D, s # {}, \A x \in s : s \ {x} \in A PROVE s \in A
  <2>1. PICK x \in s : TRUE
    BY <1>4
  <2>2. PICK a \in Int : F[s \ {x}] = d * a
    BY <1>4 DEF Multiples
  <2>3. PICK b \in Int : f[x] = d * b
    BY DEF Multiples
  <2>4. F[s] = d * b + d * a
    BY <1>1, <2>2, <2>3 DEF SumsTo
  <2>5. d * b + d * a = d * (b + a) /\ b + a \in Int
    OBVIOUS
  <2>6. F[s] = d * (b + a)
    BY <2>4, <2>5
  <2> QED
    BY <2>5, <2>6 DEF Multiples
<1> HIDE DEF A
<1>5. D \in A
  BY <1>3, <1>4, Subsets
<1> QED
  BY <1>1, <1>5 DEF A

(* A sum is a number.                                                       *)
LEMMA SumInt ==
  ASSUME NEW D, IsFiniteSet(D), NEW f \in [D -> Int]
  PROVE  SumFunction(f) \in Int
<1>1. PICK F : SumsTo(f, D, F) /\ SumFunction(f) = F[D]
  BY Summed
<1> QED
  BY <1>1 DEF SumsTo

(* The sum of two.                                                          *)
LEMMA SumPair ==
  ASSUME NEW a \in Int, NEW b \in Int
  PROVE  SumFunction(<<a, b>>) = a + b
<1> DEFINE f == <<a, b>>
<1>1. f \in [1..2 -> Int] /\ f[1] = a /\ f[2] = b
  OBVIOUS
<1>2. IsFiniteSet(1..2)
  <2>1. \A n \in Nat : IsFiniteSet(1..n)
    BY FS_Interval
  <2> QED
    BY <2>1
<1> HIDE DEF f
<1>3. PICK F : SumsTo(f, 1..2, F) /\ SumFunction(f) = F[1..2]
  BY <1>1, <1>2, Summed
<1>4. F[1..2] = f[1] + F[(1..2) \ {1}]
  BY <1>3 DEF SumsTo
<1>5. (1..2) \ {1} = {2}
  OBVIOUS
<1>6. F[{2}] = f[2] + F[{2} \ {2}]
  BY <1>3 DEF SumsTo
<1>7. {2} \ {2} = {} /\ F[{}] = 0
  BY <1>3 DEF SumsTo
<1> QED
  BY <1>1, <1>3, <1>4, <1>5, <1>6, <1>7 DEF f

-------------------------------------------------------------------------------
(* Means and centroids, which Unit makes exact.                             *)

(* Unit can be divided by the number of experts and 12.                     *)
LEMMA UnitOf ==
  ASSUME NEW n \in 1..MaxExperts
  PROVE  \E q \in Int : Unit = n * (12 * q)
<1>1. MaxExperts \in Nat /\ Unit \in Int /\ n \in Nat \ {0} /\ 12 * n \in Nat \ {0}
  BY UnitAssumption
<1>2. Unit % (12 * n) = 0
  BY UnitAssumption
<1>3. PICK k \in Int : Unit = (12 * n) * k
  BY <1>1, <1>2, Multiple
<1>4. (12 * n) * k = n * (12 * k)
  BY <1>1
<1> QED
  BY <1>3, <1>4

(* The mean of whole numbers is exact, and a multiple of 12.                *)
LEMMA MeanExact ==
  ASSUME NEW n \in 1..MaxExperts, NEW f \in [1..n -> Multiples(Unit)]
  PROVE  Mean(f) \in Multiples(12) /\ SumFunction(f) = n * Mean(f)
<1>1. MaxExperts \in Nat /\ n \in Nat \ {0} /\ Unit \in Int
  BY UnitAssumption
<1>2. Len(f) = n
  BY <1>1, Lists
<1>3. IsFiniteSet(1..n)
  BY <1>1, FS_Interval
<1>4. PICK k \in Int : SumFunction(f) = Unit * k
  BY <1>1, <1>3, SumOfMultiples DEF Multiples
<1>5. PICK q \in Int : Unit = n * (12 * q)
  BY UnitOf
<1>6. (n * (12 * q)) * k = n * (12 * (q * k))
  BY <1>1
<1>7. SumFunction(f) = n * (12 * (q * k))
  BY <1>4, <1>5, <1>6
<1>8. q * k \in Int /\ 12 * (q * k) \in Int
  OBVIOUS
<1>9. Mean(f) = 12 * (q * k)
  BY <1>1, <1>2, <1>7, <1>8, DivExact DEF Mean
<1> QED
  BY <1>7, <1>8, <1>9 DEF Multiples

(* Greater numbers, greater mean.                                           *)
LEMMA MeanMonotone ==
  ASSUME NEW n \in Nat \ {0}, NEW f \in [1..n -> Int], NEW h \in [1..n -> Int],
         \A i \in 1..n : f[i] <= h[i]
  PROVE  Mean(f) <= Mean(h)
<1>1. Len(f) = n /\ Len(h) = n /\ IsFiniteSet(1..n)
  BY Lists, FS_Interval
<1>2. SumFunction(f) <= SumFunction(h)
  BY <1>1, SumMonotone
<1>3. SumFunction(f) \in Int /\ SumFunction(h) \in Int
  BY <1>1, SumInt
<1> QED
  BY <1>1, <1>2, <1>3, DivMonotone DEF Mean

(* The components of a fuzzy number.                                        *)
LEMMA FuzzyParts ==
  ASSUME NEW d \in Int, NEW n \in Fuzzy(d)
  PROVE  /\ n.lower \in Multiples(d) /\ n.peak \in Multiples(d) /\ n.upper \in Multiples(d)
         /\ n.lower \in Int /\ n.peak \in Int /\ n.upper \in Int
         /\ n.lower <= n.peak /\ n.peak <= n.upper
         /\ n = [lower |-> n.lower, peak |-> n.peak, upper |-> n.upper]
<1>1. /\ n.lower \in Multiples(d) /\ n.peak \in Multiples(d) /\ n.upper \in Multiples(d)
      /\ n.lower <= n.peak /\ n.peak <= n.upper
  BY DEF Fuzzy, Ordered
<1>2. n = [lower |-> n.lower, peak |-> n.peak, upper |-> n.upper]
  BY DEF Fuzzy
<1> QED
  BY <1>1, <1>2, MultipleInt

(* Ordered components make a fuzzy number.                                  *)
LEMMA FuzzyOf ==
  ASSUME NEW d, NEW l \in Multiples(d), NEW p \in Multiples(d), NEW u \in Multiples(d),
         l <= p, p <= u
  PROVE  [lower |-> l, peak |-> p, upper |-> u] \in Fuzzy(d)
  BY DEF Fuzzy, Ordered

(* The mean of a list of opinions is a fuzzy number.                        *)
LEMMA AverageFuzzy ==
  ASSUME NEW n \in 1..MaxExperts, NEW ns \in [1..n -> Fuzzy(Unit)]
  PROVE  Average(ns) \in Fuzzy(12)
<1> DEFINE l == [i \in DOMAIN ns |-> ns[i].lower]
           p == [i \in DOMAIN ns |-> ns[i].peak]
           u == [i \in DOMAIN ns |-> ns[i].upper]
<1>0. Unit \in Int /\ n \in Nat \ {0} /\ DOMAIN ns = 1..n
  BY UnitAssumption
<1>1. \A i \in 1..n : /\ ns[i].lower \in Multiples(Unit) /\ ns[i].peak \in Multiples(Unit)
                      /\ ns[i].upper \in Multiples(Unit)
                      /\ ns[i].lower <= ns[i].peak /\ ns[i].peak <= ns[i].upper
  BY <1>0, FuzzyParts
<1>2. /\ l \in [1..n -> Multiples(Unit)] /\ p \in [1..n -> Multiples(Unit)]
      /\ u \in [1..n -> Multiples(Unit)]
      /\ \A i \in 1..n : l[i] <= p[i] /\ p[i] <= u[i]
  BY <1>0, <1>1
<1>3. Average(ns) = [lower |-> Mean(l), peak |-> Mean(p), upper |-> Mean(u)]
  BY DEF Average
<1> HIDE DEF l, p, u
<1>4. l \in [1..n -> Int] /\ p \in [1..n -> Int] /\ u \in [1..n -> Int]
  BY <1>0, <1>2, MultipleInt
<1>5. Mean(l) \in Multiples(12) /\ Mean(p) \in Multiples(12) /\ Mean(u) \in Multiples(12)
  BY <1>2, MeanExact
<1>6. Mean(l) <= Mean(p) /\ Mean(p) <= Mean(u)
  BY <1>0, <1>2, <1>4, MeanMonotone
<1> QED
  BY <1>3, <1>5, <1>6, FuzzyOf

(* The mean of two numbers.                                                 *)
Halfway(a, b) ==
    [ lower |-> (a.lower + b.lower) \div 2,
      peak  |-> (a.peak + b.peak) \div 2,
      upper |-> (a.upper + b.upper) \div 2 ]

(* Average of two fuzzy numbers: what lies halfway.                         *)
LEMMA AveragePair ==
  ASSUME NEW d \in Int, NEW a \in Fuzzy(d), NEW b \in Fuzzy(d)
  PROVE  Average(<<a, b>>) = Halfway(a, b)
<1> DEFINE ns == <<a, b>>
           l == [i \in DOMAIN ns |-> ns[i].lower]
           p == [i \in DOMAIN ns |-> ns[i].peak]
           u == [i \in DOMAIN ns |-> ns[i].upper]
<1>1. l = <<a.lower, b.lower>> /\ p = <<a.peak, b.peak>> /\ u = <<a.upper, b.upper>>
  OBVIOUS
<1>2. Average(ns) = [lower |-> Mean(l), peak |-> Mean(p), upper |-> Mean(u)]
  BY DEF Average
<1>3. ASSUME NEW x \in Int, NEW y \in Int PROVE Mean(<<x, y>>) = (x + y) \div 2
  BY SumPair DEF Mean
<1> HIDE DEF l, p, u
<1>4. Mean(l) = (a.lower + b.lower) \div 2 /\ Mean(p) = (a.peak + b.peak) \div 2
      /\ Mean(u) = (a.upper + b.upper) \div 2
  BY <1>1, <1>3, FuzzyParts
<1> QED
  BY <1>2, <1>4 DEF Halfway

(* e is half of d, so that nothing is lost.                                 *)
LEMMA HalfwayFuzzy ==
  ASSUME NEW e \in Int, NEW a \in Fuzzy(2 * e), NEW b \in Fuzzy(2 * e)
  PROVE  /\ Halfway(a, b) \in Fuzzy(e)
         /\ 2 * Halfway(a, b).lower = a.lower + b.lower
         /\ 2 * Halfway(a, b).peak = a.peak + b.peak
         /\ 2 * Halfway(a, b).upper = a.upper + b.upper
<1>1. ASSUME NEW x \in Multiples(2 * e), NEW y \in Multiples(2 * e)
      PROVE  (x + y) \div 2 \in Multiples(e) /\ 2 * ((x + y) \div 2) = x + y
  <2>1. PICK j \in Int : x = (2 * e) * j
    BY DEF Multiples
  <2>2. PICK k \in Int : y = (2 * e) * k
    BY DEF Multiples
  <2>3. x + y = 2 * (e * (j + k)) /\ e * (j + k) \in Int /\ j + k \in Int
    BY <2>1, <2>2
  <2>4. (x + y) \div 2 = e * (j + k)
    BY <2>3, DivExact
  <2> QED
    BY <2>3, <2>4 DEF Multiples
<1>2. 2 * e \in Int
  OBVIOUS
<1> DEFINE l == (a.lower + b.lower) \div 2
           p == (a.peak + b.peak) \div 2
           u == (a.upper + b.upper) \div 2
<1>3. /\ a.lower \in Int /\ a.peak \in Int /\ a.upper \in Int
      /\ b.lower \in Int /\ b.peak \in Int /\ b.upper \in Int
      /\ a.lower + b.lower <= a.peak + b.peak /\ a.peak + b.peak <= a.upper + b.upper
  BY <1>2, FuzzyParts
<1>4. l \in Multiples(e) /\ p \in Multiples(e) /\ u \in Multiples(e)
      /\ 2 * l = a.lower + b.lower /\ 2 * p = a.peak + b.peak /\ 2 * u = a.upper + b.upper
  BY <1>1, <1>2, FuzzyParts
<1>5. l <= p /\ p <= u
  <2>1. a.lower + b.lower \in Int /\ a.peak + b.peak \in Int /\ a.upper + b.upper \in Int
    BY <1>3
  <2> QED
    BY <1>3, <2>1, DivMonotone
<1>6. Halfway(a, b) = [lower |-> l, peak |-> p, upper |-> u]
  BY DEF Halfway
<1> HIDE DEF l, p, u
<1> QED
  BY <1>4, <1>5, <1>6, FuzzyOf

(* The centroid of multiples of 3 e is exact, and a multiple of e.          *)
LEMMA CentroidExact ==
  ASSUME NEW e \in Int, NEW n \in Fuzzy(3 * e)
  PROVE  /\ Centroid(n) \in Multiples(e) /\ Centroid(n) \in Int
         /\ 3 * Centroid(n) = n.lower + n.peak + n.upper
<1>0. 3 * e \in Int
  OBVIOUS
<1>1. n.lower \in Multiples(3 * e) /\ n.peak \in Multiples(3 * e) /\ n.upper \in Multiples(3 * e)
  BY <1>0, FuzzyParts
<1>2. PICK j \in Int : n.lower = (3 * e) * j
  BY <1>1 DEF Multiples
<1>3. PICK k \in Int : n.peak = (3 * e) * k
  BY <1>1 DEF Multiples
<1>4. PICK m \in Int : n.upper = (3 * e) * m
  BY <1>1 DEF Multiples
<1>5. n.lower + n.peak + n.upper = 3 * (e * (j + k + m)) /\ j + k + m \in Int /\ e * (j + k + m) \in Int
  BY <1>2, <1>3, <1>4
<1>6. Centroid(n) = e * (j + k + m)
  BY <1>5, DivExact DEF Centroid
<1> QED
  BY <1>5, <1>6 DEF Multiples

(* Multiples of the finer unit.                                             *)
LEMMA Finer ==
  ASSUME NEW d, NEW e, Multiples(e) \subseteq Multiples(d)
  PROVE  Fuzzy(e) \subseteq Fuzzy(d)
  BY DEF Fuzzy

(* Whole numbers are multiples of 12, and of 6.                             *)
LEMMA WholeNumbers ==
  ASSUME NEW n \in 1..MaxExperts
  PROVE  Fuzzy(Unit) \subseteq Fuzzy(12) /\ Fuzzy(12) \subseteq Fuzzy(6)
<1>1. PICK q \in Int : Unit = n * (12 * q)
  BY UnitOf
<1>2. n * (12 * q) = 12 * (n * q) /\ n * q \in Int
  BY UnitAssumption
<1>3. PICK k \in Int : Unit = 12 * k
  BY <1>1, <1>2
<1>4. ASSUME NEW j \in Int PROVE Unit * j \in Multiples(12)
  <2>1. Unit * j = 12 * (k * j) /\ k * j \in Int
    BY <1>3
  <2> QED
    BY <2>1 DEF Multiples
<1>5. ASSUME NEW j \in Int PROVE 12 * j \in Multiples(6)
  <2>1. 12 * j = 6 * (2 * j) /\ 2 * j \in Int
    OBVIOUS
  <2> QED
    BY <2>1 DEF Multiples
<1>6. Multiples(Unit) \subseteq Multiples(12) /\ Multiples(12) \subseteq Multiples(6)
  BY <1>4, <1>5 DEF Multiples
<1> QED
  BY <1>6, Finer

(* What a result owes to the mean and the median it is made of.             *)
LEMMA CompromiseExact ==
  ASSUME NEW mean \in Fuzzy(6), NEW median \in Fuzzy(6), NEW k,
         NEW r, r = FromCalculations(mean, median, k)
  PROVE  /\ Ordered(r.best_compromise) /\ Ordered(r.arithmetic_mean) /\ Ordered(r.median)
         /\ r.max_error >= 0 /\ r.num_experts = k
         /\ Abs(Centroid(r.best_compromise) - Centroid(r.arithmetic_mean)) = r.max_error
         /\ Abs(Centroid(r.best_compromise) - Centroid(r.median)) = r.max_error
<1> DEFINE b == Halfway(mean, median)
           e == Abs(Centroid(mean) - Centroid(median)) \div 2
<1>1. Average(<<mean, median>>) = b
  BY AveragePair
<1>2. /\ b \in Fuzzy(3)
      /\ 2 * b.lower = mean.lower + median.lower
      /\ 2 * b.peak = mean.peak + median.peak
      /\ 2 * b.upper = mean.upper + median.upper
  <2>1. mean \in Fuzzy(2 * 3) /\ median \in Fuzzy(2 * 3)
    OBVIOUS
  <2> HIDE DEF b
  <2> QED
    BY <2>1, HalfwayFuzzy DEF b
<1>3. r.best_compromise = b /\ r.arithmetic_mean = mean /\ r.median = median
      /\ r.max_error = e /\ r.num_experts = k
  BY <1>1 DEF FromCalculations
<1> HIDE DEF b
<1>4. /\ b.lower \in Int /\ b.peak \in Int /\ b.upper \in Int
      /\ mean.lower \in Int /\ mean.peak \in Int /\ mean.upper \in Int
      /\ median.lower \in Int /\ median.peak \in Int /\ median.upper \in Int
      /\ Ordered(b) /\ Ordered(mean) /\ Ordered(median)
  BY <1>2, FuzzyParts DEF Ordered
<1>5. Centroid(b) \in Int /\ 3 * Centroid(b) = b.lower + b.peak + b.upper
  <2>1. PICK o \in Int : o = 1
    OBVIOUS
  <2>2. b \in Fuzzy(3 * o)
    BY <1>2, <2>1
  <2> QED
    BY <2>2, CentroidExact
<1>6. ASSUME NEW n \in Fuzzy(6)
      PROVE  \E x \in Int : Centroid(n) = 2 * x /\ 3 * Centroid(n) = n.lower + n.peak + n.upper
  <2>1. n \in Fuzzy(3 * 2)
    OBVIOUS
  <2> QED
    BY <2>1, CentroidExact DEF Multiples
<1>7. PICK x \in Int : Centroid(mean) = 2 * x /\ 3 * Centroid(mean) = mean.lower + mean.peak + mean.upper
  BY <1>6
<1>8. PICK y \in Int : Centroid(median) = 2 * y /\ 3 * Centroid(median) = median.lower + median.peak + median.upper
  BY <1>6
<1>9. Centroid(b) = x + y
  <2>1. 2 * (b.lower + b.peak + b.upper)
          = (mean.lower + mean.peak + mean.upper) + (median.lower + median.peak + median.upper)
    BY <1>2, <1>4
  <2>2. mean.lower + mean.peak + mean.upper = 3 * (2 * x)
        /\ median.lower + median.peak + median.upper = 3 * (2 * y)
    BY <1>7, <1>8
  <2>3. 2 * (3 * Centroid(b)) = 3 * (2 * x) + 3 * (2 * y)
    BY <1>5, <2>1, <2>2
  <2> QED
    BY <1>5, <2>3
<1>10. e = Abs(x - y)
  <2>1. Abs(2 * x - 2 * y) = 2 * Abs(x - y) /\ Abs(x - y) \in Int
    BY DEF Abs
  <2> QED
    BY <1>7, <1>8, <2>1, DivExact
<1> HIDE DEF e
<1> QED
  BY <1>3, <1>4, <1>7, <1>8, <1>9, <1>10 DEF Abs

-------------------------------------------------------------------------------
(* The sort.                                                                *)

(* A set of natural numbers has a least element.                            *)
LEMMA NatMin ==
  ASSUME NEW T, T \subseteq Nat, T # {}
  PROVE  \E x \in T : \A y \in T : x <= y
<1> DEFINE R == OpToRel(<, Nat)
<1>1. IsWellFoundedOn(R, Nat)
  BY NatLessThanWellFounded
<1> HIDE DEF R
<1>2. PICK x \in T : \A y \in T : ~(<<y, x>> \in R)
  BY <1>1, WFMin
<1>3. \A y \in T : ~(y < x)
  BY <1>2 DEF R, OpToRel
<1> QED
  BY <1>2, <1>3

(* The centroid of the opinion at a place, and the order in which the sort  *)
(* puts the places.                                                         *)
At(ops, i) == Centroid(ops[i].opinion)

(* The order of the stable sort.                                            *)
Before(ops, i, j) == At(ops, i) < At(ops, j) \/ (At(ops, i) = At(ops, j) /\ i < j)

(* The places that come before.                                             *)
Earlier(ops, i) == {j \in DOMAIN ops : Before(ops, j, i)}

(* A list of n opinions.                                                    *)
OpinionList(ops, n) ==
    /\ n \in Nat /\ DOMAIN ops = 1..n
    /\ \A i \in 1..n : At(ops, i) \in Int

(* The rank counts the places before.                                       *)
LEMMA RankIs ==
  ASSUME NEW ops, NEW i
  PROVE  Rank(ops, i) = 1 + Cardinality(Earlier(ops, i))
  BY DEF Rank, Earlier, Before, At

(* There are finitely many.                                                 *)
LEMMA EarlierFinite ==
  ASSUME NEW ops, NEW n, OpinionList(ops, n), NEW i \in 1..n
  PROVE  IsFiniteSet(Earlier(ops, i)) /\ Cardinality(Earlier(ops, i)) \in Nat
<1>1. IsFiniteSet(1..n)
  BY FS_Interval DEF OpinionList
<1>2. Earlier(ops, i) \subseteq 1..n
  BY DEF Earlier, OpinionList
<1> QED
  BY <1>1, <1>2, FS_Subset, FS_CardinalityType

(* A rank is a place of the list.                                           *)
LEMMA RankIn ==
  ASSUME NEW ops, NEW n, OpinionList(ops, n), NEW i \in 1..n
  PROVE  Rank(ops, i) \in 1..n
<1>1. n \in Nat /\ IsFiniteSet(1..n) /\ Cardinality(1..n) = n
  <2>1. n \in Nat
    BY DEF OpinionList
  <2> QED
    BY <2>1, FS_Interval
<1>2. Earlier(ops, i) \subseteq (1..n) \ {i}
  BY DEF Earlier, OpinionList, Before
<1>3. IsFiniteSet((1..n) \ {i}) /\ Cardinality((1..n) \ {i}) = n - 1
  BY <1>1, FS_RemoveElement
<1>4. Cardinality(Earlier(ops, i)) <= n - 1
  BY <1>2, <1>3, FS_Subset
<1> QED
  BY <1>1, <1>4, EarlierFinite, RankIs

(* What comes before has a smaller rank.                                    *)
LEMMA RankIncreases ==
  ASSUME NEW ops, NEW n, OpinionList(ops, n), NEW i \in 1..n, NEW j \in 1..n,
         Before(ops, i, j)
  PROVE  Rank(ops, i) < Rank(ops, j)
<1>1. Earlier(ops, i) \subseteq Earlier(ops, j) \ {i}
  BY DEF Earlier, Before, OpinionList
<1>2. i \in Earlier(ops, j)
  BY DEF Earlier, OpinionList
<1>3. /\ IsFiniteSet(Earlier(ops, j) \ {i})
      /\ Cardinality(Earlier(ops, j) \ {i}) = Cardinality(Earlier(ops, j)) - 1
  BY <1>2, EarlierFinite, FS_RemoveElement
<1>4. Cardinality(Earlier(ops, i)) <= Cardinality(Earlier(ops, j)) - 1
  BY <1>1, <1>3, FS_Subset
<1> QED
  BY <1>4, EarlierFinite, RankIs

(* Different places have different ranks.                                   *)
LEMMA RankInjective ==
  ASSUME NEW ops, NEW n, OpinionList(ops, n), NEW i \in 1..n, NEW j \in 1..n,
         Rank(ops, i) = Rank(ops, j)
  PROVE  i = j
<1>1. Before(ops, i, j) \/ Before(ops, j, i) \/ i = j
  BY DEF Before, OpinionList
<1>2. Rank(ops, i) \in Int /\ Rank(ops, j) \in Int
  BY RankIn
<1> QED
  BY <1>1, <1>2, RankIncreases

(* Every place of the list is a rank: a one-to-one function on a finite set *)
(* is onto.                                                                 *)
LEMMA RankReached ==
  ASSUME NEW ops, NEW n, OpinionList(ops, n), NEW k \in 1..n
  PROVE  \E i \in 1..n : Rank(ops, i) = k
<1> DEFINE f == [i \in 1..n |-> Rank(ops, i)]
<1>1. n \in Nat
  BY DEF OpinionList
<1>2. IsFiniteSet(1..n)
  BY <1>1, FS_Interval
<1>3. f \in [1..n -> 1..n]
  BY RankIn
<1>4. \A i, j \in 1..n : f[i] = f[j] => i = j
  BY RankInjective
<1> HIDE DEF f
<1>5. f \in Injection(1..n, 1..n)
  BY <1>3, <1>4 DEF Injection, IsInjective
<1>6. f \in Surjection(1..n, 1..n)
  BY <1>2, <1>5, FS_Injection
<1>7. \E i \in 1..n : f[i] = k
  BY <1>6 DEF Surjection
<1> QED
  BY <1>7 DEF f

(* The place in the list of the opinion at place k of the sorted list.      *)
PlaceOf(ops, k) == CHOOSE i \in DOMAIN ops : Rank(ops, i) = k

(* So that the CHOOSE of the sort finds what it looks for.                  *)
LEMMA PlaceOfRank ==
  ASSUME NEW ops, NEW n, OpinionList(ops, n), NEW k \in 1..n
  PROVE  PlaceOf(ops, k) \in 1..n /\ Rank(ops, PlaceOf(ops, k)) = k
<1>1. DOMAIN ops = 1..n
  BY DEF OpinionList
<1>2. \E i \in 1..n : Rank(ops, i) = k
  BY RankReached
<1> QED
  BY <1>1, <1>2 DEF PlaceOf

(* The sorted list, by the places of the ranks.                             *)
LEMMA SortedIs ==
  ASSUME NEW ops, NEW n, OpinionList(ops, n)
  PROVE  /\ DOMAIN SortByCentroid(ops) = 1..n
         /\ \A k \in 1..n : SortByCentroid(ops)[k] = ops[PlaceOf(ops, k)]
  BY DEF SortByCentroid, PlaceOf, OpinionList

(* It is in the order of the centroids.                                     *)
LEMMA SortedOrder ==
  ASSUME NEW ops, NEW n, OpinionList(ops, n), NEW k \in 1..n, NEW m \in 1..n, k <= m
  PROVE  At(SortByCentroid(ops), k) <= At(SortByCentroid(ops), m)
<1> DEFINE i == PlaceOf(ops, k)
           j == PlaceOf(ops, m)
<1>1. i \in 1..n /\ j \in 1..n /\ Rank(ops, i) = k /\ Rank(ops, j) = m
  BY PlaceOfRank
<1>2. At(SortByCentroid(ops), k) = At(ops, i) /\ At(SortByCentroid(ops), m) = At(ops, j)
  BY SortedIs DEF At
<1> HIDE DEF i, j
<1>3. At(ops, i) \in Int /\ At(ops, j) \in Int
  BY <1>1 DEF OpinionList
<1>4. ~Before(ops, j, i)
  <2>1. SUFFICES ASSUME Before(ops, j, i) PROVE m < k
    OBVIOUS
  <2> QED
    BY <1>1, <2>1, RankIncreases
<1> QED
  BY <1>2, <1>3, <1>4 DEF Before

(* A list of 1 to MaxExperts opinions in whole numbers.                     *)
WholeList(ops, n) ==
    /\ n \in 1..MaxExperts /\ DOMAIN ops = 1..n /\ Len(ops) = n
    /\ \A i \in 1..n : ops[i].opinion \in Fuzzy(Unit)

(* Its centroids are multiples of 4.                                        *)
LEMMA WholeListIs ==
  ASSUME NEW ops, NEW n, WholeList(ops, n)
  PROVE  /\ n \in Nat \ {0} /\ n \in Int /\ OpinionList(ops, n)
         /\ \A i \in 1..n : At(ops, i) \in Multiples(4) /\ At(ops, i) \in Int
<1>1. n \in 1..MaxExperts /\ MaxExperts \in Nat
  BY UnitAssumption DEF WholeList
<1>2. ASSUME NEW i \in 1..n PROVE At(ops, i) \in Multiples(4) /\ At(ops, i) \in Int
  <2>1. ops[i].opinion \in Fuzzy(12)
    BY <1>1, WholeNumbers DEF WholeList
  <2>2. PICK e \in Int : e = 4
    OBVIOUS
  <2>3. ops[i].opinion \in Fuzzy(3 * e)
    BY <2>1, <2>2
  <2> QED
    BY <2>2, <2>3, CentroidExact DEF At
<1> QED
  BY <1>1, <1>2 DEF OpinionList, WholeList

(* The sorted list is of the same kind.                                     *)
LEMMA SortedWhole ==
  ASSUME NEW ops, NEW n, WholeList(ops, n)
  PROVE  WholeList(SortByCentroid(ops), n)
<1> DEFINE s == SortByCentroid(ops)
           S == {ops[i] : i \in 1..n}
<1>1. OpinionList(ops, n) /\ n \in Nat
  BY WholeListIs
<1>2. /\ DOMAIN s = 1..n
      /\ \A k \in 1..n : s[k] = ops[PlaceOf(ops, k)] /\ PlaceOf(ops, k) \in 1..n
  BY <1>1, SortedIs, PlaceOfRank
<1>3. s = [k \in 1..n |-> s[k]]
  BY <1>1 DEF SortByCentroid, OpinionList
<1> HIDE DEF s
<1>4. s \in [1..n -> S]
  BY <1>2, <1>3
<1>5. Len(s) = n
  BY <1>1, <1>4, Lists
<1> QED
  BY <1>2, <1>5 DEF WholeList, s

-------------------------------------------------------------------------------
(* The search.                                                              *)

(* The key of the search.                                                   *)
Distance(ops, i, target) == Abs(At(ops, i) - target)

(* i is the place where Python's min stops.                                 *)
IsClosest(ops, places, target, i) ==
    /\ i \in places
    /\ \A j \in places : \/ Distance(ops, i, target) < Distance(ops, j, target)
                         \/ Distance(ops, i, target) = Distance(ops, j, target) /\ i <= j

(* There is a nearest one: the least distance, and the first place with it. *)
LEMMA ClosestExists ==
  ASSUME NEW ops, NEW n, OpinionList(ops, n), NEW places \in SUBSET (1..n), places # {},
         NEW target \in Int
  PROVE  \E i \in places : IsClosest(ops, places, target, i)
<1>0. \A i \in places : Distance(ops, i, target) \in Nat /\ i \in Nat
  BY DEF OpinionList, Distance, Abs
<1> DEFINE D == {Distance(ops, i, target) : i \in places}
<1>1. D \subseteq Nat /\ D # {}
  BY <1>0
<1> HIDE DEF D
<1>2. PICK d \in D : \A e \in D : d <= e
  BY <1>1, NatMin
<1> DEFINE P == {i \in places : Distance(ops, i, target) = d}
<1>3. P \subseteq Nat /\ P # {}
  BY <1>0, <1>2 DEF D
<1> HIDE DEF P
<1>4. PICK i \in P : \A j \in P : i <= j
  BY <1>3, NatMin
<1>5. i \in places /\ Distance(ops, i, target) = d
  BY <1>4 DEF P
<1>6. ASSUME NEW j \in places
      PROVE  \/ Distance(ops, i, target) < Distance(ops, j, target)
             \/ Distance(ops, i, target) = Distance(ops, j, target) /\ i <= j
  <2>1. d <= Distance(ops, j, target) /\ d \in Nat
    BY <1>1, <1>2 DEF D
  <2>2. Distance(ops, j, target) = d => i <= j
    BY <1>4 DEF P
  <2> QED
    BY <1>0, <1>5, <2>1, <2>2
<1> QED
  BY <1>5, <1>6 DEF IsClosest

(* The search finds it.                                                     *)
LEMMA ClosestIs ==
  ASSUME NEW ops, NEW n, OpinionList(ops, n), NEW places \in SUBSET (1..n), places # {},
         NEW target \in Int
  PROVE  \E i \in places : /\ IsClosest(ops, places, target, i)
                           /\ FindClosestOpinion(ops, places, target) = ops[i]
<1> DEFINE c == CHOOSE i \in places : \A j \in places :
                    \/ Distance(ops, i, target) < Distance(ops, j, target)
                    \/ Distance(ops, i, target) = Distance(ops, j, target) /\ i <= j
<1>1. FindClosestOpinion(ops, places, target) = ops[c]
  BY DEF FindClosestOpinion, Distance, At
<1>2. \E i \in places : \A j \in places :
          \/ Distance(ops, i, target) < Distance(ops, j, target)
          \/ Distance(ops, i, target) = Distance(ops, j, target) /\ i <= j
  BY ClosestExists DEF IsClosest
<1>3. IsClosest(ops, places, target, c)
  BY <1>2 DEF IsClosest
<1> QED
  BY <1>1, <1>3 DEF IsClosest

-------------------------------------------------------------------------------
(* The median.                                                              *)

(* A list in the order of its centroids.                                    *)
SortedList(s, n) ==
    /\ WholeList(s, n)
    /\ \A k, m \in 1..n : k <= m => At(s, k) <= At(s, m)

(* The sort sorts.                                                          *)
LEMMA Sorted ==
  ASSUME NEW ops, NEW n, WholeList(ops, n)
  PROVE  SortedList(SortByCentroid(ops), n)
<1>1. OpinionList(ops, n)
  BY WholeListIs
<1> QED
  BY <1>1, SortedWhole, SortedOrder DEF SortedList

(* The middle places, one if n is odd.                                      *)
Lower(n) == (n + 1) \div 2
Upper(n) == (n \div 2) + 1

(* The middle of an odd list.                                               *)
LEMMA MiddleOdd ==
  ASSUME NEW n \in Nat \ {0}, n % 2 = 1
  PROVE  Lower(n) \in 1..n /\ Upper(n) = Lower(n)
  BY DEF Lower, Upper

(* The middle of an even list.                                              *)
LEMMA MiddleEven ==
  ASSUME NEW n \in Nat \ {0}, n % 2 # 1
  PROVE  /\ n % 2 = 0
         /\ Lower(n) \in 1..n /\ Upper(n) \in 1..n /\ Upper(n) = Lower(n) + 1
  BY DEF Lower, Upper

(* The target of the search lies halfway between the middle centroids.      *)
LEMMA Target ==
  ASSUME NEW s, NEW n, SortedList(s, n)
  PROVE  /\ Lower(n) \in 1..n /\ Upper(n) \in 1..n /\ Lower(n) <= Upper(n)
         /\ \A i \in 1..n : i <= Lower(n) \/ Upper(n) <= i
         /\ MedianCentroid(s) \in Int
         /\ 2 * MedianCentroid(s) = At(s, Lower(n)) + At(s, Upper(n))
<1>1. n \in Nat \ {0} /\ Len(s) = n /\ \A i \in 1..n : At(s, i) \in Multiples(4)
  BY WholeListIs DEF SortedList, WholeList
<1>2. Lower(n) \in 1..n /\ Upper(n) \in 1..n /\ Lower(n) <= Upper(n) /\ Upper(n) <= Lower(n) + 1
  BY <1>1, MiddleOdd, MiddleEven
<1>3. PICK a \in Int : At(s, Lower(n)) = 4 * a
  BY <1>1, <1>2 DEF Multiples
<1>4. PICK b \in Int : At(s, Upper(n)) = 4 * b
  BY <1>1, <1>2 DEF Multiples
<1>5. MedianCentroid(s) = (At(s, Lower(n)) + At(s, Upper(n))) \div 2
  BY <1>1 DEF MedianCentroid, At, Lower, Upper
<1>6. MedianCentroid(s) = 2 * a + 2 * b
  <2>1. 4 * a + 4 * b = 2 * (2 * a + 2 * b) /\ 2 * a + 2 * b \in Int
    OBVIOUS
  <2> QED
    BY <1>3, <1>4, <1>5, <2>1, DivExact
<1> QED
  BY <1>2, <1>3, <1>4, <1>6

(* The two middle opinions are as near to the target as any, and an opinion *)
(* as near as they are has a centroid of theirs.                            *)
LEMMA MiddleNearest ==
  ASSUME NEW s, NEW n, SortedList(s, n), NEW i \in 1..n, NEW t, t = MedianCentroid(s)
  PROVE  /\ Distance(s, Lower(n), t) = Distance(s, Upper(n), t)
         /\ Distance(s, Lower(n), t) \in Nat /\ Distance(s, i, t) \in Nat
         /\ Distance(s, Lower(n), t) <= Distance(s, i, t)
         /\ Distance(s, i, t) = Distance(s, Lower(n), t)
               => At(s, i) \in {At(s, Lower(n)), At(s, Upper(n))}
<1>1. /\ Lower(n) \in 1..n /\ Upper(n) \in 1..n
      /\ t \in Int /\ 2 * t = At(s, Lower(n)) + At(s, Upper(n))
      /\ i <= Lower(n) \/ Upper(n) <= i
      /\ Lower(n) <= Upper(n)
  BY Target
<1>2. At(s, i) \in Int /\ At(s, Lower(n)) \in Int /\ At(s, Upper(n)) \in Int
  BY <1>1, WholeListIs DEF SortedList
<1>3. /\ At(s, i) <= At(s, Lower(n)) \/ At(s, Upper(n)) <= At(s, i)
      /\ At(s, Lower(n)) <= At(s, Upper(n))
  BY <1>1 DEF SortedList
<1>4. PICK a \in Int : a = At(s, Lower(n))
  BY <1>2
<1>5. PICK b \in Int : b = At(s, Upper(n))
  BY <1>2
<1>6. PICK c \in Int : c = At(s, i)
  BY <1>2
<1>7. t \in Int /\ 2 * t = a + b /\ a <= b /\ (c <= a \/ b <= c)
  BY <1>1, <1>3, <1>4, <1>5, <1>6
<1>8. Abs(a - t) = t - a /\ Abs(b - t) = b - t /\ t - a = b - t /\ t - a \in Nat
  BY <1>7 DEF Abs
<1>9. CASE c <= a
  <2>1. Abs(c - t) = t - c /\ t - c \in Nat
    BY <1>7, <1>9 DEF Abs
  <2>2. t - a <= t - c /\ (t - c = t - a => c = a)
    BY <1>7, <1>9
  <2> QED
    BY <1>4, <1>5, <1>6, <1>8, <2>1, <2>2 DEF Distance
<1>10. CASE b <= c
  <2>1. Abs(c - t) = c - t /\ c - t \in Nat
    BY <1>7, <1>10 DEF Abs
  <2> QED
    BY <1>4, <1>5, <1>6, <1>7, <1>8, <1>10, <2>1 DEF Distance
<1> QED
  BY <1>7, <1>9, <1>10

(* Among places that hold one of the two, the search ends at one of their   *)
(* centroids.                                                               *)
LEMMA ClosestMiddle ==
  ASSUME NEW s, NEW n, SortedList(s, n), NEW places \in SUBSET (1..n),
         Lower(n) \in places \/ Upper(n) \in places,
         NEW i, IsClosest(s, places, MedianCentroid(s), i)
  PROVE  At(s, i) \in {At(s, Lower(n)), At(s, Upper(n))}
<1> DEFINE t == MedianCentroid(s)
<1>1. i \in 1..n
  BY DEF IsClosest
<1>2. /\ Distance(s, Lower(n), t) = Distance(s, Upper(n), t)
      /\ Distance(s, Lower(n), t) \in Nat /\ Distance(s, i, t) \in Nat
      /\ Distance(s, Lower(n), t) <= Distance(s, i, t)
      /\ Distance(s, i, t) = Distance(s, Lower(n), t)
               => At(s, i) \in {At(s, Lower(n)), At(s, Upper(n))}
  BY <1>1, MiddleNearest
<1> HIDE DEF t
<1>3. PICK j \in places : Distance(s, j, t) = Distance(s, Lower(n), t)
  BY <1>2
<1>4. Distance(s, i, t) < Distance(s, j, t) \/ Distance(s, i, t) = Distance(s, j, t)
  BY DEF IsClosest, t
<1>5. Distance(s, i, t) <= Distance(s, Lower(n), t)
  BY <1>2, <1>3, <1>4
<1> QED
  BY <1>2, <1>5

(* CalculateMedian after its sort.                                          *)
MedianOfSorted(s) ==
    IF Len(s) % 2 = 1 THEN OddMedian(s, MedianCentroid(s)) ELSE EvenMedian(s, MedianCentroid(s))

(* CalculateMedian sorts first.                                             *)
LEMMA MedianIs ==
  ASSUME NEW ops
  PROVE  CalculateMedian(ops) = MedianOfSorted(SortByCentroid(ops))
  BY Zenon DEF CalculateMedian, MedianOfSorted

(* Halfway to itself.                                                       *)
LEMMA SelfHalfway ==
  ASSUME NEW d \in Int, NEW a \in Fuzzy(d)
  PROVE  Halfway(a, a) = a
<1>1. ASSUME NEW x \in Int PROVE (x + x) \div 2 = x
  OBVIOUS
<1>2. a.lower \in Int /\ a.peak \in Int /\ a.upper \in Int
      /\ a = [lower |-> a.lower, peak |-> a.peak, upper |-> a.upper]
  BY FuzzyParts
<1>3. Halfway(a, a) = [lower |-> a.lower, peak |-> a.peak, upper |-> a.upper]
  BY <1>1, <1>2 DEF Halfway
<1> QED
  BY <1>2, <1>3

(* What the first search finds has one of the middle centroids.             *)
LEMMA FirstSearch ==
  ASSUME NEW s, NEW n, SortedList(s, n)
  PROVE  \E i \in 1..n : /\ IsClosest(s, 1..n, MedianCentroid(s), i)
                         /\ FindClosestOpinion(s, DOMAIN s, MedianCentroid(s)) = s[i]
                         /\ At(s, i) \in {At(s, Lower(n)), At(s, Upper(n))}
<1>1. OpinionList(s, n) /\ DOMAIN s = 1..n
  BY WholeListIs DEF SortedList, WholeList
<1>2. Lower(n) \in 1..n /\ MedianCentroid(s) \in Int
  BY Target
<1>3. PICK i \in 1..n : /\ IsClosest(s, 1..n, MedianCentroid(s), i)
                        /\ FindClosestOpinion(s, 1..n, MedianCentroid(s)) = s[i]
  <2>1. 1..n \in SUBSET (1..n) /\ 1..n # {}
    BY <1>2
  <2> QED
    BY <1>1, <1>2, <2>1, ClosestIs, Zenon
<1>4. At(s, i) \in {At(s, Lower(n)), At(s, Upper(n))}
  BY <1>2, <1>3, ClosestMiddle
<1> QED
  BY <1>1, <1>3, <1>4

(* The two places whose opinions make the median, the same one twice if n   *)
(* is odd.                                                                  *)
MadeOf(s, n, i, j) ==
    /\ i \in 1..n /\ j \in 1..n
    /\ At(s, i) \in {At(s, Lower(n)), At(s, Upper(n))}
    /\ MedianOfSorted(s) = Halfway(s[i].opinion, s[j].opinion)
    /\ n % 2 = 1 => i = j
    /\ n % 2 # 1 => /\ IsClosest(s, 1..n, MedianCentroid(s), i)
                    /\ IsClosest(s, RemainingOpinions(s, s[i]), MedianCentroid(s), j)

(* The median is made of two opinions, unless the second search fails.      *)
LEMMA MedianFound ==
  ASSUME NEW s, NEW n, SortedList(s, n), ~MedianFails(s)
  PROVE  \E i, j \in 1..n : MadeOf(s, n, i, j)
<1>1. /\ n \in Nat \ {0} /\ OpinionList(s, n) /\ DOMAIN s = 1..n /\ Len(s) = n
      /\ Unit \in Int /\ \A k \in 1..n : s[k].opinion \in Fuzzy(Unit)
  BY WholeListIs, UnitAssumption DEF SortedList, WholeList
<1>2. MedianCentroid(s) \in Int
  BY Target
<1>3. PICK i \in 1..n : /\ IsClosest(s, 1..n, MedianCentroid(s), i)
                        /\ FindClosestOpinion(s, DOMAIN s, MedianCentroid(s)) = s[i]
                        /\ At(s, i) \in {At(s, Lower(n)), At(s, Upper(n))}
  BY FirstSearch
<1>4. CASE n % 2 = 1
  <2>1. MedianOfSorted(s) = s[i].opinion
    BY <1>1, <1>3, <1>4 DEF MedianOfSorted, OddMedian
  <2>2. MedianOfSorted(s) = Halfway(s[i].opinion, s[i].opinion)
    BY <1>1, <2>1, SelfHalfway
  <2> QED
    BY <1>3, <1>4, <2>2 DEF MadeOf
<1>5. CASE n % 2 # 1
  <2> DEFINE R == RemainingOpinions(s, s[i])
  <2>1. n % 2 = 0
    BY <1>1, <1>5, MiddleEven
  <2>2. R # {}
    BY <1>1, <1>3, <2>1 DEF MedianFails
  <2>3. R \in SUBSET (1..n)
    BY <1>1 DEF RemainingOpinions
  <2> HIDE DEF R
  <2>4. PICK j \in R : /\ IsClosest(s, R, MedianCentroid(s), j)
                       /\ FindClosestOpinion(s, R, MedianCentroid(s)) = s[j]
    BY <1>1, <1>2, <2>2, <2>3, ClosestIs
  <2>5. j \in 1..n
    BY <2>3
  <2>6. EvenMedian(s, MedianCentroid(s)) = Average(<<s[i].opinion, s[j].opinion>>)
    BY <1>3, <2>4 DEF EvenMedian, R
  <2>7. MedianOfSorted(s) = Average(<<s[i].opinion, s[j].opinion>>)
    BY <1>1, <1>5, <2>6 DEF MedianOfSorted
  <2>8. Average(<<s[i].opinion, s[j].opinion>>) = Halfway(s[i].opinion, s[j].opinion)
    BY <1>1, <2>5, AveragePair
  <2> QED
    BY <1>3, <1>5, <2>4, <2>5, <2>7, <2>8 DEF MadeOf, R
<1> QED
  BY <1>4, <1>5

(* Twice the centroid of the mean of two opinions is the sum of theirs.     *)
LEMMA HalfwayCentroid ==
  ASSUME NEW a \in Fuzzy(12), NEW b \in Fuzzy(12)
  PROVE  /\ Halfway(a, b) \in Fuzzy(6)
         /\ Centroid(Halfway(a, b)) \in Int /\ Centroid(a) \in Int /\ Centroid(b) \in Int
         /\ 2 * Centroid(Halfway(a, b)) = Centroid(a) + Centroid(b)
<1> DEFINE h == Halfway(a, b)
<1>1. /\ h \in Fuzzy(6)
      /\ 2 * h.lower = a.lower + b.lower
      /\ 2 * h.peak = a.peak + b.peak
      /\ 2 * h.upper = a.upper + b.upper
  <2>1. PICK e \in Int : e = 6
    OBVIOUS
  <2>2. a \in Fuzzy(2 * e) /\ b \in Fuzzy(2 * e)
    BY <2>1
  <2> HIDE DEF h
  <2> QED
    BY <2>1, <2>2, HalfwayFuzzy DEF h
<1> HIDE DEF h
<1>2. Centroid(h) \in Int /\ 3 * Centroid(h) = h.lower + h.peak + h.upper
  <2>1. PICK e \in Int : e = 2
    OBVIOUS
  <2>2. h \in Fuzzy(3 * e)
    BY <1>1, <2>1
  <2> QED
    BY <2>2, CentroidExact
<1>3. ASSUME NEW c \in Fuzzy(12)
      PROVE  /\ Centroid(c) \in Int /\ 3 * Centroid(c) = c.lower + c.peak + c.upper
             /\ c.lower \in Int /\ c.peak \in Int /\ c.upper \in Int
  <2>1. PICK e \in Int : e = 4
    OBVIOUS
  <2>2. c \in Fuzzy(3 * e)
    BY <2>1
  <2> QED
    BY <2>2, CentroidExact, FuzzyParts
<1>4. h.lower \in Int /\ h.peak \in Int /\ h.upper \in Int
  BY <1>1, FuzzyParts
<1>5. 2 * (h.lower + h.peak + h.upper)
          = (a.lower + a.peak + a.upper) + (b.lower + b.peak + b.upper)
  BY <1>1, <1>3, <1>4
<1>6. 2 * (3 * Centroid(h)) = 3 * Centroid(a) + 3 * Centroid(b)
  BY <1>2, <1>3, <1>5
<1>7. 2 * Centroid(h) = Centroid(a) + Centroid(b)
  BY <1>2, <1>3, <1>6
<1> QED
  BY <1>1, <1>2, <1>3, <1>7 DEF h

(* It is a fuzzy number, its components multiples of 6.                     *)
LEMMA MedianFuzzy ==
  ASSUME NEW s, NEW n, SortedList(s, n), ~MedianFails(s)
  PROVE  MedianOfSorted(s) \in Fuzzy(6)
<1>1. PICK i, j \in 1..n : MadeOf(s, n, i, j)
  BY MedianFound
<1>2. s[i].opinion \in Fuzzy(12) /\ s[j].opinion \in Fuzzy(12)
  BY WholeNumbers DEF SortedList, WholeList
<1> QED
  BY <1>1, <1>2, HalfwayCentroid DEF MadeOf

(* No two opinions of the list are equal.                                   *)
Distinct(s, n) == \A i, j \in 1..n : s[i] = s[j] => i = j

(* The second search still sees one of the middle opinions.                 *)
LEMMA MiddleRemains ==
  ASSUME NEW s, NEW n, SortedList(s, n), Distinct(s, n), n % 2 # 1, NEW i \in 1..n
  PROVE  /\ RemainingOpinions(s, s[i]) \in SUBSET (1..n)
         /\ \/ Lower(n) \in RemainingOpinions(s, s[i])
            \/ Upper(n) \in RemainingOpinions(s, s[i])
<1>1. n \in Nat \ {0} /\ DOMAIN s = 1..n
  BY WholeListIs DEF SortedList, WholeList
<1>2. Lower(n) \in 1..n /\ Upper(n) \in 1..n /\ Upper(n) # Lower(n)
  BY <1>1, MiddleEven
<1> QED
  BY <1>1, <1>2 DEF RemainingOpinions, Distinct

(* So it finds somebody if the opinions are distinct.                       *)
LEMMA DistinctFound ==
  ASSUME NEW s, NEW n, SortedList(s, n), Distinct(s, n)
  PROVE  ~MedianFails(s)
<1>1. SUFFICES ASSUME MedianFails(s) PROVE FALSE
  OBVIOUS
<1>2. n \in Nat \ {0} /\ Len(s) = n
  BY WholeListIs DEF SortedList, WholeList
<1>3. n % 2 # 1
  BY <1>1, <1>2 DEF MedianFails
<1>4. PICK i \in 1..n : FindClosestOpinion(s, DOMAIN s, MedianCentroid(s)) = s[i]
  BY FirstSearch
<1>5. RemainingOpinions(s, s[i]) = {}
  BY <1>1, <1>4 DEF MedianFails
<1> QED
  BY <1>3, <1>5, MiddleRemains

(* The centroid of the median lies between the middle ones.                 *)
LEMMA MedianBetween ==
  ASSUME NEW s, NEW n, SortedList(s, n), Distinct(s, n)
  PROVE  /\ At(s, Lower(n)) <= Centroid(MedianOfSorted(s))
         /\ Centroid(MedianOfSorted(s)) <= At(s, Upper(n))
<1>1. PICK i, j \in 1..n : MadeOf(s, n, i, j)
  BY DistinctFound, MedianFound
<1>2. At(s, i) \in {At(s, Lower(n)), At(s, Upper(n))}
  BY <1>1 DEF MadeOf
<1>3. At(s, j) \in {At(s, Lower(n)), At(s, Upper(n))}
  <2>1. CASE n % 2 = 1
    BY <1>1, <1>2, <2>1 DEF MadeOf
  <2>2. CASE n % 2 # 1
    <3>1. IsClosest(s, RemainingOpinions(s, s[i]), MedianCentroid(s), j)
      BY <1>1, <2>2 DEF MadeOf
    <3> QED
      BY <2>2, <3>1, MiddleRemains, ClosestMiddle
  <2> QED
    BY <2>1, <2>2
<1>4. s[i].opinion \in Fuzzy(12) /\ s[j].opinion \in Fuzzy(12)
  BY WholeNumbers DEF SortedList, WholeList
<1>5. /\ Centroid(MedianOfSorted(s)) \in Int /\ At(s, i) \in Int /\ At(s, j) \in Int
      /\ 2 * Centroid(MedianOfSorted(s)) = At(s, i) + At(s, j)
  BY <1>1, <1>4, HalfwayCentroid DEF MadeOf, At
<1>6. Lower(n) \in 1..n /\ Upper(n) \in 1..n /\ Lower(n) <= Upper(n)
  BY Target
<1>7. At(s, Lower(n)) <= At(s, Upper(n)) /\ At(s, Lower(n)) \in Int /\ At(s, Upper(n)) \in Int
  BY <1>6, WholeListIs DEF SortedList
<1> QED
  BY <1>2, <1>3, <1>5, <1>7

(* No two opinions of the list have the same centroid.                      *)
Untied(s, n) == \A i, j \in 1..n : At(s, i) = At(s, j) => i = j

(* Without ties the two searches find the two in the middle.                *)
LEMMA MedianMiddle ==
  ASSUME NEW s, NEW n, SortedList(s, n), Untied(s, n)
  PROVE  MedianOfSorted(s) = Average(<<s[Lower(n)].opinion, s[Upper(n)].opinion>>)
<1>0. Distinct(s, n)
  BY DEF Distinct, Untied, At
<1>1. PICK i, j \in 1..n : MadeOf(s, n, i, j)
  BY <1>0, DistinctFound, MedianFound
<1>2. Lower(n) \in 1..n /\ Upper(n) \in 1..n /\ n \in Nat \ {0} /\ DOMAIN s = 1..n
  BY Target, WholeListIs DEF SortedList, WholeList
<1>3. i \in {Lower(n), Upper(n)}
  BY <1>1, <1>2 DEF MadeOf, Untied
<1>4. i = Lower(n) /\ j = Upper(n)
  <2>1. CASE n % 2 = 1
    BY <1>1, <1>2, <1>3, <2>1, MiddleOdd DEF MadeOf
  <2>2. CASE n % 2 # 1
    <3>1. Upper(n) = Lower(n) + 1
      BY <1>2, <2>2, MiddleEven
    <3>2. /\ IsClosest(s, 1..n, MedianCentroid(s), i)
          /\ IsClosest(s, RemainingOpinions(s, s[i]), MedianCentroid(s), j)
      BY <1>1, <2>2 DEF MadeOf
    <3>3. Distance(s, Lower(n), MedianCentroid(s)) = Distance(s, Upper(n), MedianCentroid(s))
          /\ Distance(s, Lower(n), MedianCentroid(s)) \in Nat
      BY <1>2, MiddleNearest
    <3>4. i = Lower(n)
      <4>1. CASE i = Upper(n)
        <5>1. Upper(n) <= Lower(n)
          BY <1>2, <3>2, <3>3, <4>1 DEF IsClosest
        <5> QED
          BY <1>2, <3>1, <5>1
      <4> QED
        BY <1>3, <4>1
    <3>5. At(s, j) \in {At(s, Lower(n)), At(s, Upper(n))}
      BY <1>0, <2>2, <3>2, MiddleRemains, ClosestMiddle
    <3>6. j \in {Lower(n), Upper(n)}
      BY <1>2, <3>5 DEF Untied
    <3>7. j # i
      BY <3>2 DEF IsClosest, RemainingOpinions
    <3> QED
      BY <3>4, <3>6, <3>7
  <2> QED
    BY <2>1, <2>2
<1>5. MedianOfSorted(s) = Halfway(s[Lower(n)].opinion, s[Upper(n)].opinion)
  BY <1>1, <1>4 DEF MadeOf
<1>6. s[Lower(n)].opinion \in Fuzzy(12) /\ s[Upper(n)].opinion \in Fuzzy(12)
  BY <1>2, WholeNumbers DEF SortedList, WholeList
<1> QED
  BY <1>5, <1>6, AveragePair

-------------------------------------------------------------------------------
(* The order of the list.                                                   *)

(* The terms in another order.                                              *)
Rearranged(f, D, p) == [i \in D |-> f[p[i]]]

(* A sum does not depend on the order.                                      *)
LEMMA SumPermuted ==
  ASSUME NEW D, IsFiniteSet(D), NEW f \in [D -> Int], NEW p \in Bijection(D, D)
  PROVE  /\ Rearranged(f, D, p) \in [D -> Int]
         /\ SumFunction(Rearranged(f, D, p)) = SumFunction(f)
<1> DEFINE h == Rearranged(f, D, p)
<1>1. PICK F : SumsTo(f, D, F) /\ SumFunction(f) = F[D]
  BY Summed
<1>h. h \in [D -> Int] /\ \A i \in D : h[i] = f[p[i]]
  BY DEF Rearranged, Bijection, Injection
<1> HIDE DEF h
<1>2. PICK H : SumsTo(h, D, H) /\ SumFunction(h) = H[D]
  BY <1>h, Summed
<1>p. /\ p \in [D -> D] /\ \A i, j \in D : p[i] = p[j] => i = j
      /\ \A j \in D : \E i \in D : p[i] = j
  BY DEF Bijection, Injection, Surjection, IsInjective
<1> DEFINE Image(s) == {p[i] : i \in s}
           A == {s \in SUBSET D : H[s] = F[Image(s)]}
<1>3. {} \in A
  <2>1. Image({}) = {}
    OBVIOUS
  <2> QED
    BY <1>1, <1>2, <2>1 DEF SumsTo
<1>4. ASSUME NEW s \in SUBSET D, s # {}, \A x \in s : s \ {x} \in A PROVE s \in A
  <2>1. PICK x \in s : TRUE
    BY <1>4
  <2>2. H[s] = h[x] + H[s \ {x}] /\ h[x] = f[p[x]]
    BY <1>2, <1>h DEF SumsTo
  <2>3. H[s \ {x}] = F[Image(s \ {x})]
    BY <1>4
  <2>4. Image(s \ {x}) = Image(s) \ {p[x]} /\ p[x] \in Image(s) /\ Image(s) \in SUBSET D
    BY <1>p
  <2> HIDE DEF Image
  <2>5. F[Image(s)] = f[p[x]] + F[Image(s) \ {p[x]}]
    BY <1>1, <2>4 DEF SumsTo
  <2> QED
    BY <2>2, <2>3, <2>4, <2>5
<1>5. Image(D) = D
  BY <1>p
<1> HIDE DEF A
<1>6. D \in A
  BY <1>3, <1>4, Subsets
<1> QED
  BY <1>1, <1>2, <1>5, <1>6, <1>h DEF A, h

(* The same list in another order.                                          *)
Permuted(ops, p) == [i \in DOMAIN ops |-> ops[p[i]]]

(* The list in another order is of the same kind.                           *)
LEMMA PermutedWhole ==
  ASSUME NEW ops, NEW n, WholeList(ops, n), NEW p \in Bijection(1..n, 1..n)
  PROVE  /\ WholeList(Permuted(ops, p), n)
         /\ \A i \in 1..n : Permuted(ops, p)[i] = ops[p[i]] /\ p[i] \in 1..n
<1> DEFINE o == Permuted(ops, p)
           S == {ops[i] : i \in 1..n}
<1>1. p \in [1..n -> 1..n] /\ n \in Nat /\ DOMAIN ops = 1..n
  BY WholeListIs DEF Bijection, Injection, WholeList
<1>2. o = [i \in 1..n |-> ops[p[i]]]
  BY <1>1 DEF Permuted
<1> HIDE DEF o
<1>3. o \in [1..n -> S]
  BY <1>1, <1>2
<1>4. Len(o) = n
  BY <1>1, <1>3, Lists
<1> QED
  BY <1>1, <1>2, <1>4 DEF WholeList, o

(* The mean does not depend on the order.                                   *)
LEMMA MeanPermuted ==
  ASSUME NEW ops, NEW n, WholeList(ops, n), NEW p \in Bijection(1..n, 1..n)
  PROVE  CalculateArithmeticMean(Permuted(ops, p)) = CalculateArithmeticMean(ops)
<1> DEFINE o == Permuted(ops, p)
           a == [i \in 1..n |-> ops[i].opinion]
           b == [i \in 1..n |-> o[i].opinion]
<1>1. n \in Nat /\ DOMAIN ops = 1..n /\ DOMAIN o = 1..n /\ Unit \in Int
  BY WholeListIs, PermutedWhole, UnitAssumption DEF WholeList
<1>2. CalculateArithmeticMean(ops) = Average(a) /\ CalculateArithmeticMean(o) = Average(b)
  BY <1>1 DEF CalculateArithmeticMean
<1>3. /\ p \in [1..n -> 1..n] /\ a \in [1..n -> Fuzzy(Unit)] /\ b \in [1..n -> Fuzzy(Unit)]
      /\ \A i \in 1..n : b[i] = a[p[i]]
  <2>1. /\ WholeList(o, n)
        /\ \A i \in 1..n : o[i] = ops[p[i]] /\ p[i] \in 1..n
    BY PermutedWhole
  <2>2. p \in [1..n -> 1..n]
    BY DEF Bijection, Injection
  <2>3. \A i \in 1..n : ops[i].opinion \in Fuzzy(Unit) /\ o[i].opinion \in Fuzzy(Unit)
    BY <2>1 DEF WholeList
  <2> HIDE DEF o
  <2>4. /\ a \in [1..n -> Fuzzy(Unit)] /\ b \in [1..n -> Fuzzy(Unit)]
        /\ \A i \in 1..n : b[i] = a[p[i]]
    BY <2>1, <2>3
  <2> QED
    BY <2>2, <2>4
<1> HIDE DEF a, b
<1>4. IsFiniteSet(1..n)
  BY <1>1, FS_Interval
<1>5. ASSUME NEW f \in [1..n -> Int]
      PROVE  Mean(Rearranged(f, 1..n, p)) = Mean(f)
  <2>1. /\ Rearranged(f, 1..n, p) \in [1..n -> Int]
        /\ SumFunction(Rearranged(f, 1..n, p)) = SumFunction(f)
    BY <1>4, SumPermuted
  <2>2. Len(Rearranged(f, 1..n, p)) = n /\ Len(f) = n
    BY <1>1, <2>1, Lists
  <2> QED
    BY <2>1, <2>2 DEF Mean
<1>6. \A i \in 1..n : /\ a[i].lower \in Int /\ a[i].peak \in Int /\ a[i].upper \in Int
                      /\ b[i].lower \in Int /\ b[i].peak \in Int /\ b[i].upper \in Int
  BY <1>1, <1>3, FuzzyParts
<1>7. /\ Mean([i \in 1..n |-> b[i].lower]) = Mean([i \in 1..n |-> a[i].lower])
      /\ Mean([i \in 1..n |-> b[i].peak]) = Mean([i \in 1..n |-> a[i].peak])
      /\ Mean([i \in 1..n |-> b[i].upper]) = Mean([i \in 1..n |-> a[i].upper])
  <2> DEFINE l == [i \in 1..n |-> a[i].lower]
             m == [i \in 1..n |-> a[i].peak]
             u == [i \in 1..n |-> a[i].upper]
  <2>1. l \in [1..n -> Int] /\ m \in [1..n -> Int] /\ u \in [1..n -> Int]
    BY <1>6
  <2>2. /\ [i \in 1..n |-> b[i].lower] = Rearranged(l, 1..n, p)
        /\ [i \in 1..n |-> b[i].peak] = Rearranged(m, 1..n, p)
        /\ [i \in 1..n |-> b[i].upper] = Rearranged(u, 1..n, p)
    BY <1>3 DEF Rearranged
  <2> HIDE DEF l, m, u
  <2>3. /\ Mean(Rearranged(l, 1..n, p)) = Mean(l)
        /\ Mean(Rearranged(m, 1..n, p)) = Mean(m)
        /\ Mean(Rearranged(u, 1..n, p)) = Mean(u)
    BY <1>5, <2>1
  <2> QED
    BY <2>2, <2>3 DEF l, m, u
<1>8. DOMAIN a = 1..n /\ DOMAIN b = 1..n
  BY <1>3
<1>9. Average(b) = Average(a)
  BY <1>7, <1>8 DEF Average
<1> QED
  BY <1>2, <1>9

(* Without ties a rank does not depend on the order.                        *)
LEMMA RankPermuted ==
  ASSUME NEW ops, NEW n, WholeList(ops, n), Untied(ops, n), NEW p \in Bijection(1..n, 1..n),
         NEW i \in 1..n
  PROVE  Rank(Permuted(ops, p), i) = Rank(ops, p[i])
<1> DEFINE o == Permuted(ops, p)
           S == Earlier(o, i)
           T == Earlier(ops, p[i])
           f == [j \in S |-> p[j]]
<1>1. DOMAIN ops = 1..n /\ DOMAIN o = 1..n /\ \A j \in 1..n : At(o, j) = At(ops, p[j])
  BY PermutedWhole DEF WholeList, At
<1>2. /\ p \in [1..n -> 1..n] /\ \A j, k \in 1..n : p[j] = p[k] => j = k
      /\ \A k \in 1..n : \E j \in 1..n : p[j] = k
  <2>1. p \in Injection(1..n, 1..n) /\ p \in Surjection(1..n, 1..n)
    BY DEF Bijection
  <2>2. p \in [1..n -> 1..n] /\ \A j, k \in 1..n : p[j] = p[k] => j = k
    BY <2>1 DEF Injection, IsInjective
  <2>3. \A k \in 1..n : \E j \in 1..n : p[j] = k
    BY <2>1 DEF Surjection
  <2> QED
    BY <2>2, <2>3
<1>3. n \in Nat /\ \A j \in 1..n : At(ops, j) \in Int
  BY WholeListIs
<1> HIDE DEF o
<1>4. ASSUME NEW j \in 1..n PROVE Before(o, j, i) <=> Before(ops, p[j], p[i])
  <2>1. At(ops, p[j]) = At(ops, p[i]) => j = i
    BY <1>2 DEF Untied
  <2>2. At(ops, p[j]) = At(ops, p[i]) <=> j = i
    BY <2>1
  <2>a. p[j] \in 1..n /\ p[i] \in 1..n
    BY <1>2
  <2>3. At(ops, p[j]) \in Int /\ At(ops, p[i]) \in Int /\ j \in Int /\ p[j] \in Int /\ p[i] \in Int
    BY <1>3, <2>a
  <2>4. Before(o, j, i) <=> At(ops, p[j]) < At(ops, p[i])
    BY <1>1, <2>2, <2>3 DEF Before
  <2>5. Before(ops, p[j], p[i]) <=> At(ops, p[j]) < At(ops, p[i])
    BY <2>2, <2>3 DEF Before
  <2> QED
    BY <2>4, <2>5
<1>5. S \subseteq 1..n /\ \A j \in 1..n : j \in S <=> p[j] \in T
  BY <1>1, <1>2, <1>4 DEF Earlier
<1>6. T \subseteq 1..n
  BY <1>1 DEF Earlier
<1>7. IsFiniteSet(S)
  BY <1>3, <1>5, FS_Interval, FS_Subset
<1> HIDE DEF S, T
<1>8. f \in [S -> T] /\ (\A j, k \in S : f[j] = f[k] => j = k) /\ \A k \in T : \E j \in S : f[j] = k
  BY <1>2, <1>5, <1>6
<1> HIDE DEF f
<1>9. f \in Bijection(S, T)
  BY <1>8 DEF Bijection, Injection, Surjection, IsInjective
<1>10. Cardinality(T) = Cardinality(S)
  BY <1>7, <1>9, FS_Bijection DEF ExistsBijection
<1> QED
  BY <1>10, RankIs DEF S, T, o

(* Nor does the sorted list.                                                *)
LEMMA SortPermuted ==
  ASSUME NEW ops, NEW n, WholeList(ops, n), Untied(ops, n), NEW p \in Bijection(1..n, 1..n)
  PROVE  SortByCentroid(Permuted(ops, p)) = SortByCentroid(ops)
<1> DEFINE o == Permuted(ops, p)
           s == SortByCentroid(ops)
           r == SortByCentroid(o)
<1>1. /\ OpinionList(ops, n) /\ OpinionList(o, n)
      /\ \A i \in 1..n : o[i] = ops[p[i]] /\ p[i] \in 1..n
  BY WholeListIs, PermutedWhole
<1>2. \A i \in 1..n : Rank(o, i) = Rank(ops, p[i])
  BY RankPermuted
<1> HIDE DEF o
<1>3. ASSUME NEW k \in 1..n PROVE r[k] = s[k]
  <2> DEFINE i == PlaceOf(o, k)
             j == PlaceOf(ops, k)
  <2>1. i \in 1..n /\ Rank(o, i) = k /\ j \in 1..n /\ Rank(ops, j) = k
    BY <1>1, PlaceOfRank
  <2>2. r[k] = o[i] /\ s[k] = ops[j]
    BY <1>1, SortedIs
  <2> HIDE DEF i, j
  <2>3. p[i] = j
    BY <1>1, <1>2, <2>1, RankInjective
  <2> QED
    BY <1>1, <2>1, <2>2, <2>3
<1>4. r = [k \in 1..n |-> r[k]] /\ s = [k \in 1..n |-> s[k]]
  BY <1>1 DEF SortByCentroid, OpinionList
<1> HIDE DEF r, s
<1>5. r = s
  BY <1>3, <1>4
<1> QED
  BY <1>5 DEF r, s, o

(* Nor does the result.                                                     *)
LEMMA CompromisePermuted ==
  ASSUME NEW ops, NEW n, WholeList(ops, n), Untied(ops, n), NEW p \in Bijection(1..n, 1..n)
  PROVE  CalculateCompromise(Permuted(ops, p)) = CalculateCompromise(ops)
<1>1. Len(Permuted(ops, p)) = Len(ops)
  BY PermutedWhole DEF WholeList
<1>2. CalculateMedian(Permuted(ops, p)) = CalculateMedian(ops)
  BY SortPermuted, MedianIs
<1> QED
  BY <1>1, <1>2, MeanPermuted DEF CalculateCompromise

(* The mean and the median of whole numbers.                                *)
LEMMA CompromiseParts ==
  ASSUME NEW ops, NEW n, WholeList(ops, n), ~MedianFails(SortByCentroid(ops))
  PROVE  /\ CalculateArithmeticMean(ops) \in Fuzzy(6)
         /\ CalculateMedian(ops) \in Fuzzy(6)
<1>1. n \in 1..MaxExperts /\ DOMAIN ops = 1..n /\ \A i \in 1..n : ops[i].opinion \in Fuzzy(Unit)
  BY DEF WholeList
<1> DEFINE ns == [i \in DOMAIN ops |-> ops[i].opinion]
<1>2. ns \in [1..n -> Fuzzy(Unit)]
  BY <1>1
<1>3. CalculateArithmeticMean(ops) = Average(ns)
  BY DEF CalculateArithmeticMean
<1> HIDE DEF ns
<1>4. Average(ns) \in Fuzzy(6)
  BY <1>1, <1>2, AverageFuzzy, WholeNumbers
<1>5. CalculateMedian(ops) \in Fuzzy(6)
  BY Sorted, MedianFuzzy, MedianIs
<1> QED
  BY <1>3, <1>4, <1>5

(* Distinct opinions stay distinct in the sorted list.                      *)
LEMMA SortedDistinct ==
  ASSUME NEW ops, NEW n, WholeList(ops, n), Distinct(ops, n)
  PROVE  Distinct(SortByCentroid(ops), n)
<1> DEFINE s == SortByCentroid(ops)
<1>1. OpinionList(ops, n)
  BY WholeListIs
<1>2. \A k \in 1..n : /\ s[k] = ops[PlaceOf(ops, k)] /\ PlaceOf(ops, k) \in 1..n
                      /\ Rank(ops, PlaceOf(ops, k)) = k
  BY <1>1, SortedIs, PlaceOfRank
<1> HIDE DEF s
<1>3. ASSUME NEW k \in 1..n, NEW m \in 1..n, s[k] = s[m] PROVE k = m
  <2>1. PlaceOf(ops, k) = PlaceOf(ops, m)
    BY <1>2, <1>3 DEF Distinct
  <2> QED
    BY <1>2, <2>1
<1> QED
  BY <1>3 DEF Distinct, s

-------------------------------------------------------------------------------
(* The scale.                                                               *)

(* A sum of equal terms.                                                    *)
LEMMA SumConstant ==
  ASSUME NEW n \in Nat, NEW c \in Int, NEW f \in [1..n -> Int], \A i \in 1..n : f[i] = c
  PROVE  SumFunction(f) = n * c
<1> DEFINE D == 1..n
<1>1. IsFiniteSet(D) /\ Cardinality(D) = n
  BY FS_Interval
<1>2. f \in [D -> Int]
  OBVIOUS
<1>0. \A s \in SUBSET D : IsFiniteSet(s) /\ Cardinality(s) \in Nat
  BY <1>1, FS_Subset, FS_CardinalityType
<1> HIDE DEF D
<1>3. PICK F : SumsTo(f, D, F) /\ SumFunction(f) = F[D]
  BY <1>1, <1>2, Summed
<1> DEFINE A == {s \in SUBSET D : F[s] = Cardinality(s) * c}
<1>4. {} \in A
  <2>1. F[{}] = 0 /\ Cardinality({}) = 0 /\ 0 * c = 0
    BY <1>3, FS_EmptySet DEF SumsTo
  <2> QED
    BY <2>1
<1>5. ASSUME NEW s \in SUBSET D, s # {}, \A x \in s : s \ {x} \in A PROVE s \in A
  <2>1. PICK x \in s : TRUE
    BY <1>5
  <2>2. F[s \ {x}] = Cardinality(s \ {x}) * c /\ f[x] = c
    BY <1>5 DEF D
  <2>3. F[s] = f[x] + F[s \ {x}]
    BY <1>3 DEF SumsTo
  <2>4. Cardinality(s \ {x}) = Cardinality(s) - 1 /\ Cardinality(s) \in Nat
    BY <1>0, FS_RemoveElement
  <2>5. c + (Cardinality(s) - 1) * c = Cardinality(s) * c
    <3> DEFINE k == Cardinality(s)
    <3>1. k \in Nat
      BY <2>4
    <3> HIDE DEF k
    <3>2. c + (k - 1) * c = k * c
      BY <3>1
    <3> QED
      BY <3>2 DEF k
  <2>6. F[s] = c + (Cardinality(s) - 1) * c
    BY <2>2, <2>3, <2>4
  <2> QED
    BY <2>5, <2>6
<1> HIDE DEF A
<1>6. D \in A
  BY <1>1, <1>4, <1>5, Subsets
<1> QED
  BY <1>1, <1>3, <1>6 DEF A

(* Term by term.                                                            *)
AddsUp(f, h, g, D) == \A i \in D : g[i] = f[i] + h[i]

(* As a whole.                                                              *)
Total(f, h, g) == SumFunction(g) = SumFunction(f) + SumFunction(h)

(* A sum of sums.                                                           *)
LEMMA SumPlus ==
  ASSUME NEW D, IsFiniteSet(D), NEW f \in [D -> Int], NEW h \in [D -> Int], NEW g \in [D -> Int],
         AddsUp(f, h, g, D)
  PROVE  Total(f, h, g)
<1>1. PICK F : SumsTo(f, D, F) /\ SumFunction(f) = F[D]
  BY Summed
<1>2. PICK H : SumsTo(h, D, H) /\ SumFunction(h) = H[D]
  BY Summed
<1>3. PICK G : SumsTo(g, D, G) /\ SumFunction(g) = G[D]
  BY Summed
<1> DEFINE A == {s \in SUBSET D : G[s] = F[s] + H[s]}
<1>4. {} \in A
  BY <1>1, <1>2, <1>3 DEF SumsTo
<1>5. ASSUME NEW s \in SUBSET D, s # {}, \A x \in s : s \ {x} \in A PROVE s \in A
  <2>1. PICK x \in s : TRUE
    BY <1>5
  <2>2. G[s \ {x}] = F[s \ {x}] + H[s \ {x}] /\ g[x] = f[x] + h[x]
    BY <1>5 DEF AddsUp
  <2>3. F[s] = f[x] + F[s \ {x}] /\ H[s] = h[x] + H[s \ {x}] /\ G[s] = g[x] + G[s \ {x}]
    BY <1>1, <1>2, <1>3 DEF SumsTo
  <2>4. /\ f[x] \in Int /\ h[x] \in Int /\ F[s \ {x}] \in Int /\ H[s \ {x}] \in Int
    BY <1>1, <1>2 DEF SumsTo
  <2>5. G[s] = (f[x] + h[x]) + (F[s \ {x}] + H[s \ {x}])
    BY <2>2, <2>3
  <2>6. G[s] = F[s] + H[s]
    BY <2>3, <2>4, <2>5
  <2> QED
    BY <2>6
<1> HIDE DEF A
<1>6. D \in A
  BY <1>4, <1>5, Subsets
<1> QED
  BY <1>1, <1>2, <1>3, <1>6 DEF A, Total

(* Dividing by what both were multiplied by.                                *)
LEMMA TimesCancelled ==
  ASSUME NEW n \in Nat \ {0}, NEW a \in Int, NEW b \in Int, n * a <= n * b
  PROVE  a <= b
<1>1. n * a < n * b + n
  BY SMT
<1> QED
  BY <1>1, Cancelled

(* A sum of n terms between two numbers.                                    *)
LEMMA SumBetween ==
  ASSUME NEW n \in Nat, NEW lo \in Int, NEW hi \in Int, NEW f \in [1..n -> Int],
         \A i \in 1..n : lo <= f[i] /\ f[i] <= hi
  PROVE  n * lo <= SumFunction(f) /\ SumFunction(f) <= n * hi
<1> DEFINE l == [i \in 1..n |-> lo]
           h == [i \in 1..n |-> hi]
<1>1. IsFiniteSet(1..n)
  BY FS_Interval
<1>2. l \in [1..n -> Int] /\ h \in [1..n -> Int]
  OBVIOUS
<1>3. SumFunction(l) = n * lo
  BY <1>2, SumConstant
<1>4. SumFunction(h) = n * hi
  BY <1>2, SumConstant
<1>5. (\A i \in 1..n : l[i] <= f[i]) /\ (\A i \in 1..n : f[i] <= h[i])
  OBVIOUS
<1> HIDE DEF l, h
<1> QED
  BY <1>1, <1>2, <1>3, <1>4, <1>5, SumMonotone

(* A mean lies between the same two.                                        *)
LEMMA MeanBetween ==
  ASSUME NEW n \in 1..MaxExperts, NEW f \in [1..n -> Multiples(Unit)], NEW lo \in Int, NEW hi \in Int,
         \A i \in 1..n : lo <= f[i] /\ f[i] <= hi
  PROVE  Mean(f) \in Int /\ lo <= Mean(f) /\ Mean(f) <= hi
<1>1. n \in Nat \ {0} /\ f \in [1..n -> Int]
  BY UnitAssumption, MultipleInt
<1>2. SumFunction(f) = n * Mean(f) /\ Mean(f) \in Int
  BY MeanExact, MultipleInt
<1>3. n * lo <= SumFunction(f) /\ SumFunction(f) <= n * hi
  BY <1>1, SumBetween
<1> QED
  BY <1>1, <1>2, <1>3, TimesCancelled

(* A list of opinions all on the scale from lo to hi.                       *)
OnScale(n, lo, hi) == lo <= n.lower /\ n.upper <= hi

(* The mean of the experts is on their scale.                               *)
LEMMA MeanOnScale ==
  ASSUME NEW ops, NEW n, WholeList(ops, n), NEW lo \in Int, NEW hi \in Int,
         \A i \in 1..n : OnScale(ops[i].opinion, lo, hi)
  PROVE  OnScale(CalculateArithmeticMean(ops), lo, hi)
<1> DEFINE ns == [i \in 1..n |-> ops[i].opinion]
           l == [i \in 1..n |-> ops[i].opinion.lower]
           u == [i \in 1..n |-> ops[i].opinion.upper]
           p == [i \in 1..n |-> ops[i].opinion.peak]
<1>1. n \in 1..MaxExperts /\ DOMAIN ops = 1..n /\ Unit \in Int
  BY UnitAssumption DEF WholeList
<1>2. ASSUME NEW i \in 1..n
      PROVE  /\ ops[i].opinion.lower \in Multiples(Unit) /\ ops[i].opinion.upper \in Multiples(Unit)
             /\ ops[i].opinion.lower \in Int /\ ops[i].opinion.peak \in Int /\ ops[i].opinion.upper \in Int
             /\ ops[i].opinion.lower <= ops[i].opinion.peak /\ ops[i].opinion.peak <= ops[i].opinion.upper
  <2>1. ops[i].opinion \in Fuzzy(Unit)
    BY DEF WholeList
  <2> QED
    BY <1>1, <2>1, FuzzyParts
<1>3. /\ l \in [1..n -> Multiples(Unit)] /\ \A i \in 1..n : lo <= l[i] /\ l[i] <= hi
      /\ u \in [1..n -> Multiples(Unit)] /\ \A i \in 1..n : lo <= u[i] /\ u[i] <= hi
  BY <1>2 DEF OnScale
<1>4. CalculateArithmeticMean(ops) = [lower |-> Mean(l), peak |-> Mean(p), upper |-> Mean(u)]
  <2>1. CalculateArithmeticMean(ops) = Average(ns)
    BY <1>1 DEF CalculateArithmeticMean
  <2>2. DOMAIN ns = 1..n /\ \A i \in 1..n : ns[i] = ops[i].opinion
    OBVIOUS
  <2> HIDE DEF ns
  <2>3. /\ [i \in DOMAIN ns |-> ns[i].lower] = l
        /\ [i \in DOMAIN ns |-> ns[i].peak] = p
        /\ [i \in DOMAIN ns |-> ns[i].upper] = u
    BY <2>2
  <2> HIDE DEF l, p, u
  <2> QED
    BY <2>1, <2>3 DEF Average
<1> HIDE DEF l, p, u
<1>5. lo <= Mean(l) /\ Mean(u) <= hi
  BY <1>1, <1>3, MeanBetween
<1> QED
  BY <1>4, <1>5 DEF OnScale

Centroids(ops, n) == [i \in 1..n |-> At(ops, i)]

(* The centroid of the mean is the mean of the centroids.                   *)
LEMMA MeanCentroid ==
  ASSUME NEW ops, NEW n, WholeList(ops, n)
  PROVE  /\ Centroid(CalculateArithmeticMean(ops)) \in Int
         /\ SumFunction(Centroids(ops, n)) = n * Centroid(CalculateArithmeticMean(ops))
<1> DEFINE ns == [i \in 1..n |-> ops[i].opinion]
           l == [i \in 1..n |-> ops[i].opinion.lower]
           u == [i \in 1..n |-> ops[i].opinion.upper]
           p == [i \in 1..n |-> ops[i].opinion.peak]
           c == Centroids(ops, n)
           m == CalculateArithmeticMean(ops)
<1>1. /\ n \in 1..MaxExperts /\ n \in Nat \ {0} /\ DOMAIN ops = 1..n /\ Unit \in Int
      /\ IsFiniteSet(1..n)
  BY UnitAssumption, FS_Interval, WholeListIs DEF WholeList
<1>2. ASSUME NEW i \in 1..n
      PROVE  /\ ops[i].opinion.lower \in Multiples(Unit) /\ ops[i].opinion.upper \in Multiples(Unit)
             /\ ops[i].opinion.peak \in Multiples(Unit)
             /\ ops[i].opinion.lower \in Int /\ ops[i].opinion.peak \in Int /\ ops[i].opinion.upper \in Int
  <2>1. ops[i].opinion \in Fuzzy(Unit)
    BY DEF WholeList
  <2> QED
    BY <1>1, <2>1, FuzzyParts
<1>3. /\ l \in [1..n -> Multiples(Unit)] /\ p \in [1..n -> Multiples(Unit)] /\ u \in [1..n -> Multiples(Unit)]
      /\ l \in [1..n -> Int] /\ p \in [1..n -> Int] /\ u \in [1..n -> Int]
  BY <1>2
<1>3a. c \in [1..n -> Int] /\ \A i \in 1..n : 3 * c[i] = l[i] + p[i] + u[i]
  <2>1. ASSUME NEW i \in 1..n
        PROVE  At(ops, i) \in Int /\ 3 * At(ops, i) = l[i] + p[i] + u[i]
    <3>1. ops[i].opinion \in Fuzzy(12)
      BY <1>1, WholeNumbers DEF WholeList
    <3>2. PICK e \in Int : e = 4
      OBVIOUS
    <3>3. ops[i].opinion \in Fuzzy(3 * e)
      BY <3>1, <3>2
    <3> QED
      BY <3>2, <3>3, CentroidExact DEF At
  <2> QED
    BY <2>1 DEF Centroids
<1>4. m = [lower |-> Mean(l), peak |-> Mean(p), upper |-> Mean(u)]
  <2>1. CalculateArithmeticMean(ops) = Average(ns)
    BY <1>1 DEF CalculateArithmeticMean
  <2>2. DOMAIN ns = 1..n /\ \A i \in 1..n : ns[i] = ops[i].opinion
    OBVIOUS
  <2> HIDE DEF ns
  <2>3. /\ [i \in DOMAIN ns |-> ns[i].lower] = l
        /\ [i \in DOMAIN ns |-> ns[i].peak] = p
        /\ [i \in DOMAIN ns |-> ns[i].upper] = u
    BY <2>2
  <2> HIDE DEF l, p, u
  <2> QED
    BY <2>1, <2>3 DEF Average
<1>5. Centroid(m) \in Int /\ 3 * Centroid(m) = m.lower + m.peak + m.upper
  <2>1. m \in Fuzzy(12)
    <3>1. CalculateArithmeticMean(ops) = Average(ns)
      BY <1>1 DEF CalculateArithmeticMean
    <3>2. ns \in [1..n -> Fuzzy(Unit)]
      BY DEF WholeList
    <3> HIDE DEF ns
    <3> QED
      BY <1>1, <3>1, <3>2, AverageFuzzy
  <2>2. PICK e \in Int : e = 4
    OBVIOUS
  <2> HIDE DEF m
  <2>3. m \in Fuzzy(3 * e)
    BY <2>1, <2>2
  <2> QED
    BY <2>2, <2>3, CentroidExact
<1>6. /\ Mean(l) \in Int /\ Mean(p) \in Int /\ Mean(u) \in Int
      /\ SumFunction(l) = n * Mean(l) /\ SumFunction(p) = n * Mean(p) /\ SumFunction(u) = n * Mean(u)
  <2> HIDE DEF l, p, u
  <2> QED
    BY <1>1, <1>3, MeanExact, MultipleInt
<1> DEFINE a == [i \in 1..n |-> l[i] + p[i]]
           b == [i \in 1..n |-> c[i] + c[i]]
           t == [i \in 1..n |-> 3 * c[i]]
<1> HIDE DEF l, p, u, c, m
<1>7. /\ a \in [1..n -> Int] /\ b \in [1..n -> Int] /\ t \in [1..n -> Int]
      /\ AddsUp(l, p, a, 1..n) /\ AddsUp(a, u, t, 1..n)
      /\ AddsUp(c, c, b, 1..n) /\ AddsUp(b, c, t, 1..n)
  BY <1>3, <1>3a DEF AddsUp
<1> HIDE DEF a, b, t
<1>8. Total(l, p, a)
  BY <1>1, <1>3, <1>7, SumPlus
<1>9. Total(a, u, t)
  BY <1>1, <1>3, <1>7, SumPlus
<1>10. Total(c, c, b)
  BY <1>1, <1>3a, <1>7, SumPlus
<1>11. Total(b, c, t)
  BY <1>1, <1>3a, <1>7, SumPlus
<1>12. SumFunction(c) \in Int
  BY <1>1, <1>3a, SumInt
<1>13. 3 * SumFunction(c) = n * Mean(l) + n * Mean(p) + n * Mean(u)
  BY <1>1, <1>6, <1>8, <1>9, <1>10, <1>11, <1>12 DEF Total
<1>14. n * Mean(l) + n * Mean(p) + n * Mean(u) = n * (3 * Centroid(m))
  <2>1. 3 * Centroid(m) = Mean(l) + Mean(p) + Mean(u)
    BY <1>4, <1>5
  <2>2. n * (Mean(l) + Mean(p) + Mean(u)) = n * Mean(l) + n * Mean(p) + n * Mean(u)
    BY <1>1, <1>6
  <2> QED
    BY <2>1, <2>2
<1>15. n * (3 * Centroid(m)) = 3 * (n * Centroid(m)) /\ n * Centroid(m) \in Int
  BY <1>1, <1>5
<1>16. SumFunction(c) = n * Centroid(m)
  <2> DEFINE x == SumFunction(c)
             y == n * Centroid(m)
  <2>1. 3 * x = 3 * y /\ x \in Int /\ y \in Int
    BY <1>12, <1>13, <1>14, <1>15
  <2> HIDE DEF x, y
  <2>2. x = y
    BY <2>1
  <2> QED
    BY <2>2 DEF x, y
<1> QED
  BY <1>5, <1>16 DEF c, m

(* The sort as a permutation.                                               *)
SortOf(ops, n) == [k \in 1..n |-> PlaceOf(ops, k)]

(* The sort puts the opinions in another order.                             *)
LEMMA SortPermutes ==
  ASSUME NEW ops, NEW n, WholeList(ops, n)
  PROVE  /\ SortOf(ops, n) \in Bijection(1..n, 1..n)
         /\ SortByCentroid(ops) = Permuted(ops, SortOf(ops, n))
<1> DEFINE p == SortOf(ops, n)
<1>1. OpinionList(ops, n) /\ DOMAIN ops = 1..n
  BY WholeListIs DEF OpinionList
<1>2. \A k \in 1..n : PlaceOf(ops, k) \in 1..n /\ Rank(ops, PlaceOf(ops, k)) = k
  BY <1>1, PlaceOfRank
<1>3. p \in [1..n -> 1..n] /\ \A k \in 1..n : p[k] = PlaceOf(ops, k)
  BY <1>2 DEF SortOf
<1> HIDE DEF p
<1>4. \A k, m \in 1..n : p[k] = p[m] => k = m
  BY <1>2, <1>3
<1>5. ASSUME NEW i \in 1..n PROVE \E k \in 1..n : p[k] = i
  <2>1. Rank(ops, i) \in 1..n
    BY <1>1, RankIn
  <2>2. Rank(ops, PlaceOf(ops, Rank(ops, i))) = Rank(ops, i) /\ PlaceOf(ops, Rank(ops, i)) \in 1..n
    BY <1>2, <2>1
  <2>3. PlaceOf(ops, Rank(ops, i)) = i
    BY <1>1, <2>2, RankInjective
  <2> QED
    BY <1>3, <2>1, <2>3
<1>6. p \in Bijection(1..n, 1..n)
  BY <1>3, <1>4, <1>5 DEF Bijection, Injection, IsInjective, Surjection
<1>7. /\ DOMAIN SortByCentroid(ops) = 1..n
      /\ \A k \in 1..n : SortByCentroid(ops)[k] = ops[PlaceOf(ops, k)]
  BY <1>1, SortedIs
<1>8. SortByCentroid(ops) = [i \in 1..n |-> ops[p[i]]]
  <2>1. SortByCentroid(ops) = [k \in 1..n |-> ops[PlaceOf(ops, k)]]
    BY <1>1 DEF SortByCentroid, PlaceOf
  <2> QED
    BY <1>3, <2>1
<1> QED
  BY <1>1, <1>6, <1>8 DEF Permuted, p

(* So it does not matter to the mean.                                       *)
LEMMA MeanOfSorted ==
  ASSUME NEW ops, NEW n, WholeList(ops, n)
  PROVE  CalculateArithmeticMean(SortByCentroid(ops)) = CalculateArithmeticMean(ops)
  BY SortPermutes, MeanPermuted

(* In a sorted list a place and its mirror image: one of the two is not     *)
(* above the middle, and one not below.                                     *)
Mirror(n) == [k \in 1..n |-> n + 1 - k]

(* The mirror image is an order, too.                                       *)
LEMMA MirrorIs ==
  ASSUME NEW n \in Nat
  PROVE  Mirror(n) \in Bijection(1..n, 1..n) /\ \A k \in 1..n : Mirror(n)[k] = n + 1 - k
<1>1. /\ Mirror(n) \in [1..n -> 1..n]
      /\ \A k \in 1..n : Mirror(n)[k] = n + 1 - k
  BY DEF Mirror
<1>2. \A k, m \in 1..n : Mirror(n)[k] = Mirror(n)[m] => k = m
  BY <1>1
<1>3. ASSUME NEW i \in 1..n PROVE \E k \in 1..n : Mirror(n)[k] = i
  <2>1. n + 1 - i \in 1..n /\ Mirror(n)[n + 1 - i] = i
    BY <1>1
  <2> QED
    BY <2>1
<1> QED
  BY <1>1, <1>2, <1>3 DEF Bijection, Injection, IsInjective, Surjection

(* Of a place and its image one is at most in the middle.                   *)
LEMMA MirrorMiddle ==
  ASSUME NEW n \in Nat \ {0}, NEW k \in 1..n
  PROVE  /\ k <= Lower(n) \/ n + 1 - k <= Lower(n)
         /\ Upper(n) <= k \/ Upper(n) <= n + 1 - k
  BY DEF Lower, Upper

(* Half of the centroids are not above the lower middle one and half not    *)
(* below the upper one, so the mean is at most halfway to the end of the    *)
(* scale.                                                                   *)
LEMMA MeanNearMiddle ==
  ASSUME NEW s, NEW n, SortedList(s, n), NEW lo \in Int, NEW hi \in Int,
         \A i \in 1..n : lo <= At(s, i) /\ At(s, i) <= hi,
         NEW c, c = Centroid(CalculateArithmeticMean(s))
  PROVE  /\ c \in Int /\ lo <= c /\ c <= hi
         /\ 2 * c <= At(s, Lower(n)) + hi
         /\ lo + At(s, Upper(n)) <= 2 * c
<1> DEFINE f == Centroids(s, n)
           h == Rearranged(f, 1..n, Mirror(n))
           t == [k \in 1..n |-> f[k] + h[k]]
           L == At(s, Lower(n))
           U == At(s, Upper(n))
<1>0. WholeList(s, n)
  BY DEF SortedList
<1>1. n \in Nat \ {0} /\ n \in Nat /\ IsFiniteSet(1..n) /\ \A i \in 1..n : At(s, i) \in Int
  BY <1>0, WholeListIs, FS_Interval
<1>2. c \in Int /\ SumFunction(f) = n * c
  BY <1>0, MeanCentroid
<1>3. f \in [1..n -> Int] /\ \A k \in 1..n : f[k] = At(s, k)
  BY <1>1 DEF Centroids
<1>4. Lower(n) \in 1..n /\ Upper(n) \in 1..n /\ L \in Int /\ U \in Int
  BY <1>1, Target
<1>5. Mirror(n) \in Bijection(1..n, 1..n) /\ \A k \in 1..n : Mirror(n)[k] = n + 1 - k
  BY <1>1, MirrorIs
<1> HIDE DEF f
<1>6. /\ h \in [1..n -> Int] /\ SumFunction(h) = SumFunction(f)
      /\ \A k \in 1..n : h[k] = At(s, n + 1 - k)
  <2>1. h \in [1..n -> Int] /\ SumFunction(h) = SumFunction(f)
    BY <1>1, <1>3, <1>5, SumPermuted
  <2>2. \A k \in 1..n : h[k] = f[n + 1 - k] /\ n + 1 - k \in 1..n
    BY <1>1, <1>5 DEF Rearranged
  <2> QED
    BY <1>3, <2>1, <2>2
<1> HIDE DEF h
<1>7. ASSUME NEW k \in 1..n
      PROVE  lo + U <= f[k] + h[k] /\ f[k] + h[k] <= L + hi
  <2>1. n + 1 - k \in 1..n
    BY <1>1
  <2>2. /\ At(s, k) \in Int /\ At(s, n + 1 - k) \in Int
        /\ lo <= At(s, k) /\ At(s, k) <= hi /\ lo <= At(s, n + 1 - k) /\ At(s, n + 1 - k) <= hi
    BY <1>1, <2>1
  <2>3. At(s, k) <= L \/ At(s, n + 1 - k) <= L
    BY <1>1, <1>4, <2>1, MirrorMiddle DEF SortedList
  <2>4. U <= At(s, k) \/ U <= At(s, n + 1 - k)
    BY <1>1, <1>4, <2>1, MirrorMiddle DEF SortedList
  <2>5. f[k] = At(s, k) /\ h[k] = At(s, n + 1 - k)
    BY <1>3, <1>6
  <2> HIDE DEF L, U
  <2> QED
    BY <1>4, <2>2, <2>3, <2>4, <2>5
<1> HIDE DEF L, U
<1>8. /\ t \in [1..n -> Int] /\ AddsUp(f, h, t, 1..n)
      /\ \A k \in 1..n : lo + U <= t[k] /\ t[k] <= L + hi
  BY <1>3, <1>6, <1>7 DEF AddsUp
<1> HIDE DEF t
<1>9. Total(f, h, t)
  BY <1>1, <1>3, <1>6, <1>8, SumPlus
<1>10. SumFunction(t) = n * (2 * c)
  <2>1. n * c + n * c = n * (2 * c)
    BY <1>1, <1>2
  <2>2. SumFunction(t) = n * c + n * c
    BY <1>2, <1>6, <1>9 DEF Total
  <2> QED
    BY <2>1, <2>2
<1>11. n * (lo + U) <= SumFunction(t) /\ SumFunction(t) <= n * (L + hi)
  <2>1. lo + U \in Int /\ L + hi \in Int
    BY <1>4
  <2> QED
    BY <1>1, <1>8, <2>1, SumBetween
<1>12. lo + U <= 2 * c /\ 2 * c <= L + hi
  <2>1. lo + U \in Int /\ L + hi \in Int /\ 2 * c \in Int
    BY <1>2, <1>4
  <2>2. n * (lo + U) <= n * (2 * c) /\ n * (2 * c) <= n * (L + hi)
    BY <1>10, <1>11
  <2> QED
    BY <1>1, <2>1, <2>2, TimesCancelled
<1>13. n * lo <= SumFunction(f) /\ SumFunction(f) <= n * hi
  <2>1. \A k \in 1..n : lo <= f[k] /\ f[k] <= hi
    BY <1>3
  <2> QED
    BY <1>1, <1>3, <2>1, SumBetween
<1>14. lo <= c /\ c <= hi
  BY <1>1, <1>2, <1>13, TimesCancelled
<1> QED
  BY <1>2, <1>12, <1>14 DEF L, U

(* A fuzzy number on the scale, its centroid between its ends.              *)
Fits(m, lo, hi) ==
    /\ m.lower \in Int /\ m.peak \in Int /\ m.upper \in Int /\ Centroid(m) \in Int
    /\ lo <= m.lower /\ m.lower <= m.peak /\ m.peak <= m.upper /\ m.upper <= hi
    /\ m.lower <= Centroid(m) /\ Centroid(m) <= m.upper

(* A fuzzy number on the scale fits.                                        *)
LEMMA FuzzyFits ==
  ASSUME NEW m \in Fuzzy(3), NEW lo \in Int, NEW hi \in Int, OnScale(m, lo, hi)
  PROVE  Fits(m, lo, hi)
<1>1. PICK e \in Int : e = 1
  OBVIOUS
<1>2. m \in Fuzzy(3 * e)
  BY <1>1
<1>3. Centroid(m) \in Int /\ 3 * Centroid(m) = m.lower + m.peak + m.upper
  BY <1>1, <1>2, CentroidExact
<1>4. /\ m.lower \in Int /\ m.peak \in Int /\ m.upper \in Int
      /\ m.lower <= m.peak /\ m.peak <= m.upper
  BY FuzzyParts
<1> QED
  BY <1>3, <1>4 DEF Fits, OnScale

(* Multiples of 6 are multiples of 3.                                       *)
LEMMA SixIsThree == Fuzzy(6) \subseteq Fuzzy(3)
<1>1. ASSUME NEW j \in Int PROVE 6 * j \in Multiples(3)
  <2>1. 6 * j = 3 * (2 * j) /\ 2 * j \in Int
    OBVIOUS
  <2> QED
    BY <2>1 DEF Multiples
<1>2. Multiples(6) \subseteq Multiples(3)
  BY <1>1 DEF Multiples
<1> QED
  BY <1>2, Finer

(* What lies halfway between two on the scale is on it.                     *)
LEMMA HalfwayOnScale ==
  ASSUME NEW a \in Fuzzy(6), NEW b \in Fuzzy(6), NEW lo \in Int, NEW hi \in Int,
         OnScale(a, lo, hi), OnScale(b, lo, hi)
  PROVE  Halfway(a, b) \in Fuzzy(3) /\ OnScale(Halfway(a, b), lo, hi)
<1> DEFINE h == Halfway(a, b)
<1>1. /\ h \in Fuzzy(3)
      /\ 2 * h.lower = a.lower + b.lower
      /\ 2 * h.upper = a.upper + b.upper
  <2>1. PICK e \in Int : e = 3
    OBVIOUS
  <2>2. a \in Fuzzy(2 * e) /\ b \in Fuzzy(2 * e)
    BY <2>1
  <2> HIDE DEF h
  <2> QED
    BY <2>1, <2>2, HalfwayFuzzy DEF h
<1> HIDE DEF h
<1>2. /\ h.lower \in Int /\ h.upper \in Int
      /\ a.lower \in Int /\ a.upper \in Int /\ b.lower \in Int /\ b.upper \in Int
  BY <1>1, FuzzyParts
<1> QED
  BY <1>1, <1>2 DEF OnScale, h

(* The median is on the scale of the experts.                               *)
LEMMA MedianOnScale ==
  ASSUME NEW s, NEW n, SortedList(s, n), ~MedianFails(s), NEW lo \in Int, NEW hi \in Int,
         \A i \in 1..n : OnScale(s[i].opinion, lo, hi)
  PROVE  OnScale(MedianOfSorted(s), lo, hi)
<1>1. PICK i, j \in 1..n : MadeOf(s, n, i, j)
  BY MedianFound
<1>2. s[i].opinion \in Fuzzy(6) /\ s[j].opinion \in Fuzzy(6)
  BY WholeNumbers DEF SortedList, WholeList
<1> QED
  BY <1>1, <1>2, HalfwayOnScale DEF MadeOf

(* The error is half the distance of the centroids, and that of the         *)
(* compromise lies between them.                                            *)
LEMMA CompromiseBetween ==
  ASSUME NEW mean \in Fuzzy(6), NEW median \in Fuzzy(6), NEW k,
         NEW r, r = FromCalculations(mean, median, k),
         NEW a, NEW d, NEW b, a = Centroid(mean), d = Centroid(median), b = Centroid(r.best_compromise)
  PROVE  /\ a \in Int /\ d \in Int /\ b \in Int /\ r.max_error \in Nat
         /\ 2 * r.max_error <= Abs(a - d)
         /\ (a <= b /\ b <= d) \/ (d <= b /\ b <= a)
<1>1. /\ r.best_compromise = Halfway(mean, median)
      /\ r.arithmetic_mean = mean /\ r.median = median
      /\ r.max_error = Abs(a - d) \div 2
  BY AveragePair DEF FromCalculations
<1>2. ASSUME NEW m \in Fuzzy(3) PROVE Centroid(m) \in Int
  <2>1. PICK e \in Int : e = 1
    OBVIOUS
  <2>2. m \in Fuzzy(3 * e)
    BY <2>1
  <2> QED
    BY <2>1, <2>2, CentroidExact
<1>3. Halfway(mean, median) \in Fuzzy(3)
  <2>1. PICK e \in Int : e = 3
    OBVIOUS
  <2>2. mean \in Fuzzy(2 * e) /\ median \in Fuzzy(2 * e)
    BY <2>1
  <2> QED
    BY <2>1, <2>2, HalfwayFuzzy
<1>4. a \in Int /\ d \in Int /\ b \in Int
  BY <1>1, <1>2, <1>3, SixIsThree
<1>5. Abs(b - a) = r.max_error /\ Abs(b - d) = r.max_error
  BY <1>1, CompromiseExact
<1>6. Abs(a - d) \in Nat
  BY <1>4 DEF Abs
<1>7. r.max_error \in Nat /\ 2 * r.max_error <= Abs(a - d)
  BY <1>1, <1>6
<1>8. (a <= b /\ b <= d) \/ (d <= b /\ b <= a)
  BY <1>4, <1>5, <1>7 DEF Abs
<1> QED
  BY <1>4, <1>7, <1>8

(* All opinions of a list on the scale.                                     *)
AllOnScale(ops, n, lo, hi) == \A i \in 1..n : OnScale(ops[i].opinion, lo, hi)

(* BeCoMeCalculator: whatever opinions the experts have on a scale, the     *)
(* mean, the median and the compromise are on it too, no centroid of theirs *)
(* is beyond those of the opinions, and the error is at most a quarter of   *)
(* the scale.                                                               *)
THEOREM ResultOnScale ==
  ASSUME NEW ops, NEW n, WholeList(ops, n), NEW s, s = SortByCentroid(ops), Distinct(s, n),
         NEW lo \in Int, NEW hi \in Int, AllOnScale(ops, n, lo, hi),
         NEW r, r = CalculateCompromise(ops)
  PROVE  /\ \A m \in {r.arithmetic_mean, r.median, r.best_compromise} :
                Fits(m, lo, hi) /\ At(s, 1) <= Centroid(m) /\ Centroid(m) <= At(s, n)
         /\ r.max_error \in Nat /\ 4 * r.max_error <= hi - lo
         /\ r.num_experts = n
<1> DEFINE mean == CalculateArithmeticMean(ops)
           median == CalculateMedian(ops)
           a == Centroid(mean)
           d == Centroid(median)
           b == Centroid(r.best_compromise)
<1>1. /\ SortedList(s, n) /\ ~MedianFails(s) /\ median = MedianOfSorted(s)
      /\ WholeList(s, n) /\ OpinionList(ops, n)
  BY Sorted, SortedWhole, DistinctFound, MedianIs, WholeListIs
<1>2. mean \in Fuzzy(6) /\ median \in Fuzzy(6)
  BY <1>1, CompromiseParts
<1>3. AllOnScale(s, n, lo, hi)
  BY <1>1, SortedIs, PlaceOfRank DEF AllOnScale
<1>4. OnScale(mean, lo, hi) /\ OnScale(median, lo, hi)
  BY <1>1, <1>3, MeanOnScale, MedianOnScale DEF AllOnScale
<1>5. /\ r = FromCalculations(mean, median, n)
      /\ r.arithmetic_mean = mean /\ r.median = median
      /\ r.best_compromise = Halfway(mean, median) /\ r.num_experts = n
  <2>1. Len(ops) = n
    BY DEF WholeList
  <2>2. r = FromCalculations(mean, median, n)
    BY <2>1 DEF CalculateCompromise
  <2>3. Average(<<mean, median>>) = Halfway(mean, median)
    BY <1>2, AveragePair
  <2> HIDE DEF mean, median
  <2> QED
    BY <2>2, <2>3 DEF FromCalculations
<1> HIDE DEF median
<1>6. mean = CalculateArithmeticMean(s)
  BY MeanOfSorted
<1> HIDE DEF mean
<1>7. /\ r.best_compromise \in Fuzzy(3) /\ OnScale(r.best_compromise, lo, hi)
  BY <1>2, <1>4, <1>5, HalfwayOnScale
<1>8. Fits(mean, lo, hi) /\ Fits(median, lo, hi) /\ Fits(r.best_compromise, lo, hi)
  BY <1>2, <1>4, <1>7, SixIsThree, FuzzyFits
<1>9. /\ a \in Int /\ d \in Int /\ b \in Int /\ r.max_error \in Nat
      /\ 2 * r.max_error <= Abs(a - d)
      /\ (a <= b /\ b <= d) \/ (d <= b /\ b <= a)
  <2> HIDE DEF a, d, b
  <2>1. a = Centroid(mean) /\ d = Centroid(median) /\ b = Centroid(r.best_compromise)
    BY DEF a, d, b
  <2> QED
    BY <1>2, <1>5, <2>1, CompromiseBetween
<1> DEFINE L == At(s, Lower(n))
           U == At(s, Upper(n))
           first == At(s, 1)
           last == At(s, n)
<1>10. /\ Lower(n) \in 1..n /\ Upper(n) \in 1..n /\ n \in Nat \ {0}
       /\ \A i \in 1..n : At(s, i) \in Int
  BY <1>1, Target, WholeListIs
<1>11. L <= d /\ d <= U
  BY <1>1, MedianBetween
<1>12. \A i \in 1..n : lo <= At(s, i) /\ At(s, i) <= hi
  <2> SUFFICES ASSUME NEW i \in 1..n PROVE lo <= At(s, i) /\ At(s, i) <= hi
    OBVIOUS
  <2>1. s[i].opinion \in Fuzzy(3)
    BY <1>1, SixIsThree, WholeNumbers DEF WholeList
  <2>2. Fits(s[i].opinion, lo, hi)
    BY <1>3, <2>1, FuzzyFits DEF AllOnScale
  <2> QED
    BY <2>2 DEF Fits, At
<1>13. \A i \in 1..n : first <= At(s, i) /\ At(s, i) <= last
  BY <1>1, <1>10 DEF SortedList
<1>14. first \in Int /\ last \in Int /\ L \in Int /\ U \in Int
  BY <1>10
<1>15. first <= a /\ a <= last
  BY <1>1, <1>6, <1>13, <1>14, MeanNearMiddle
<1>16. 2 * a <= L + hi /\ lo + U <= 2 * a
  BY <1>1, <1>6, <1>12, MeanNearMiddle
<1>17. first <= L /\ U <= last /\ lo <= L /\ U <= hi
  BY <1>10, <1>12, <1>13
<1> HIDE DEF a, d, b, L, U, first, last
<1>18. /\ first <= d /\ d <= last
       /\ first <= b /\ b <= last
  BY <1>9, <1>11, <1>14, <1>15, <1>17
<1>19. lo <= d /\ d <= hi
  BY <1>9, <1>11, <1>14, <1>17
<1>20. 2 * Abs(a - d) <= hi - lo
  BY <1>9, <1>11, <1>14, <1>16, <1>19 DEF Abs
<1>21. 4 * r.max_error <= hi - lo
  BY <1>9, <1>20 DEF Abs
<1> QED
  BY <1>5, <1>8, <1>9, <1>15, <1>18, <1>21 DEF a, b, d, first, last

-------------------------------------------------------------------------------
(* The charts.                                                              *)

(* The opinions of a project: one of each expert at most.                    *)
Entry == [expert_id : Experts, opinion : Estimates]
Submitted == {l \in Seq(Entry) : \A i, j \in DOMAIN l : l[i].expert_id = l[j].expert_id => i = j}

(* The estimates are whole numbers on the scale.                             *)
LEMMA EstimatesWhole ==
  /\ Estimates \subseteq Fuzzy(Unit)
  /\ ScaleMin \in Int /\ ScaleMax \in Int /\ ScaleMin < ScaleMax
  /\ \A e \in Estimates : OnScale(e, ScaleMin, ScaleMax)
<1>1. ASSUME NEW x \in Int, x % Unit = 0 PROVE x \in Multiples(Unit)
  <2>1. Unit \in Nat \ {0}
    BY UnitAssumption
  <2> QED
    BY <1>1, <2>1, Multiple DEF Multiples
<1>2. ASSUME NEW n \in Estimates PROVE n \in Fuzzy(Unit)
  <2>1. /\ n \in [lower : Int, peak : Int, upper : Int] /\ Ordered(n)
        /\ n.lower % Unit = 0 /\ n.peak % Unit = 0 /\ n.upper % Unit = 0
    BY ChartsAssumption
  <2>2. n.lower \in Multiples(Unit) /\ n.peak \in Multiples(Unit) /\ n.upper \in Multiples(Unit)
    BY <1>1, <2>1
  <2> QED
    BY <2>1, <2>2 DEF Fuzzy
<1> QED
  BY <1>2, ChartsAssumption DEF OnScale

(* There are never more opinions than experts.                               *)
LEMMA SubmittedWhole ==
  ASSUME NEW l \in Submitted, l # <<>>
  PROVE  /\ WholeList(l, Len(l)) /\ Distinct(l, Len(l))
         /\ \A i \in 1..Len(l) : l[i] \in Entry /\ OnScale(l[i].opinion, ScaleMin, ScaleMax)
         /\ AllOnScale(l, Len(l), ScaleMin, ScaleMax)
<1> DEFINE n == Len(l)
           f == [i \in 1..n |-> l[i].expert_id]
<1>1. /\ l \in Seq(Entry) /\ n \in Nat \ {0} /\ DOMAIN l = 1..n
      /\ \A i \in 1..n : l[i] \in Entry
      /\ \A i, j \in 1..n : l[i].expert_id = l[j].expert_id => i = j
  BY DEF Submitted
<1>2. f \in [1..n -> Experts] /\ \A i \in 1..n : f[i] = l[i].expert_id
  BY <1>1 DEF Entry
<1> HIDE DEF f
<1>3. f \in Injection(1..n, Experts)
  BY <1>1, <1>2 DEF Injection, IsInjective
<1>4. IsFiniteSet(1..n) /\ Cardinality(1..n) = n /\ IsFiniteSet(Experts)
  <2>1. IsFiniteSet(1..n) /\ Cardinality(1..n) = n
    BY <1>1, FS_Interval
  <2>2. IsFiniteSet(Experts)
    BY ChartsAssumption
  <2> QED
    BY <2>1, <2>2
<1>5. n <= Cardinality(Experts) /\ Cardinality(Experts) \in Nat
  BY <1>3, <1>4, FS_Injection, FS_CardinalityType
<1>6. n \in 1..MaxExperts
  BY <1>1, <1>5, ChartsAssumption, UnitAssumption
<1>7. \A i \in 1..n : l[i].opinion \in Fuzzy(Unit) /\ OnScale(l[i].opinion, ScaleMin, ScaleMax)
  BY <1>1, EstimatesWhole DEF Entry
<1> QED
  BY <1>1, <1>6, <1>7 DEF WholeList, Distinct, AllOnScale

(* What has been loaded is of a list that was submitted, and when both GETs  *)
(* answered from the same moment the result is that of the opinions.         *)
ChartsInv ==
    /\ {stored, before, opinions} \subseteq Submitted
    /\ result # NoResult => \E l \in Submitted : l # <<>> /\ result = CalculateCompromise(l)
    /\ coherent \in BOOLEAN /\ showIndividual \in BOOLEAN
    /\ coherent => result = ResultFor(opinions)

(* Nothing has been submitted yet.                                           *)
LEMMA ChartsStart == ChartsInit => ChartsInv
<1> SUFFICES ASSUME ChartsInit PROVE ChartsInv
  OBVIOUS
<1>1. <<>> \in Submitted
  BY DEF Submitted
<1> QED
  BY <1>1 DEF ChartsInit, ChartsInv, ResultFor

(* An opinion is added or replaced: it stays the only one of its expert.     *)
LEMMA SubmitChartsInv ==
  ASSUME ChartsInv, NEW u \in Experts, NEW e \in Estimates, Submit(u, e)
  PROVE  ChartsInv'
<1>1. /\ stored \in Submitted /\ opinions = stored
      /\ before' = stored /\ UNCHANGED <<opinions, result, coherent, showIndividual, tab>>
  BY DEF ChartsInv, Submit
<1> DEFINE n == Len(stored)
<1>2. /\ stored \in Seq(Entry) /\ n \in Nat /\ DOMAIN stored = 1..n
      /\ \A i \in 1..n : stored[i] \in Entry
      /\ \A i, j \in 1..n : stored[i].expert_id = stored[j].expert_id => i = j
  BY <1>1 DEF Submitted
<1>3. stored' \in Submitted
  <2>1. CASE Place(stored, u) = {}
    <3> DEFINE x == [expert_id |-> u, opinion |-> e]
    <3>1. stored' = Append(stored, x) /\ x \in Entry /\ x.expert_id = u
      BY <2>1 DEF Submit, Entry
    <3>2. \A i \in 1..n : stored[i].expert_id # u
      BY <1>2, <2>1 DEF Place
    <3> HIDE DEF x
    <3>3. /\ stored' \in Seq(Entry) /\ DOMAIN stored' = 1..(n + 1)
          /\ \A i \in 1..n : stored'[i] = stored[i]
          /\ stored'[n + 1] = x
      BY <1>2, <3>1
    <3>4. ASSUME NEW i \in 1..(n + 1), NEW j \in 1..(n + 1), stored'[i].expert_id = stored'[j].expert_id
          PROVE  i = j
      <4>1. i \in 1..n \/ i = n + 1
        BY <1>2
      <4>2. j \in 1..n \/ j = n + 1
        BY <1>2
      <4> QED
        BY <1>2, <3>1, <3>2, <3>3, <3>4, <4>1, <4>2
    <3> QED
      BY <3>3, <3>4 DEF Submitted
  <2>2. CASE Place(stored, u) # {}
    <3> DEFINE g == [i \in 1..n |-> IF i \in Place(stored, u) THEN [stored[i] EXCEPT !.opinion = e]
                                    ELSE stored[i]]
    <3>1. stored' = g
      BY <1>2, <2>2, Zenon DEF Submit
    <3>2. ASSUME NEW i \in 1..n
          PROVE  g[i] \in Entry /\ g[i].expert_id = stored[i].expert_id
      <4>1. stored[i] \in Entry
        BY <1>2
      <4>2. /\ [stored[i] EXCEPT !.opinion = e] \in Entry
            /\ [stored[i] EXCEPT !.opinion = e].expert_id = stored[i].expert_id
        BY <4>1 DEF Entry
      <4> QED
        BY <4>1, <4>2
    <3>3. DOMAIN g = 1..n
      OBVIOUS
    <3>4. g \in [1..n -> Entry]
      BY <3>2
    <3> HIDE DEF g
    <3>5. g \in Seq(Entry)
      BY <1>2, <3>4, Lists
    <3>6. \A i, j \in 1..n : g[i].expert_id = g[j].expert_id => i = j
      BY <1>2, <3>2
    <3> QED
      BY <3>1, <3>3, <3>5, <3>6 DEF Submitted
  <2> QED
    BY <2>1, <2>2
<1>4. ResultFor(opinions)' = ResultFor(opinions)
  BY <1>1 DEF ResultFor
<1> QED
  BY <1>1, <1>3, <1>4 DEF ChartsInv

(* The GETs answer from before or after the last change.                     *)
LEMMA LoadChartsInv == ASSUME ChartsInv, Load PROVE ChartsInv'
<1>1. PICK o \in {stored, before}, r \in {stored, before} :
          /\ opinions' = o /\ result' = ResultFor(r) /\ coherent' = (o = r)
          /\ UNCHANGED <<stored, before, showIndividual, tab>>
  BY DEF Load
<1>2. o \in Submitted /\ r \in Submitted
  BY <1>1 DEF ChartsInv
<1>3. result' # NoResult => r # <<>> /\ result' = CalculateCompromise(r)
  BY <1>1 DEF ResultFor
<1>4. coherent' => result' = ResultFor(opinions)'
  BY <1>1 DEF ResultFor
<1> QED
  BY <1>1, <1>2, <1>3, <1>4 DEF ChartsInv

(* Every step, or none.                                                      *)
LEMMA ChartsStep == ChartsInv /\ [ChartsNext]_chartsVars => ChartsInv'
<1> SUFFICES ASSUME ChartsInv, [ChartsNext]_chartsVars PROVE ChartsInv'
  OBVIOUS
<1>1. CASE \E u \in Experts, e \in Estimates : Submit(u, e)
  BY <1>1, SubmitChartsInv
<1>2. CASE Load
  BY <1>2, LoadChartsInv
<1>3. ASSUME UNCHANGED <<stored, before, opinions, result, coherent>>, showIndividual' \in BOOLEAN
      PROVE  ChartsInv'
  <2>1. ResultFor(opinions)' = ResultFor(opinions)
    BY <1>3 DEF ResultFor
  <2> QED
    BY <1>3, <2>1 DEF ChartsInv
<1>4. CASE SetShowIndividual
  BY <1>3, <1>4 DEF SetShowIndividual, ChartsInv
<1>5. CASE \E t \in {"triangle", "centroid"} : SelectTab(t)
  BY <1>3, <1>5 DEF SelectTab, ChartsInv
<1>6. CASE UNCHANGED chartsVars
  BY <1>3, <1>6 DEF chartsVars, ChartsInv
<1> QED
  BY <1>1, <1>2, <1>4, <1>5, <1>6 DEF ChartsNext

(* So it always holds.                                                       *)
LEMMA ChartsAlways == ChartsSpec => []ChartsInv
  BY ChartsStart, ChartsStep, PTL DEF ChartsSpec

(* What is shown has been loaded together, or is of some earlier list.        *)
LEMMA Shown ==
  ASSUME ChartsInv, HasResults
  PROVE  /\ opinions \in Submitted /\ opinions # <<>>
         /\ result.max_error \in Nat /\ 4 * result.max_error <= ScaleMax - ScaleMin
         /\ \A m \in Results : Fits(m, ScaleMin, ScaleMax)
<1>1. PICK l \in Submitted : l # <<>> /\ result = CalculateCompromise(l)
  BY DEF ChartsInv, HasResults
<1>2. /\ WholeList(l, Len(l)) /\ Distinct(l, Len(l))
      /\ AllOnScale(l, Len(l), ScaleMin, ScaleMax)
  BY <1>1, SubmittedWhole
<1>3. Distinct(SortByCentroid(l), Len(l))
  BY <1>2, SortedDistinct
<1>4. ScaleMin \in Int /\ ScaleMax \in Int
  BY EstimatesWhole
<1>5. /\ \A m \in {result.arithmetic_mean, result.median, result.best_compromise} :
            Fits(m, ScaleMin, ScaleMax)
      /\ result.max_error \in Nat /\ 4 * result.max_error <= ScaleMax - ScaleMin
  BY <1>1, <1>2, <1>3, <1>4, ResultOnScale
<1> QED
  BY <1>5 DEF ChartsInv, HasResults, Results

(* Rounding keeps the order.                                                 *)
LEMMA HundredthsMonotone ==
  ASSUME NEW x \in Int, NEW y \in Int, x <= y
  PROVE  Hundredths(x) \in Int /\ Hundredths(y) \in Int /\ Hundredths(x) <= Hundredths(y)
<1>1. Unit \in Nat \ {0} /\ Unit \div 2 \in Int
  BY UnitAssumption
<1> DEFINE a == 100 * x + Unit \div 2
           b == 100 * y + Unit \div 2
<1>2. a \in Int /\ b \in Int /\ a <= b
  BY <1>1
<1>3. Hundredths(x) = a \div Unit /\ Hundredths(y) = b \div Unit
  BY DEF Hundredths
<1> HIDE DEF a, b
<1>4. a \div Unit <= b \div Unit
  BY <1>1, <1>2, DivMonotone
<1>5. a \div Unit \in Int /\ b \div Unit \in Int
  BY <1>1, <1>2, Divided
<1> QED
  BY <1>3, <1>4, <1>5

(* What fits is drawn on the scale.                                          *)
LEMMA PolygonFits ==
  ASSUME NEW m, m.lower \in Int, m.peak \in Int, m.upper \in Int,
         ScaleMin <= m.lower, m.lower <= m.peak, m.peak <= m.upper, m.upper <= ScaleMax,
         NEW p, p = Polygon(m)
  PROVE  OnAxes(p.left) /\ OnAxes(p.right) /\ p.left <= p.top /\ p.top <= p.right
<1>1. ScaleMin \in Int /\ ScaleMax \in Int
  BY EstimatesWhole
<1>2. p.left = ScaleToX(m.lower) /\ p.top = ScaleToX(m.peak) /\ p.right = ScaleToX(m.upper)
  BY DEF Polygon
<1> QED
  BY <1>1, <1>2 DEF OnAxes, ScaleToX, ScaleRange

(* From the invariant: the triangles, the marker, the figures and the bar.    *)
LEMMA DrawnImplied == ChartsInv => DrawnOnScale
<1> SUFFICES ASSUME ChartsInv, HasResults PROVE DrawnOnScale
  BY DEF DrawnOnScale
<1>1. /\ opinions \in Submitted /\ opinions # <<>>
      /\ result.max_error \in Nat /\ 4 * result.max_error <= ScaleMax - ScaleMin
      /\ \A m \in Results : Fits(m, ScaleMin, ScaleMax)
  BY Shown
<1>2. ScaleMin \in Int /\ ScaleMax \in Int /\ ScaleMin < ScaleMax
  BY EstimatesWhole
<1>3. ASSUME NEW p \in ResultTriangles
      PROVE  OnAxes(p.left) /\ OnAxes(p.right) /\ p.left <= p.top /\ p.top <= p.right
  <2>1. PICK m \in Results : p = Polygon(m)
    BY DEF ResultTriangles
  <2> QED
    BY <1>1, <2>1, PolygonFits DEF Fits
<1>4. ASSUME NEW p \in IndividualOpinions
      PROVE  OnAxes(p.left) /\ OnAxes(p.right) /\ p.left <= p.top /\ p.top <= p.right
  <2>1. PICK i \in DOMAIN opinions : p = Polygon(opinions[i].opinion)
    BY DEF IndividualOpinions
  <2>2. DOMAIN opinions = 1..Len(opinions)
    BY <1>1 DEF Submitted
  <2> DEFINE m == opinions[i].opinion
  <2>3. m \in Fuzzy(Unit) /\ OnScale(m, ScaleMin, ScaleMax)
    BY <1>1, <2>2, SubmittedWhole, EstimatesWhole DEF Entry
  <2> HIDE DEF m
  <2>4. /\ m.lower \in Int /\ m.peak \in Int /\ m.upper \in Int
        /\ m.lower <= m.peak /\ m.peak <= m.upper
    <3>1. Unit \in Int
      BY UnitAssumption
    <3> QED
      BY <2>3, <3>1, FuzzyParts
  <2>5. p = Polygon(m)
    BY <2>1 DEF m
  <2> QED
    BY <2>3, <2>4, <2>5, PolygonFits DEF OnScale
<1>5. LET p == Polygon(result.best_compromise) IN p.left <= CentroidMarker /\ CentroidMarker <= p.right
  <2> DEFINE m == result.best_compromise
  <2>1. Fits(m, ScaleMin, ScaleMax)
    BY <1>1 DEF Results
  <2>2. /\ m.lower \in Int /\ m.upper \in Int /\ Centroid(m) \in Int
        /\ m.lower <= Centroid(m) /\ Centroid(m) <= m.upper
    BY <2>1 DEF Fits
  <2>3. CentroidMarker = ScaleToX(Centroid(m))
    BY DEF CentroidMarker
  <2>4. Polygon(m).left = ScaleToX(m.lower) /\ Polygon(m).right = ScaleToX(m.upper)
    BY DEF Polygon
  <2> HIDE DEF m
  <2>5. /\ ScaleToX(m.lower) <= ScaleToX(Centroid(m))
        /\ ScaleToX(Centroid(m)) <= ScaleToX(m.upper)
    BY <1>2, <2>2 DEF ScaleToX, ScaleRange
  <2> QED
    BY <2>3, <2>4, <2>5 DEF m
<1>6. ASSUME NEW n \in Results
      PROVE  LET f == Figures(n) IN Ordered(f) /\ f.lower <= f.centroid /\ f.centroid <= f.upper
  <2>1. Fits(n, ScaleMin, ScaleMax)
    BY <1>1
  <2>2. /\ Hundredths(n.lower) <= Hundredths(n.peak) /\ Hundredths(n.peak) <= Hundredths(n.upper)
        /\ Hundredths(n.lower) <= Hundredths(Centroid(n))
        /\ Hundredths(Centroid(n)) <= Hundredths(n.upper)
    BY <2>1, HundredthsMonotone DEF Fits
  <2>3. /\ Figures(n).lower = Hundredths(n.lower) /\ Figures(n).peak = Hundredths(n.peak)
        /\ Figures(n).upper = Hundredths(n.upper) /\ Figures(n).centroid = Hundredths(Centroid(n))
    BY DEF Figures
  <2> QED
    BY <2>2, <2>3 DEF Ordered
<1>7. 4 * Progress <= 100 * ScaleRange /\ AgreementLevel # "low"
  <2>1. /\ ScaleRange \in Nat /\ ErrorPercent \in Nat /\ 4 * ErrorPercent <= 100 * ScaleRange
    BY <1>1, <1>2 DEF ScaleRange, ErrorPercent
  <2>2. Progress = ErrorPercent \/ ErrorPercent >= 100 * ScaleRange
    BY <2>1 DEF Progress
  <2>3. 4 * Progress <= 100 * ScaleRange
    BY <2>1 DEF Progress
  <2>4. ErrorPercent <= 40 * ScaleRange
    BY <2>1
  <2> QED
    BY <2>3, <2>4 DEF AgreementLevel
<1> QED
  BY <1>3, <1>4, <1>5, <1>6, <1>7 DEF DrawnOnScale

(* What rounding does.                                                       *)
LEMMA HundredthsNear ==
  ASSUME NEW x \in Int, NEW h, h = Hundredths(x)
  PROVE  /\ h \in Int
         /\ 2 * (Unit * h) <= 200 * x + Unit
         /\ 200 * x <= 2 * (Unit * h) + Unit
<1>1. Unit \in Nat \ {0}
  BY UnitAssumption
<1>2. Unit \div 2 \in Int /\ 2 * (Unit \div 2) <= Unit /\ Unit <= 2 * (Unit \div 2) + 1
  BY <1>1
<1> DEFINE a == 100 * x + Unit \div 2
<1>3. a \in Int /\ h = a \div Unit
  BY <1>2 DEF Hundredths
<1> HIDE DEF a
<1>4. h \in Int /\ Unit * h <= a /\ a < Unit * h + Unit
  BY <1>1, <1>3, Divided
<1>5. Unit * h \in Int
  BY <1>1, <1>4
<1> DEFINE q == Unit * h
<1> HIDE DEF q
<1>6. q \in Int /\ q <= a /\ a < q + Unit
  BY <1>4, <1>5 DEF q
<1>7. 2 * q <= 200 * x + Unit /\ 200 * x <= 2 * q + Unit
  BY <1>1, <1>2, <1>6 DEF a
<1> QED
  BY <1>4, <1>7 DEF q

(* The axis reaches at least as far as the centroids it is made for: those of *)
(* whole numbers are a third apart if they differ, which leaves room for the *)
(* rounding of the points.                                                  *)
LEMMA AxisReaches ==
  ASSUME NEW first \in Int, NEW last \in Int, first <= last,
         first = last \/ Unit <= 3 * (last - first),
         NEW f, NEW g, f = Hundredths(first), g = Hundredths(last),
         NEW pad, pad = IF g - f = 0 THEN 50000 ELSE 15 * (g - f),
         NEW c \in Int, first <= c, c <= last
  PROVE  /\ (100 * f - pad) * Unit <= 10000 * c
         /\ 10000 * c <= (100 * g + pad) * Unit
<1>1. Unit \in Nat \ {0}
  BY UnitAssumption
<1> DEFINE q == Unit * f
           r == Unit * g
<1>2. /\ f \in Int /\ 2 * q <= 200 * first + Unit /\ 200 * first <= 2 * q + Unit
  BY HundredthsNear
<1>3. /\ g \in Int /\ 2 * r <= 200 * last + Unit /\ 200 * last <= 2 * r + Unit
  BY HundredthsNear
<1>4. q \in Int /\ r \in Int
  BY <1>1, <1>2, <1>3
<1>5. CASE g - f = 0
  <2>1. (100 * f - pad) * Unit = 100 * q - 50000 * Unit /\ (100 * g + pad) * Unit = 100 * r + 50000 * Unit
    BY <1>1, <1>2, <1>3, <1>5
  <2> HIDE DEF q, r
  <2> QED
    BY <1>1, <1>2, <1>3, <1>4, <2>1
<1>6. CASE g - f # 0
  <2>1. (100 * f - pad) * Unit = 100 * q - 15 * (r - q) /\ (100 * g + pad) * Unit = 100 * r + 15 * (r - q)
    BY <1>1, <1>2, <1>3, <1>6
  <2>2. first # last
    BY <1>2, <1>3, <1>6
  <2> HIDE DEF q, r
  <2>3. 50 * Unit <= 15 * (r - q)
    BY <1>1, <1>2, <1>3, <1>4, <2>2
  <2> QED
    BY <1>1, <1>2, <1>3, <1>4, <2>1, <2>3
<1> QED
  BY <1>5, <1>6

(* The centroids of whole numbers, in thirds.                                *)
LEMMA CentroidThirds ==
  ASSUME NEW n \in 1..MaxExperts, NEW m \in Fuzzy(Unit)
  PROVE  \E k \in Int : 3 * Centroid(m) = Unit * k
<1>0. Unit \in Int
  BY UnitAssumption
<1>1. PICK e \in Int : e = 4
  OBVIOUS
<1>2. m \in Fuzzy(3 * e)
  <2>1. m \in Fuzzy(12)
    BY WholeNumbers
  <2> QED
    BY <1>1, <2>1
<1>3. 3 * Centroid(m) = m.lower + m.peak + m.upper
  BY <1>1, <1>2, CentroidExact
<1>4. m.lower \in Multiples(Unit) /\ m.peak \in Multiples(Unit) /\ m.upper \in Multiples(Unit)
  BY <1>0, FuzzyParts
<1>5. PICK i \in Int : m.lower = Unit * i
  BY <1>4 DEF Multiples
<1>6. PICK j \in Int : m.peak = Unit * j
  BY <1>4 DEF Multiples
<1>7. PICK k \in Int : m.upper = Unit * k
  BY <1>4 DEF Multiples
<1>8. Unit * i + Unit * j + Unit * k = Unit * (i + j + k) /\ i + j + k \in Int
  BY <1>0
<1> QED
  BY <1>3, <1>5, <1>6, <1>7, <1>8

(* So two that differ do by a third at least.                                *)
LEMMA ThirdApart ==
  ASSUME NEW n \in 1..MaxExperts, NEW a \in Fuzzy(Unit), NEW b \in Fuzzy(Unit),
         Centroid(a) \in Int, Centroid(b) \in Int, Centroid(a) < Centroid(b)
  PROVE  Unit <= 3 * (Centroid(b) - Centroid(a))
<1>0. Unit \in Nat \ {0}
  BY UnitAssumption
<1>1. PICK i \in Int : 3 * Centroid(a) = Unit * i
  BY CentroidThirds
<1>2. PICK j \in Int : 3 * Centroid(b) = Unit * j
  BY CentroidThirds
<1>3. Unit * i < Unit * j
  BY <1>1, <1>2
<1>4. ~(j <= i)
  <2> SUFFICES ASSUME j <= i PROVE Unit * j <= Unit * i
    BY <1>0, <1>3
  <2> QED
    BY <1>0, TimesMonotone
<1>5. 1 <= j - i
  BY <1>4
<1>6. Unit * 1 <= Unit * (j - i)
  BY <1>0, <1>5, TimesMonotone
<1>7. Unit * 1 = Unit /\ Unit * (j - i) = Unit * j - Unit * i
  BY <1>0
<1> QED
  BY <1>1, <1>2, <1>6, <1>7

(* From the invariant: the lines of the result of the opinions shown.         *)
LEMMA LinesImplied == ChartsInv => LinesOnAxis
<1> SUFFICES ASSUME ChartsInv, HasResults, coherent PROVE LinesOnAxis
  BY DEF LinesOnAxis
<1> DEFINE n == Len(opinions)
           s == SortByCentroid(opinions)
           first == At(s, 1)
           last == At(s, n)
           f == Hundredths(first)
           g == Hundredths(last)
           pad == Padding(ChartData)
<1>1. opinions \in Submitted /\ opinions # <<>> /\ result = CalculateCompromise(opinions)
  BY DEF ChartsInv, HasResults, ResultFor
<1>2. /\ WholeList(opinions, n) /\ Distinct(opinions, n)
      /\ AllOnScale(opinions, n, ScaleMin, ScaleMax)
  BY <1>1, SubmittedWhole
<1>3. Distinct(s, n) /\ SortedList(s, n) /\ WholeList(s, n) /\ OpinionList(opinions, n)
  BY <1>2, SortedDistinct, Sorted, SortedWhole, WholeListIs
<1>4. ScaleMin \in Int /\ ScaleMax \in Int
  BY EstimatesWhole
<1> HIDE DEF n
<1>5. /\ \A m \in {result.arithmetic_mean, result.median, result.best_compromise} :
            Fits(m, ScaleMin, ScaleMax) /\ first <= Centroid(m) /\ Centroid(m) <= last
      /\ result.num_experts = n
  BY <1>1, <1>2, <1>3, <1>4, ResultOnScale
<1>6. /\ n \in 1..MaxExperts /\ n \in Nat \ {0} /\ DOMAIN s = 1..n /\ Len(s) = n
      /\ \A i \in 1..n : At(s, i) \in Int /\ s[i].opinion \in Fuzzy(Unit)
  BY <1>3, WholeListIs DEF WholeList
<1> HIDE DEF s
<1>7. /\ DOMAIN ChartData = 1..n /\ Len(ChartData) = n
      /\ \A i \in 1..n : ChartData[i] = Hundredths(At(s, i))
  <2>1. ChartData = [i \in DOMAIN s |-> Hundredths(Centroid(s[i].opinion))]
    BY DEF ChartData, s
  <2>2. ChartData = [i \in 1..n |-> Hundredths(At(s, i))]
    BY <1>6, <2>1 DEF At
  <2> DEFINE d == [i \in 1..n |-> Hundredths(At(s, i))]
  <2>3. d \in [1..n -> {Hundredths(At(s, i)) : i \in 1..n}]
    OBVIOUS
  <2>4. DOMAIN d = 1..n /\ \A i \in 1..n : d[i] = Hundredths(At(s, i))
    OBVIOUS
  <2> HIDE DEF d
  <2>5. Len(d) = n
    BY <1>6, <2>3, Lists
  <2> QED
    BY <2>2, <2>4, <2>5 DEF d
<1>8. ChartData[1] = f /\ ChartData[n] = g /\ 1 \in 1..n /\ n \in 1..n
  BY <1>6, <1>7
<1>9. pad = IF g - f = 0 THEN 50000 ELSE 15 * (g - f)
  BY <1>7, <1>8 DEF Padding
<1>10. AxisFrom(ChartData) = 100 * f - pad /\ AxisTo(ChartData) = 100 * g + pad
  BY <1>7, <1>8 DEF AxisFrom, AxisTo
<1>11. first \in Int /\ last \in Int /\ first <= last
  BY <1>3, <1>6, <1>8 DEF SortedList
<1>12. first = last \/ Unit <= 3 * (last - first)
  BY <1>6, <1>8, <1>11, ThirdApart DEF At
<1> HIDE DEF f, g, pad, first, last
<1>13. ASSUME NEW c \in ReferenceLines
       PROVE  AxisFrom(ChartData) * Unit <= 10000 * c /\ 10000 * c <= AxisTo(ChartData) * Unit
  <2>1. c \in Int /\ first <= c /\ c <= last
    BY <1>5 DEF ReferenceLines, Results, Fits
  <2>2. f = Hundredths(first) /\ g = Hundredths(last)
    BY DEF f, g
  <2>3. /\ (100 * f - pad) * Unit <= 10000 * c
        /\ 10000 * c <= (100 * g + pad) * Unit
    BY <1>9, <1>11, <1>12, <2>1, <2>2, AxisReaches
  <2> QED
    BY <1>10, <2>3
<1> QED
  BY <1>5, <1>7, <1>13 DEF LinesOnAxis

(* From the invariant: the types.                                            *)
LEMMA ChartsTypesImplied == ChartsInv => ChartsTypeOK
<1> SUFFICES ASSUME ChartsInv PROVE ChartsTypeOK
  OBVIOUS
<1>1. ASSUME NEW l \in Submitted, NEW i \in DOMAIN l
      PROVE  l[i].expert_id \in Experts /\ l[i].opinion \in Estimates
  <2>1. l[i] \in Entry
    BY DEF Submitted
  <2> QED
    BY <2>1 DEF Entry
<1>2. ASSUME result # NoResult PROVE Ordered(result.best_compromise)
  <2>1. PICK l \in Submitted : l # <<>> /\ result = CalculateCompromise(l)
    BY <1>2 DEF ChartsInv
  <2>2. WholeList(l, Len(l)) /\ ~MedianFails(SortByCentroid(l))
    BY <2>1, SubmittedWhole, SortedDistinct, Sorted, DistinctFound
  <2> DEFINE mean == CalculateArithmeticMean(l)
             median == CalculateMedian(l)
  <2>3. mean \in Fuzzy(6) /\ median \in Fuzzy(6)
    BY <2>2, CompromiseParts
  <2>4. result = FromCalculations(mean, median, Len(l))
    BY <2>1 DEF CalculateCompromise
  <2> HIDE DEF mean, median
  <2> QED
    BY <2>3, <2>4, CompromiseExact
<1> QED
  BY <1>1, <1>2 DEF ChartsTypeOK, ChartsInv

(* TriangleVisualization and ResultsSection: whatever the experts submit, in *)
(* whatever order, and whichever mixture of moments the two GETs answer,     *)
(* everything is drawn on the scale and the agreement is never low.          *)
THEOREM DrawnCorrect == ChartsSpec => []DrawnOnScale
  BY ChartsAlways, DrawnImplied, PTL

(* CentroidBarChart: its domain covers the lines of the mean, the median and *)
(* the compromise, for whole numbers.                                        *)
THEOREM LinesCorrect == ChartsSpec => []LinesOnAxis
  BY ChartsAlways, LinesImplied, PTL

(* ProjectDetail.tsx: what is loaded stays in its domain.                     *)
THEOREM ChartsTypesCorrect == ChartsSpec => []ChartsTypeOK
  BY ChartsAlways, ChartsTypesImplied, PTL

===============================================================================
