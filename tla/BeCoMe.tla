-------------------------------- MODULE BeCoMe --------------------------------
(***************************************************************************)
(* The BeCoMe method of src/src: the arithmetic mean, the two median       *)
(* strategies, the best compromise with its maximum error, and the Likert  *)
(* interpreter.  An opinion is a record of an expert_id and an opinion, a  *)
(* fuzzy triangular number with the fields lower, peak and upper.          *)
(*                                                                         *)
(* A number x of the code is the integer x * Unit.  Unit is chosen so that *)
(* every division below is exact: the model computes over the rationals,   *)
(* the rounding of Python floats is left out.                              *)
(***************************************************************************)
EXTENDS Integers, Sequences, FiniteSets, Functions

CONSTANTS
    LikertValues,   \* the Likert scale, a sequence of scaled integers
    Unit,           \* the integer that stands for 1
    MaxExperts      \* bound on the experts of one calculation

ASSUME UnitAssumption ==
    /\ Unit \in Nat \ {0} /\ MaxExperts \in Nat
    /\ \A k \in 1..MaxExperts : Unit % (12 * k) = 0

(* FuzzyTriangleNumber.__init__ refuses a triple that is not ordered. *)
Ordered(n) == n.lower <= n.peak /\ n.peak <= n.upper

Abs(x) == IF x < 0 THEN -x ELSE x

Centroid(n) == (n.lower + n.peak + n.upper) \div 3

(* statistics.mean of one component over the numbers of a list. *)
Mean(f) == SumFunction(f) \div Len(f)

(* Mutant: the lower and the upper components change places. *)
AverageSwapped(ns) ==
    [ lower |-> Mean([i \in DOMAIN ns |-> ns[i].upper]),
      peak  |-> Mean([i \in DOMAIN ns |-> ns[i].peak]),
      upper |-> Mean([i \in DOMAIN ns |-> ns[i].lower]) ]

Average(ns) ==
    [ lower |-> Mean([i \in DOMAIN ns |-> ns[i].lower]),
      peak  |-> Mean([i \in DOMAIN ns |-> ns[i].peak]),
      upper |-> Mean([i \in DOMAIN ns |-> ns[i].upper]) ]

CalculateArithmeticMean(ops) == Average([i \in DOMAIN ops |-> ops[i].opinion])

(* The place of ops[i] once the list is sorted by centroid; the sort is stable. *)
Rank(ops, i) ==
    LET c(j) == Centroid(ops[j].opinion)
    IN  1 + Cardinality({j \in DOMAIN ops : c(j) < c(i) \/ (c(j) = c(i) /\ j < i)})

(* Mutant: the list is used as it came. *)
UnsortedOpinions(ops) == ops

SortByCentroid(ops) ==
    [k \in DOMAIN ops |-> ops[CHOOSE i \in DOMAIN ops : Rank(ops, i) = k]]

(* statistics.median of the centroids of a sorted list. *)
MedianCentroid(sorted) ==
    LET c(i) == Centroid(sorted[i].opinion)
        m == Len(sorted)
    IN  (c((m + 1) \div 2) + c((m \div 2) + 1)) \div 2

(* Python's min(..., key), over some places of the list: the first of the     *)
(* opinions nearest to the target.                                           *)
FindClosestOpinion(ops, places, target) ==
    LET distance(i) == Abs(Centroid(ops[i].opinion) - target)
    IN  ops[CHOOSE i \in places : \A j \in places :
                distance(i) < distance(j) \/ (distance(i) = distance(j) /\ i <= j)]

(* Mutant: opinions compared by their numbers alone. *)
RemainingNumbers(ops, first) == {i \in DOMAIN ops : ops[i].opinion # first.opinion}

(* The places of the remaining opinions.  Opinions are compared by expert and *)
(* numbers, so every equal one is dropped.                                   *)
RemainingOpinions(ops, first) == {i \in DOMAIN ops : ops[i] # first}

OddMedian(sorted, target) == FindClosestOpinion(sorted, DOMAIN sorted, target).opinion

(* Mutant: the second search sees the whole list again. *)
EvenMedianOfOne(sorted, target) ==
    LET first == FindClosestOpinion(sorted, DOMAIN sorted, target)
    IN  Average(<<first.opinion, first.opinion>>)

EvenMedian(sorted, target) ==
    LET first  == FindClosestOpinion(sorted, DOMAIN sorted, target)
        second == FindClosestOpinion(sorted, RemainingOpinions(sorted, first), target)
    IN  Average(<<first.opinion, second.opinion>>)

(* min() of an empty list raises ValueError, which nobody catches. *)
MedianFails(sorted) ==
    /\ Len(sorted) % 2 = 0
    /\ RemainingOpinions(sorted,
           FindClosestOpinion(sorted, DOMAIN sorted, MedianCentroid(sorted))) = {}

CalculateMedian(ops) ==
    LET sorted == SortByCentroid(ops)
        target == MedianCentroid(sorted)
    IN  IF Len(sorted) % 2 = 1 THEN OddMedian(sorted, target) ELSE EvenMedian(sorted, target)

(* Mutant: the distance between the two centroids is not halved. *)
FromCalculationsUnhalved(mean, median, experts) ==
    [ best_compromise |-> Average(<<mean, median>>),
      arithmetic_mean |-> mean,
      median          |-> median,
      max_error       |-> Abs(Centroid(mean) - Centroid(median)),
      num_experts     |-> experts ]

FromCalculations(mean, median, experts) ==
    [ best_compromise |-> Average(<<mean, median>>),
      arithmetic_mean |-> mean,
      median          |-> median,
      max_error       |-> Abs(Centroid(mean) - Centroid(median)) \div 2,
      num_experts     |-> experts ]

CalculateCompromise(ops) ==
    FromCalculations(CalculateArithmeticMean(ops), CalculateMedian(ops), Len(ops))

(* The first of the Likert values nearest to the centroid of a fuzzy number. *)
Interpret(n) ==
    LET distance(i) == Abs(LikertValues[i] - Centroid(n))
    IN  LikertValues[CHOOSE i \in DOMAIN LikertValues : \A j \in DOMAIN LikertValues :
                         distance(i) < distance(j) \/ (distance(i) = distance(j) /\ i <= j)]

===============================================================================
