------------------------ MODULE CalculateEndpoint_proofs ------------------------
(***************************************************************************)
(* Proofs about the two callers of the method: what its lemmas say of every *)
(* list the endpoint answers, and of every set of opinions that             *)
(* CalculationService recalculates.                                         *)
(***************************************************************************)
EXTENDS CalculateEndpoint, Recalculation, ResultCharts_proofs

-------------------------------------------------------------------------------
(* The endpoint.                                                            *)

(* It is asked with whole numbers only.                                      *)
LEMMA NumbersWhole ==
  Numbers \subseteq Fuzzy(Unit)
<1>1. ASSUME NEW x \in Int, x % Unit = 0 PROVE x \in Multiples(Unit)
  <2>1. Unit \in Nat \ {0}
    BY UnitAssumption
  <2> QED
    BY <1>1, <2>1, Multiple DEF Multiples
<1>2. ASSUME NEW n \in Numbers PROVE n \in Fuzzy(Unit)
  <2>1. /\ n \in [lower : Int, peak : Int, upper : Int] /\ Ordered(n)
        /\ n.lower % Unit = 0 /\ n.peak % Unit = 0 /\ n.upper % Unit = 0
    BY NumbersAssumption
  <2>2. n.lower \in Multiples(Unit) /\ n.peak \in Multiples(Unit) /\ n.upper \in Multiples(Unit)
    BY <1>1, <2>1
  <2> QED
    BY <2>1, <2>2 DEF Fuzzy
<1> QED
  BY <1>2

(* The list of the request stays in its domain.                             *)
Listed == experts \in Seq(ExpertInput) /\ Len(experts) <= MaxExperts

(* The answer is what the method makes of the list, and there is one unless *)
(* the second search of the even strategy finds nobody left.                *)
AnswerIsResult ==
    \/ response = NoResponse
    \/ /\ experts # <<>>
       /\ response = ServerError /\ MedianFails(SortByCentroid(experts))
    \/ /\ experts # <<>>
       /\ response = Success(CalculateCompromise(experts)) /\ ~MedianFails(SortByCentroid(experts))

(* The inductive invariant.                                                 *)
IInv == Listed /\ AnswerIsResult

(* A new request.                                                           *)
LEMMA InitIInv ==
  Init => IInv
  BY UnitAssumption DEF Init, IInv, Listed, AnswerIsResult

(* The list grows.                                                          *)
LEMMA AddExpertIInv ==
  ASSUME IInv, NEW e \in ExpertInput, AddExpert(e)
  PROVE  IInv'
<1>1. experts' = Append(experts, e) /\ Len(experts) < MaxExperts /\ experts \in Seq(ExpertInput)
  BY DEF AddExpert, IInv, Listed
<1>2. Listed'
  BY <1>1, UnitAssumption DEF Listed
<1>3. AnswerIsResult'
  BY DEF AddExpert, AnswerIsResult
<1> QED
  BY <1>2, <1>3 DEF IInv

(* The endpoint answers.                                                    *)
LEMMA CalculateIInv ==
  ASSUME IInv, Calculate
  PROVE  IInv'
<1>1. experts' = experts /\ experts # <<>>
  BY DEF Calculate
<1>2. Listed'
  BY <1>1 DEF IInv, Listed
<1>3. CASE MedianFails(SortByCentroid(experts))
  <2>1. response' = ServerError
    BY <1>3 DEF Calculate
  <2> QED
    BY <1>1, <1>2, <1>3, <2>1 DEF IInv, AnswerIsResult
<1>4. CASE ~MedianFails(SortByCentroid(experts))
  <2>1. response' = Success(CalculateCompromise(experts))
    BY <1>4 DEF Calculate
  <2> QED
    BY <1>1, <1>2, <1>4, <2>1 DEF IInv, AnswerIsResult
<1> QED
  BY <1>3, <1>4

(* And the client starts over.                                              *)
LEMMA NewRequestIInv ==
  ASSUME IInv, NewRequest
  PROVE  IInv'
  BY UnitAssumption DEF NewRequest, IInv, Listed, AnswerIsResult

(* Every step, or none.                                                     *)
LEMMA Inductive ==
  IInv /\ [Next]_vars => IInv'
<1> SUFFICES ASSUME IInv, [Next]_vars PROVE IInv'
  OBVIOUS
<1>1. CASE \E e \in ExpertInput : AddExpert(e)
  BY <1>1, AddExpertIInv
<1>2. CASE Calculate
  BY <1>2, CalculateIInv
<1>3. CASE NewRequest
  BY <1>3, NewRequestIInv
<1>4. CASE UNCHANGED vars
  BY <1>4 DEF vars, IInv, Listed, AnswerIsResult
<1> QED
  BY <1>1, <1>2, <1>3, <1>4 DEF Next

(* So it always holds.                                                      *)
LEMMA Invariant ==
  Spec => []IInv
  BY InitIInv, Inductive, PTL DEF Spec

(* The list of a request is one of whole numbers.                           *)
LEMMA ExpertsWhole ==
  ASSUME IInv, experts # <<>>
  PROVE  /\ WholeList(experts, Len(experts)) /\ DOMAIN experts = 1..Len(experts)
         /\ Len(experts) \in 1..MaxExperts
<1> DEFINE n == Len(experts)
<1>1. experts \in Seq(ExpertInput) /\ n <= MaxExperts /\ MaxExperts \in Nat
  BY UnitAssumption DEF IInv, Listed
<1>2. n \in Nat \ {0} /\ DOMAIN experts = 1..n /\ \A i \in 1..n : experts[i] \in ExpertInput
  BY <1>1
<1>3. \A i \in 1..n : experts[i].opinion \in Fuzzy(Unit)
  BY <1>2, NumbersWhole DEF ExpertInput
<1> QED
  BY <1>1, <1>2, <1>3 DEF WholeList

(* What is known of an answer: the list it is of, sorted, and its three     *)
(* parts.                                                                   *)
LEMMA Answer ==
  ASSUME IInv, Answered
  PROVE  /\ experts # <<>> /\ Result = CalculateCompromise(experts)
         /\ ~MedianFails(SortByCentroid(experts))
         /\ WholeList(experts, Len(experts)) /\ DOMAIN experts = 1..Len(experts)
         /\ Len(experts) \in 1..MaxExperts
         /\ SortedList(SortByCentroid(experts), Len(experts))
<1>1. /\ experts # <<>> /\ response = Success(CalculateCompromise(experts))
      /\ ~MedianFails(SortByCentroid(experts))
  <2>1. response # NoResponse /\ response # ServerError
    BY DEF Answered, NoResponse, ServerError
  <2> QED
    BY <2>1 DEF IInv, AnswerIsResult
<1>2. Result = CalculateCompromise(experts)
  BY <1>1 DEF Result, Success
<1> QED
  BY <1>1, <1>2, ExpertsWhole, Sorted

(* The middle of the list.                                                  *)
LEMMA ParityMiddle ==
  LowerMiddle = Lower(Len(experts)) /\ UpperMiddle = Upper(Len(experts))
  BY DEF LowerMiddle, UpperMiddle, Lower, Upper

(* The parts of an answer.                                                  *)
LEMMA ResultExact ==
  ASSUME IInv, Answered
  PROVE  /\ Ordered(Result.best_compromise) /\ Ordered(Result.arithmetic_mean)
         /\ Ordered(Result.median) /\ Result.max_error >= 0
         /\ Result.num_experts = Len(experts)
         /\ Abs(Centroid(Result.best_compromise) - Centroid(Result.arithmetic_mean)) = Result.max_error
         /\ Abs(Centroid(Result.best_compromise) - Centroid(Result.median)) = Result.max_error
<1> DEFINE mean == CalculateArithmeticMean(experts)
           median == CalculateMedian(experts)
<1>1. Result = FromCalculations(mean, median, Len(experts))
  BY Answer DEF CalculateCompromise
<1>2. mean \in Fuzzy(6) /\ median \in Fuzzy(6)
  BY Answer, CompromiseParts
<1> HIDE DEF mean, median
<1> QED
  BY <1>1, <1>2, CompromiseExact

(* From the invariant: the types.                                           *)
LEMMA TypesImplied ==
  IInv => TypeOK
<1> SUFFICES ASSUME IInv PROVE TypeOK
  OBVIOUS
<1>1. experts \in Seq(ExpertInput) /\ Len(experts) <= MaxExperts
  BY DEF IInv, Listed
<1>2. response.status \in {"none", "error", "ok"}
  BY DEF IInv, AnswerIsResult, NoResponse, ServerError, Success
<1> QED
  BY <1>1, <1>2, ResultExact DEF TypeOK

(* The experts and the answers stay in their domains, and every fuzzy       *)
(* number of an answer is ordered: the constructor of FuzzyTriangleNumber,  *)
(* called for the mean, the median and the best compromise, never raises.   *)
THEOREM TypeCorrect ==
  Spec => []TypeOK
  BY Invariant, TypesImplied, PTL

(* From the invariant: the error.                                           *)
LEMMA ErrorImplied ==
  IInv => MaxErrorIsDistance
<1> SUFFICES ASSUME IInv, Answered PROVE MaxErrorIsDistance
  BY DEF MaxErrorIsDistance
<1> QED
  BY ResultExact DEF MaxErrorIsDistance

(* FuzzyTriangleNumber and the result: for any experts and numbers the      *)
(* maximum error is the distance of the compromise from the mean and from   *)
(* the median alike (BeCoMeResult.from_calculations).                       *)
THEOREM ErrorCorrect ==
  Spec => []MaxErrorIsDistance
  BY Invariant, ErrorImplied, PTL

(* Distinct experts have distinct opinions.                                 *)
LEMMA DistinctSorted ==
  ASSUME IInv, experts # <<>>, DistinctExperts
  PROVE  Distinct(SortByCentroid(experts), Len(experts))
<1>1. Distinct(experts, Len(experts))
  BY ExpertsWhole DEF Distinct, DistinctExperts
<1> QED
  BY <1>1, ExpertsWhole, SortedDistinct

(* Without ties, also after the sort.                                       *)
LEMMA UntiedSorted ==
  ASSUME IInv, experts # <<>>, DistinctCentroids
  PROVE  /\ Untied(experts, Len(experts))
         /\ Untied(SortByCentroid(experts), Len(experts))
<1> DEFINE n == Len(experts)
           s == SortByCentroid(experts)
<1>1. OpinionList(experts, n) /\ DOMAIN experts = 1..n
  BY ExpertsWhole, WholeListIs
<1>2. \A k \in 1..n : /\ s[k] = experts[PlaceOf(experts, k)] /\ PlaceOf(experts, k) \in 1..n
                      /\ Rank(experts, PlaceOf(experts, k)) = k
  BY <1>1, SortedIs, PlaceOfRank
<1> HIDE DEF s, n
<1>3. ASSUME NEW k \in 1..n, NEW m \in 1..n, At(s, k) = At(s, m) PROVE k = m
  <2>1. PlaceOf(experts, k) = PlaceOf(experts, m)
    BY <1>1, <1>2, <1>3 DEF DistinctCentroids, At
  <2> QED
    BY <1>2, <2>1
<1>4. Untied(experts, n)
  BY <1>1 DEF Untied, DistinctCentroids, At
<1> QED
  BY <1>3, <1>4 DEF Untied, s, n

(* From the invariant: an answer for distinct experts.                      *)
LEMMA AnsweredImplied ==
  IInv => DistinctExpertsAnswered
<1> SUFFICES ASSUME IInv, DistinctExperts, response.status = "error" PROVE FALSE
  BY DEF DistinctExpertsAnswered
<1>1. experts # <<>> /\ MedianFails(SortByCentroid(experts))
  BY DEF IInv, AnswerIsResult, NoResponse, Success
<1> QED
  BY <1>1, ExpertsWhole, Sorted, DistinctSorted, DistinctFound

(* Distinct experts always get an answer: the second search of              *)
(* EvenMedianStrategy never meets an empty list.                            *)
THEOREM AnsweredCorrect ==
  Spec => []DistinctExpertsAnswered
  BY Invariant, AnsweredImplied, PTL

(* The median of an answer.                                                 *)
LEMMA ResultMedian ==
  ASSUME IInv, Answered
  PROVE  Result.median = MedianOfSorted(SortByCentroid(experts))
  BY Answer, MedianIs DEF CalculateCompromise, FromCalculations

(* From the invariant: the middle interval.                                 *)
LEMMA BetweenImplied ==
  IInv => MedianStaysInMiddle
<1> SUFFICES ASSUME IInv, Answered, DistinctExperts PROVE MedianStaysInMiddle
  BY DEF MedianStaysInMiddle
<1> DEFINE s == SortByCentroid(experts)
           n == Len(experts)
<1>1. SortedList(s, n) /\ Distinct(s, n)
  BY Answer, DistinctSorted
<1>2. /\ At(s, Lower(n)) <= Centroid(MedianOfSorted(s))
      /\ Centroid(MedianOfSorted(s)) <= At(s, Upper(n))
  BY <1>1, MedianBetween
<1> QED
  BY <1>2, ParityMiddle, ResultMedian DEF MedianStaysInMiddle, Middle, At

(* Distinct experts: whatever the ties, the centroid of the median is       *)
(* between the two in the middle (MedianCalculationStrategy).               *)
THEOREM BetweenCorrect ==
  Spec => []MedianStaysInMiddle
  BY Invariant, BetweenImplied, PTL

(* From the invariant: the middle opinions.                                 *)
LEMMA MiddleImplied ==
  IInv => MedianIsMiddle
<1> SUFFICES ASSUME IInv, Answered, DistinctCentroids PROVE MedianIsMiddle
  BY DEF MedianIsMiddle
<1> DEFINE s == SortByCentroid(experts)
           n == Len(experts)
<1>1. SortedList(s, n) /\ Untied(s, n)
  BY Answer, UntiedSorted
<1>2. MedianOfSorted(s) = Average(<<s[Lower(n)].opinion, s[Upper(n)].opinion>>)
  BY <1>1, MedianMiddle
<1> QED
  BY <1>2, ParityMiddle, ResultMedian DEF MedianIsMiddle, Middle

(* Without ties the search of the strategies finds the middle of the sorted *)
(* list, as the method has it, whatever the parity.                         *)
THEOREM MiddleCorrect ==
  Spec => []MedianIsMiddle
  BY Invariant, MiddleImplied, PTL

(* From the invariant: the order.                                           *)
LEMMA OrderImplied ==
  IInv => OrderIndependent
<1> SUFFICES ASSUME IInv, Answered, DistinctCentroids,
                    NEW p \in Bijection(DOMAIN experts, DOMAIN experts)
             PROVE  CalculateCompromise([i \in DOMAIN experts |-> experts[p[i]]]) = Result
  BY DEF OrderIndependent
<1>1. /\ WholeList(experts, Len(experts)) /\ Untied(experts, Len(experts))
      /\ DOMAIN experts = 1..Len(experts) /\ Result = CalculateCompromise(experts)
  BY Answer, UntiedSorted
<1>2. CalculateCompromise(Permuted(experts, p)) = CalculateCompromise(experts)
  BY <1>1, CompromisePermuted
<1> QED
  BY <1>1, <1>2 DEF Permuted

(* Without ties the order of the opinions does not matter, for lists of any *)
(* length and all their permutations: what the SELECT without ORDER BY of   *)
(* CalculationService relies on.                                            *)
THEOREM OrderCorrect ==
  Spec => []OrderIndependent
  BY Invariant, OrderImplied, PTL

-------------------------------------------------------------------------------
(* The recalculation of a project.                                          *)

(* The Likert values are on the Likert scale, and there are some.           *)
LikertScaled ==
    /\ LikertValues \in Seq(Int) /\ LikertValues # <<>>
    /\ \A i \in DOMAIN LikertValues :
           LikertScaleMin <= LikertValues[i] /\ LikertValues[i] <= LikertScaleMax

(* The interpreter finds one of them: the nearest, and the first of those.  *)
LEMMA Interpreted ==
  ASSUME LikertScaled, NEW m, Centroid(m) \in Int
  PROVE  \E i \in DOMAIN LikertValues : Interpret(m) = LikertValues[i]
<1> DEFINE distance(i) == Abs(LikertValues[i] - Centroid(m))
           First(i) == \A j \in DOMAIN LikertValues :
                           \/ distance(i) < distance(j)
                           \/ distance(i) = distance(j) /\ i <= j
           D == {distance(i) : i \in DOMAIN LikertValues}
<1>1. DOMAIN LikertValues \subseteq Nat /\ DOMAIN LikertValues # {}
  BY DEF LikertScaled
<1>2. \A i \in DOMAIN LikertValues : distance(i) \in Nat
  BY DEF LikertScaled, Abs
<1>3. Interpret(m) = LikertValues[CHOOSE i \in DOMAIN LikertValues : First(i)]
  BY DEF Interpret
<1> HIDE DEF distance
<1>4. D \subseteq Nat /\ D # {}
  BY <1>1, <1>2
<1> HIDE DEF D
<1>5. PICK d \in D : \A e \in D : d <= e
  BY <1>4, NatMin
<1> DEFINE P == {i \in DOMAIN LikertValues : distance(i) = d}
<1>6. P \subseteq Nat /\ P # {}
  BY <1>1, <1>5 DEF D
<1> HIDE DEF P
<1>7. PICK i \in P : \A j \in P : i <= j
  BY <1>6, NatMin
<1>8. i \in DOMAIN LikertValues /\ distance(i) = d
  BY <1>7 DEF P
<1>9. ASSUME NEW j \in DOMAIN LikertValues
      PROVE  distance(i) < distance(j) \/ (distance(i) = distance(j) /\ i <= j)
  <2>1. d <= distance(j) /\ d \in Nat
    BY <1>4, <1>5 DEF D
  <2>2. distance(j) = d => i <= j
    BY <1>7 DEF P
  <2> QED
    BY <1>2, <1>8, <2>1, <2>2
<1>10. First(i)
  BY <1>9
<1> HIDE DEF First
<1> QED
  BY <1>3, <1>8, <1>10

(* Numbers of finitely many users, at most MaxExperts of them, on the scale *)
(* of the project: what the opinions of a project are.                      *)
Opinionated(numbers, users, scale) ==
    /\ IsFiniteSet(users) /\ users # {} /\ Cardinality(users) <= MaxExperts
    /\ scale.min \in Int /\ scale.max \in Int
    /\ numbers \in [users -> Fuzzy(Unit)]
    /\ \A u \in users : OnScale(numbers[u], scale.min, scale.max)

(* However the database orders them they are a list of distinct opinions.   *)
LEMMA ExpertListIs ==
  ASSUME NEW numbers, NEW users, NEW scale, Opinionated(numbers, users, scale),
         NEW list \in ExpertLists(numbers)
  PROVE  LET n == Cardinality(users)
         IN  WholeList(list, n) /\ Distinct(list, n) /\ AllOnScale(list, n, scale.min, scale.max)
<1> DEFINE n == Cardinality(users)
<1>1. DOMAIN numbers = users
  BY DEF Opinionated
<1>2. n \in Nat /\ n # 0
  BY FS_CardinalityType, FS_EmptySet DEF Opinionated
<1>3. PICK order \in Bijection(1..n, users) :
          list = [i \in DOMAIN order |-> [expert_id |-> order[i], opinion |-> numbers[order[i]]]]
  BY <1>1 DEF ExpertLists
<1>4. /\ order \in [1..n -> users]
      /\ \A i, j \in 1..n : order[i] = order[j] => i = j
  BY DEF Bijection, Injection, IsInjective
<1> HIDE DEF n
<1>5. \A i \in 1..n : /\ list[i].expert_id = order[i] /\ order[i] \in users
                       /\ list[i].opinion = numbers[order[i]]
  BY <1>3, <1>4
<1>6. DOMAIN list = 1..n /\ Len(list) = n
  BY <1>2, <1>3, <1>4
<1>7. n \in 1..MaxExperts
  BY <1>2, UnitAssumption DEF Opinionated, n
<1>8. WholeList(list, n)
  BY <1>5, <1>6, <1>7 DEF WholeList, Opinionated
<1>9. Distinct(list, n)
  BY <1>4, <1>5 DEF Distinct
<1>10. AllOnScale(list, n, scale.min, scale.max)
  BY <1>5 DEF AllOnScale, Opinionated
<1> QED
  BY <1>8, <1>9, <1>10 DEF n

(* A result on the scale.                                                   *)
ResultFits(r, lo, hi) ==
    /\ Fits(r.arithmetic_mean, lo, hi) /\ Fits(r.median, lo, hi)
    /\ Fits(r.best_compromise, lo, hi)
    /\ r.max_error \in Nat /\ r.num_experts \in Nat \ {0}

(* Its row.                                                                 *)
LEMMA RowFits ==
  ASSUME LikertScaled, NEW r, NEW lo, NEW hi, ResultFits(r, lo, hi), NEW scale,
         NEW row, row = ResultOf(r, scale)
  PROVE  /\ row \in [CalculationResultColumns -> Int \cup {NoLikert}]
         /\ CalculationResultCheck(row)
<1> DEFINE likert == IF IsLikertScale(scale)
                     THEN Interpret(r.best_compromise) ELSE NoLikert
<1>1. row = ToDbModel(r, likert)
  BY DEF ResultOf
<1>2. /\ likert \in Int \cup {NoLikert}
      /\ likert # NoLikert => LikertScaleMin <= likert /\ likert <= LikertScaleMax
  <2>1. Centroid(r.best_compromise) \in Int
    BY DEF ResultFits, Fits
  <2>2. PICK i \in DOMAIN LikertValues : Interpret(r.best_compromise) = LikertValues[i]
    BY <2>1, Interpreted
  <2>3. /\ LikertValues[i] \in Int
        /\ LikertScaleMin <= LikertValues[i] /\ LikertValues[i] <= LikertScaleMax
    BY DEF LikertScaled
  <2> QED
    BY <2>2, <2>3
<1> HIDE DEF likert
<1>3. /\ row.likert_value = likert /\ row.num_experts = r.num_experts
      /\ row.max_error = r.max_error
      /\ row.best_compromise_lower = r.best_compromise.lower
      /\ row.best_compromise_peak = r.best_compromise.peak
      /\ row.best_compromise_upper = r.best_compromise.upper
      /\ row.arithmetic_mean_lower = r.arithmetic_mean.lower
      /\ row.arithmetic_mean_peak = r.arithmetic_mean.peak
      /\ row.arithmetic_mean_upper = r.arithmetic_mean.upper
      /\ row.median_lower = r.median.lower
      /\ row.median_peak = r.median.peak
      /\ row.median_upper = r.median.upper
  BY <1>1 DEF ToDbModel
<1>4. /\ r.best_compromise.lower \in Int /\ r.best_compromise.peak \in Int
      /\ r.best_compromise.upper \in Int
      /\ r.arithmetic_mean.lower \in Int /\ r.arithmetic_mean.peak \in Int
      /\ r.arithmetic_mean.upper \in Int
      /\ r.median.lower \in Int /\ r.median.peak \in Int /\ r.median.upper \in Int
      /\ r.max_error \in Int /\ r.num_experts \in Int
  BY DEF ResultFits, Fits
<1>5. row \in [CalculationResultColumns -> Int \cup {NoLikert}]
  BY <1>1, <1>2, <1>4 DEF ToDbModel, CalculationResultColumns
<1>6. CalculationResultCheck(row)
  BY <1>2, <1>3 DEF CalculationResultCheck, ResultFits, Fits
<1> QED
  BY <1>5, <1>6

(* CalculationService.recalculate: whatever opinions a project has and in   *)
(* whatever order the database returns them, the calculator answers, the    *)
(* row satisfies the CHECK constraints of calculation_results, counts the   *)
(* opinions and lies on the scale of the project.  What Opinions assumes of *)
(* the calculator.                                                          *)
THEOREM RecalculationAnswers ==
  ASSUME LikertScaled, NEW numbers, NEW users, NEW scale, Opinionated(numbers, users, scale)
  PROVE  /\ ResultsInAnyOrder(numbers, scale) # {}
         /\ \A list \in ExpertLists(numbers) : ~MedianFails(SortByCentroid(list))
         /\ \A row \in ResultsInAnyOrder(numbers, scale) :
               /\ row \in [CalculationResultColumns -> Int \cup {NoLikert}]
               /\ CalculationResultCheck(row)
               /\ row.num_experts = Cardinality(users)
               /\ scale.min <= row.best_compromise_lower
               /\ row.best_compromise_upper <= scale.max
<1> DEFINE n == Cardinality(users)
<1>1. ExpertLists(numbers) # {}
  <2>1. DOMAIN numbers = users
    BY DEF Opinionated
  <2>2. Bijection(1..n, users) # {}
    BY FS_CardinalityType DEF Opinionated, ExistsBijection
  <2> QED
    BY <2>1, <2>2 DEF ExpertLists
<1>2. \A list \in ExpertLists(numbers) : ~MedianFails(SortByCentroid(list))
  BY ExpertListIs, Sorted, SortedDistinct, DistinctFound
<1>3. ASSUME NEW row \in ResultsInAnyOrder(numbers, scale)
      PROVE  /\ row \in [CalculationResultColumns -> Int \cup {NoLikert}]
             /\ CalculationResultCheck(row)
             /\ row.num_experts = n
             /\ scale.min <= row.best_compromise_lower
             /\ row.best_compromise_upper <= scale.max
  <2>1. PICK list \in ExpertLists(numbers) : row = ResultOf(CalculateCompromise(list), scale)
    BY <1>3 DEF ResultsInAnyOrder
  <2>2. /\ WholeList(list, n) /\ Distinct(SortByCentroid(list), n)
        /\ AllOnScale(list, n, scale.min, scale.max)
        /\ scale.min \in Int /\ scale.max \in Int
    BY ExpertListIs, SortedDistinct DEF Opinionated
  <2> DEFINE r == CalculateCompromise(list)
  <2>3. n \in Nat \ {0}
    BY <2>2, WholeListIs
  <2>4. ResultFits(r, scale.min, scale.max) /\ r.num_experts = n
    BY <2>2, <2>3, ResultOnScale DEF ResultFits
  <2> HIDE DEF r, n
  <2>5. row = ResultOf(r, scale)
    BY <2>1 DEF r
  <2>6. /\ row \in [CalculationResultColumns -> Int \cup {NoLikert}]
        /\ CalculationResultCheck(row)
    BY <2>4, <2>5, RowFits
  <2>7. /\ row.num_experts = r.num_experts
        /\ row.best_compromise_lower = r.best_compromise.lower
        /\ row.best_compromise_upper = r.best_compromise.upper
    BY <2>5 DEF ResultOf, ToDbModel
  <2> QED
    BY <2>4, <2>6, <2>7 DEF ResultFits, Fits
<1>4. ResultsInAnyOrder(numbers, scale) # {}
  BY <1>1 DEF ResultsInAnyOrder
<1> QED
  BY <1>2, <1>3, <1>4

===============================================================================
