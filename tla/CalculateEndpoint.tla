--------------------------- MODULE CalculateEndpoint ---------------------------
(***************************************************************************)
(* POST /api/v1/calculate: a client assembles a list of experts, the        *)
(* endpoint answers, the client may start over.  The names are the          *)
(* client's choice: nothing makes them distinct.  The properties are those  *)
(* of the BeCoMe method itself, over every list the endpoint accepts.       *)
(***************************************************************************)
EXTENDS BeCoMe

CONSTANTS
    ExpertIds,      \* names a request may give its experts
    Numbers         \* fuzzy triangular numbers a request may hold

ASSUME NumbersAssumption ==
    /\ Numbers \subseteq [lower : Int, peak : Int, upper : Int]
    /\ \A n \in Numbers :
        /\ Ordered(n)
        /\ \A x \in {n.lower, n.peak, n.upper} : x % Unit = 0

VARIABLES
    experts,        \* the list of the request, in its order
    response        \* what the endpoint answered, NoResponse before it does

vars == <<experts, response>>

NoResponse == [status |-> "none"]
ServerError == [status |-> "error"]
Success(r) == [status |-> "ok", result |-> r]

ExpertInput == [expert_id : ExpertIds, opinion : Numbers]

Init == experts = <<>> /\ response = NoResponse

AddExpert(e) ==
    /\ response = NoResponse
    /\ Len(experts) < MaxExperts
    /\ experts' = Append(experts, e)
    /\ UNCHANGED response

Calculate ==
    /\ response = NoResponse
    /\ experts # <<>>
    /\ response' = IF MedianFails(SortByCentroid(experts))
                   THEN ServerError
                   ELSE Success(CalculateCompromise(experts))
    /\ UNCHANGED experts

NewRequest ==
    /\ response # NoResponse
    /\ experts' = <<>>
    /\ response' = NoResponse

Next == (\E e \in ExpertInput : AddExpert(e)) \/ Calculate \/ NewRequest

Spec == Init /\ [][Next]_vars

-------------------------------------------------------------------------------
(* What the results owe to the method.                                      *)

Answered == response.status = "ok"
Result == response.result
Middle(i) == SortByCentroid(experts)[i].opinion
LowerMiddle == (Len(experts) + 1) \div 2
UpperMiddle == (Len(experts) \div 2) + 1

DistinctExperts ==
    \A i, j \in DOMAIN experts :
        experts[i].expert_id = experts[j].expert_id => i = j
DistinctCentroids ==
    \A i, j \in DOMAIN experts :
        Centroid(experts[i].opinion) = Centroid(experts[j].opinion) => i = j

(* The experts and the answer stay in their domains and every fuzzy number   *)
(* of an answer is ordered (FuzzyTriangleNumber.__init__ never raises).      *)
TypeOK ==
    /\ experts \in Seq(ExpertInput) /\ Len(experts) <= MaxExperts
    /\ response.status \in {"none", "error", "ok"}
    /\ Answered => /\ Ordered(Result.best_compromise)
                   /\ Ordered(Result.arithmetic_mean)
                   /\ Ordered(Result.median)
                   /\ Result.max_error >= 0
                   /\ Result.num_experts = Len(experts)

(* When no two experts share a centroid, searching for the opinions nearest  *)
(* to the median centroid finds the middle of the sorted list: the median of *)
(* the method, whose parity cases the two strategies implement.              *)
MedianIsMiddle ==
    Answered /\ DistinctCentroids =>
        Result.median = Average(<<Middle(LowerMiddle), Middle(UpperMiddle)>>)

(* When the experts are distinct, ties may pick another pair than the middle *)
(* one, but never one whose centroid leaves the middle interval.             *)
MedianStaysInMiddle ==
    Answered /\ DistinctExperts =>
        /\ Centroid(Middle(LowerMiddle)) <= Centroid(Result.median)
        /\ Centroid(Result.median) <= Centroid(Middle(UpperMiddle))

(* The maximum error is how far the best compromise lies from both the mean  *)
(* and the median it was made of.                                            *)
MaxErrorIsDistance ==
    Answered =>
        LET best == Centroid(Result.best_compromise)
        IN  /\ Abs(best - Centroid(Result.arithmetic_mean)) = Result.max_error
            /\ Abs(best - Centroid(Result.median)) = Result.max_error

(* Without ties the order of the list does not matter: CalculationService    *)
(* reads the opinions of a project with a SELECT that has no ORDER BY.       *)
OrderIndependent ==
    Answered /\ DistinctCentroids =>
        \A p \in Bijection(DOMAIN experts, DOMAIN experts) :
            CalculateCompromise([i \in DOMAIN experts |-> experts[p[i]]]) = Result

(* Distinct experts always get an answer: the second search of the even      *)
(* strategy has somebody left to find.                                       *)
DistinctExpertsAnswered ==
    DistinctExperts => response.status # "error"

-------------------------------------------------------------------------------
(* What the documentation says of every even list, and the code does not do. *)

(* EvenMedianStrategy, docs/method-description.md Case B: the average of the *)
(* two middle opinions of the list sorted by centroid.                       *)
EvenMedianIsMiddle ==
    Answered /\ DistinctExperts /\ Len(experts) % 2 = 0 =>
        Result.median = Average(<<Middle(LowerMiddle), Middle(UpperMiddle)>>)

===============================================================================
