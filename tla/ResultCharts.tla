------------------------------ MODULE ResultCharts ------------------------------
(***************************************************************************)
(* What the page of a project draws of the opinions and the result that it  *)
(* has loaded: the numbers and the agreement (ResultsSection), the triangles *)
(* on the scale (TriangleVisualization) and the centroids on an axis with    *)
(* three lines (CentroidBarChart).  Opinions and result come from two GETs,  *)
(* so that the result may be of the opinions before or after a change.       *)
(*                                                                         *)
(* A place on an axis is kept multiplied by what the code divides by.        *)
(***************************************************************************)
EXTENDS BeCoMe

CONSTANTS
    Experts,
    Estimates,              \* fuzzy numbers
    ScaleMin, ScaleMax,     \* of the project, scaled by Unit as are the estimates
    NoResult

VARIABLES
    stored,         \* the opinions, in the order of their submission
    before,         \* and before the last change
    opinions,       \* what the page has loaded
    result,
    coherent,       \* history: the result is of the opinions
    showIndividual,
    tab             \* triangle or centroid

chartsVars == <<stored, before, opinions, result, coherent, showIndividual, tab>>

ScaleRange == ScaleMax - ScaleMin

(* Whole numbers on the scale of the project, and few enough experts. *)
ASSUME ChartsAssumption ==
    /\ {ScaleMin, ScaleMax} \subseteq Nat /\ ScaleMin < ScaleMax
    /\ Estimates \subseteq [lower : Int, peak : Int, upper : Int]
    /\ \A e \in Estimates :
        /\ Ordered(e) /\ ScaleMin <= e.lower /\ e.upper <= ScaleMax
        /\ \A x \in {e.lower, e.peak, e.upper} : x % Unit = 0
    /\ IsFiniteSet(Experts) /\ Cardinality(Experts) <= MaxExperts

-------------------------------------------------------------------------------
(* ResultsSection                                                           *)

HasResults == result # NoResult /\ opinions # <<>>

(* toFixed(2), in hundredths *)
Hundredths(value) == (100 * value + Unit \div 2) \div Unit

(* The cards of the compromise, the mean and the median. *)
Figures(n) ==
    [ lower |-> Hundredths(n.lower), peak |-> Hundredths(n.peak), upper |-> Hundredths(n.upper),
      centroid |-> Hundredths(Centroid(n)) ]

(* errorPercent, multiplied by the range of the scale *)
ErrorPercent == result.max_error * 100

AgreementLevel ==
    IF ErrorPercent <= 20 * ScaleRange THEN "high" ELSE IF ErrorPercent <= 40 * ScaleRange THEN "moderate" ELSE "low"

(* The value of the progress bar, multiplied likewise. *)
Progress == IF ErrorPercent < 100 * ScaleRange THEN ErrorPercent ELSE 100 * ScaleRange

-------------------------------------------------------------------------------
(* TriangleVisualization                                                    *)

(* Mutant: the scale is taken to begin at 0. *)
ScaleToXFromZero(value) == 40 * ScaleRange + value * 320

(* scaleToX, multiplied by the range of the scale *)
ScaleToX(value) == 40 * ScaleRange + (value - ScaleMin) * 320

Polygon(n) == [left |-> ScaleToX(n.lower), top |-> ScaleToX(n.peak), right |-> ScaleToX(n.upper)]

(* The grey triangles of the opinions, if the box is ticked. *)
IndividualOpinions ==
    IF showIndividual THEN {Polygon(opinions[i].opinion) : i \in DOMAIN opinions} ELSE {}

Results == {result.arithmetic_mean, result.median, result.best_compromise}
ResultTriangles == {Polygon(n) : n \in Results}

CentroidMarker == ScaleToX(Centroid(result.best_compromise))

-------------------------------------------------------------------------------
(* CentroidBarChart                                                         *)

(* The points, the lowest centroid first. *)
ChartData ==
    LET sorted == SortByCentroid(opinions)
    IN  [i \in DOMAIN sorted |-> Hundredths(Centroid(sorted[i].opinion))]

(* Mutant: no room around the points. *)
NoPadding(data) == 0

(* padding, in ten thousandths: 15% of the range of the points, 5 if it is 0 *)
Padding(data) ==
    LET range == data[Len(data)] - data[1]
    IN  IF range = 0 THEN 50000 ELSE 15 * range

(* The domain of the axis, in ten thousandths. *)
AxisFrom(data) == 100 * data[1] - Padding(data)
AxisTo(data) == 100 * data[Len(data)] + Padding(data)

(* The three lines, as they are: nothing rounds them. *)
ReferenceLines == {Centroid(n) : n \in Results}

-------------------------------------------------------------------------------

Place(s, u) == {i \in DOMAIN s : s[i].expert_id = u}

(* Bound: the page loads again after each change. *)
Submit(u, e) ==
    /\ opinions = stored
    /\ before' = stored
    /\ stored' = IF Place(stored, u) = {} THEN Append(stored, [expert_id |-> u, opinion |-> e])
                 ELSE [i \in DOMAIN stored |-> IF i \in Place(stored, u) THEN [stored[i] EXCEPT !.opinion = e]
                                                ELSE stored[i]]
    /\ stored' # stored
    /\ UNCHANGED <<opinions, result, coherent, showIndividual, tab>>

ResultFor(s) == IF s = <<>> THEN NoResult ELSE CalculateCompromise(s)

(* The two GETs of a load, each answered before or after the last change. *)
Load ==
    \E o, r \in {stored, before} :
        /\ opinions' = o
        /\ result' = ResultFor(r)
        /\ coherent' = (o = r)
        /\ UNCHANGED <<stored, before, showIndividual, tab>>

SetShowIndividual ==
    /\ HasResults /\ tab = "triangle"
    /\ showIndividual' = ~showIndividual
    /\ UNCHANGED <<stored, before, opinions, result, coherent, tab>>

SelectTab(t) ==
    /\ HasResults /\ t # tab
    /\ tab' = t
    /\ UNCHANGED <<stored, before, opinions, result, coherent, showIndividual>>

ChartsInit ==
    /\ stored = <<>> /\ before = <<>>
    /\ opinions = <<>> /\ result = NoResult /\ coherent = TRUE
    /\ showIndividual = FALSE /\ tab = "triangle"

ChartsNext ==
    \/ \E u \in Experts, e \in Estimates : Submit(u, e)
    \/ Load \/ SetShowIndividual
    \/ \E t \in {"triangle", "centroid"} : SelectTab(t)

ChartsSpec == ChartsInit /\ [][ChartsNext]_chartsVars

-------------------------------------------------------------------------------
(* Properties.                                                              *)

(* Types of the loaded data. *)
ChartsTypeOK ==
    /\ \A s \in {stored, before, opinions} : \A i \in DOMAIN s :
          s[i].expert_id \in Experts /\ s[i].opinion \in Estimates
    /\ result # NoResult => Ordered(result.best_compromise)
    /\ {coherent, showIndividual} \subseteq BOOLEAN

OnAxes(x) == 40 * ScaleRange <= x /\ x <= 360 * ScaleRange

(* Every triangle is drawn between the two ends of the scale, its corners   *)
(* in order, the marker inside that of the compromise; the figures beside   *)
(* it keep their order though each is rounded by itself; and the bar of the *)
(* error is at most a quarter full, so that the agreement, for all its      *)
(* three levels, is never low: whatever mixture of moments was loaded.      *)
DrawnOnScale ==
    HasResults =>
        /\ \A p \in IndividualOpinions \cup ResultTriangles :
              OnAxes(p.left) /\ OnAxes(p.right) /\ p.left <= p.top /\ p.top <= p.right
        /\ LET p == Polygon(result.best_compromise) IN p.left <= CentroidMarker /\ CentroidMarker <= p.right
        /\ \A n \in Results : LET f == Figures(n) IN Ordered(f) /\ f.lower <= f.centroid /\ f.centroid <= f.upper
        /\ 4 * Progress <= 100 * ScaleRange /\ AgreementLevel # "low"

(* The lines of the mean, the median and the compromise lie within the axis *)
(* that the points span, when the result is of the same opinions: the chart *)
(* library leaves out a line beyond it.                                     *)
LinesOnAxis ==
    HasResults /\ coherent =>
        /\ \A c \in ReferenceLines :
              AxisFrom(ChartData) * Unit <= 10000 * c /\ 10000 * c <= AxisTo(ChartData) * Unit
        /\ result.num_experts = Len(ChartData)

===============================================================================
