---------------------------- MODULE Recalculation ----------------------------
(***************************************************************************)
(* CalculationService.recalculate between its SELECT and its UPDATE: the    *)
(* opinions of a project become a list of experts in the order in which the *)
(* database returns them, the calculator answers, and BeCoMeResultMapper    *)
(* lays the answer out in the columns of calculation_results.               *)
(***************************************************************************)
EXTENDS BeCoMe

CONSTANTS NoLikert   \* NULL in the Likert columns

(* settings.likert_scale_min and likert_scale_max. *)
LikertScaleMin == 0
LikertScaleMax == 100 * Unit

(* _is_likert_scale *)
IsLikertScale(scale) == scale.min = LikertScaleMin /\ scale.max = LikertScaleMax

(* BeCoMeResultMapper.to_db_model, update_db_model.  likert_decision is a   *)
(* function of likert_value and left out.                                   *)
ToDbModel(result, likert_value) ==
    [ best_compromise_lower |-> result.best_compromise.lower,
      best_compromise_peak  |-> result.best_compromise.peak,
      best_compromise_upper |-> result.best_compromise.upper,
      arithmetic_mean_lower |-> result.arithmetic_mean.lower,
      arithmetic_mean_peak  |-> result.arithmetic_mean.peak,
      arithmetic_mean_upper |-> result.arithmetic_mean.upper,
      median_lower          |-> result.median.lower,
      median_peak           |-> result.median.peak,
      median_upper          |-> result.median.upper,
      max_error             |-> result.max_error,
      num_experts           |-> result.num_experts,
      likert_value          |-> likert_value ]

CalculationResultColumns ==
    { "best_compromise_lower", "best_compromise_peak", "best_compromise_upper",
      "arithmetic_mean_lower", "arithmetic_mean_peak", "arithmetic_mean_upper",
      "median_lower", "median_peak", "median_upper",
      "max_error", "num_experts", "likert_value" }

(* The CHECK constraints of calculation_results. *)
CalculationResultCheck(row) ==
    /\ row.best_compromise_lower <= row.best_compromise_peak
    /\ row.best_compromise_peak <= row.best_compromise_upper
    /\ row.arithmetic_mean_lower <= row.arithmetic_mean_peak
    /\ row.arithmetic_mean_peak <= row.arithmetic_mean_upper
    /\ row.median_lower <= row.median_peak
    /\ row.median_peak <= row.median_upper
    /\ row.num_experts > 0
    /\ row.likert_value # NoLikert =>
           LikertScaleMin <= row.likert_value /\ row.likert_value <= LikertScaleMax

(* The experts of a project: the SELECT of the opinions has no ORDER BY. *)
ExpertLists(numbers) ==
    { [i \in DOMAIN order |-> [expert_id |-> order[i], opinion |-> numbers[order[i]]]] :
          order \in Bijection(1..Cardinality(DOMAIN numbers), DOMAIN numbers) }

(* What recalculate hands to _save_result. *)
ResultOf(result, scale) ==
    ToDbModel(result, IF IsLikertScale(scale)
                      THEN Interpret(result.best_compromise) ELSE NoLikert)

ResultsInAnyOrder(numbers, scale) ==
    { ResultOf(result, scale) :
          result \in {CalculateCompromise(experts) : experts \in ExpertLists(numbers)} }

===============================================================================
