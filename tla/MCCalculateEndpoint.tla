-------------------------- MODULE MCCalculateEndpoint --------------------------
(***************************************************************************)
(* CalculateEndpoint for TLC: lists of up to four experts, with numbers     *)
(* chosen so that centroids tie, with and without equal components.         *)
(***************************************************************************)
EXTENDS CalculateEndpoint, TLC

MCUnit == 144

MCFuzzy(l, p, u) == [lower |-> l * MCUnit, peak |-> p * MCUnit, upper |-> u * MCUnit]

\* The first two share the centroid 1; the others have 3, 5 and 9.
MCNumbers == {MCFuzzy(0, 1, 2), MCFuzzy(1, 1, 1), MCFuzzy(2, 2, 5),
              MCFuzzy(0, 3, 12), MCFuzzy(9, 9, 9)}

MCLikertValues == <<0, 25 * MCUnit, 50 * MCUnit, 75 * MCUnit, 100 * MCUnit>>

MCSymmetry == Permutations(ExpertIds)

===============================================================================
