------------------------------ MODULE MCOpinions ------------------------------
(* Opinions with the calculation of BeCoMe, for TLC.                        *)
EXTENDS Opinions, Recalculation, TLC

Number(lower, peak, upper) ==
    [lower |-> lower * Unit, peak |-> peak * Unit, upper |-> upper * Unit]

MCBounds == {x * Unit : x \in {0, 25, 50, 100}}

(* Updates of one opinion whose columns merge into a new number, or into    *)
(* one the CHECK constraint refuses.                                        *)
TearingInputs == {Number(0, 50, 100), Number(0, 25, 100), Number(25, 50, 100)}
Clashing == {Number(0, 50, 100), Number(0, 25, 100), Number(50, 50, 100)}
TwoInputs == {Number(0, 50, 100), Number(0, 25, 50)}

LikertScale == [min |-> 0, max |-> 100 * Unit]
HalfScale == [min |-> 0, max |-> 50 * Unit]
OneScale == {LikertScale}
TwoScales == {LikertScale, HalfScale}

MCLikertValues == [i \in 1..5 |-> (i - 1) * 25 * Unit]

(* Every sum of the calculation lies on a grid below the scale's maximum.    *)
MCResultValues == (0 .. 100 * Unit) \cup {NoLikert}

(* A calculation that loses nothing: the columns of a result are the        *)
(* opinions that it was made of.                                             *)
Provenance(numbers, s) ==
    {[u \in Users |-> IF u \in DOMAIN numbers THEN numbers[u] ELSE NoLikert]}
NumberOrNone == Numbers \cup {NoLikert}
NoCheck(row) == TRUE

Symmetry == Permutations(Requests)

===============================================================================
