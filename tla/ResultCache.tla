----------------------------- MODULE ResultCache -----------------------------
(***************************************************************************)
(* What the cached result of a project promises (CalculationResult, "Cached *)
(* BeCoMe calculation result for a project"): after each change of the      *)
(* opinions it is refreshed before the next change, and a refreshed result  *)
(* is the one of the opinions that are stored.                              *)
(***************************************************************************)

CONSTANTS
    Users, Numbers,         \* who submits opinions, and what an opinion is
    Scales, NoProject,
    IsResultOf(_, _, _)     \* whether a result is the one of some opinions

VARIABLES opinions, scale, result, dirty

vars == <<opinions, scale, result, dirty>>

Clean == IsResultOf(result, opinions, scale)

Init ==
    /\ DOMAIN opinions = {}
    /\ scale \in Scales
    /\ ~dirty /\ Clean

(* An opinion is submitted, updated or deleted. *)
Change ==
    /\ ~dirty
    /\ DOMAIN opinions' \subseteq Users
    /\ \A u \in DOMAIN opinions' : opinions'[u] \in Numbers
    /\ dirty'
    /\ UNCHANGED <<scale, result>>

(* The result catches up with the opinions. *)
Refresh ==
    /\ dirty /\ ~dirty'
    /\ IsResultOf(result', opinions, scale)
    /\ UNCHANGED <<opinions, scale>>

(* The project is deleted. *)
Clear ==
    /\ scale # NoProject
    /\ scale' = NoProject
    /\ DOMAIN opinions' = {}
    /\ IsResultOf(result', opinions', scale')
    /\ UNCHANGED dirty

Next == Change \/ Refresh \/ Clear

(* The refresh is not put off for ever. *)
Spec == Init /\ [][Next]_vars /\ []<>~dirty

===============================================================================
