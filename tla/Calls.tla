--------------------------------- MODULE Calls ---------------------------------
(***************************************************************************)
(* Asynchronous calls of a page under way, as a sequence in the order of    *)
(* their start: any of them may end first.                                  *)
(***************************************************************************)
EXTENDS Naturals, Sequences, SequencesExt

(* The i-th load ends: those that started before it would undo it. *)
AfterLoad(loads, i) ==
    RemoveAt([j \in DOMAIN loads |-> IF j < i THEN [loads[j] EXCEPT !.overtaken = TRUE] ELSE loads[j]], i)

===============================================================================
