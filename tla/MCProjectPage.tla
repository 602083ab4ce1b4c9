----------------------------- MODULE MCProjectPage -----------------------------
EXTENDS ProjectPage

CONSTANTS p1, p2

(* Bounds: I write an opinion as an expert, in either project, or see to    *)
(* the team of the first; the second project is visited up to one change.   *)
VARIABLE task

Low == [lower |-> 0, peak |-> 0, upper |-> 1]
High == [lower |-> 0, peak |-> 1, upper |-> 1]
TooHigh == [lower |-> 0, peak |-> 1, upper |-> 2]

MCEstimates == {Low, High, TooHigh}
MCTyped == {Low, TooHigh}
MCTheirs == {High}

(* A project that I or another created, and one in which I have an opinion. *)
CreatedBy(admin) ==
    [Gone EXCEPT !.exists = TRUE,
        !.role = [u \in People |-> IF u = admin THEN "admin" ELSE IF u = Me THEN "expert" ELSE "none"]]
MCGiven ==
    [p \in {p1, p2} |-> IF p = p1 THEN {CreatedBy(u) : u \in People}
                       ELSE {[CreatedBy(u) EXCEPT !.opinion[Me] = High] : u \in Others}]

MCInit ==
    /\ Init /\ task \in {"opinion", "team"}
    /\ task = "opinion" => server[p1].role[Me] = "expert"
MCNext ==
    /\ Next
    /\ task = "opinion" => dialog' = NoDialog /\ \A i \in DOMAIN requests' : requests'[i].kind \notin AdminKinds
    /\ task = "team" => route' # p2 /\ ~typed' /\ \A i \in DOMAIN requests' : requests'[i].kind \in AdminKinds
    /\ route' = p2 => changes' <= 1
    /\ UNCHANGED task
MCSpec == MCInit /\ [][MCNext]_<<vars, task>> /\ Fairness
===============================================================================
