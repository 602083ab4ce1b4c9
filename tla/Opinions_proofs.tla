--------------------------- MODULE Opinions_proofs ---------------------------
(***************************************************************************)
(* Proofs about Opinions, for any number of users and requests and for any  *)
(* calculation that answers with rows of the result table.                  *)
(***************************************************************************)
EXTENDS Opinions, TLAPS

(* A request that is about to calculate has loaded a project. *)
ScaleLoaded == \A r \in Requests :
    request[r].pc = "recalculate" => request[r].scale \in Scales

TypeInv == TypeOK /\ ScaleLoaded

-------------------------------------------------------------------------------
(* The operators of the model.                                              *)

(* The opinions of a project are submissions.                               *)
LEMMA NumbersOfType ==
    ASSUME TypeOK
    PROVE  NumbersOf \in Submissions
<1>1. Submitted \in SUBSET Users
  BY DEF Submitted
<1>2. \A u \in Submitted : opinions[u].number \in Numbers
  BY DEF TypeOK, Submitted, OpinionRows
<1>3. NumbersOf \in [Submitted -> Numbers]
  BY <1>2 DEF NumbersOf
<1> QED
  BY <1>1, <1>3 DEF Submissions

(* What a session sees of the opinions are submissions of the same users.   *)
LEMMA SeenType ==
    ASSUME TypeOK, NEW r \in Requests
    PROVE  Seen(r) \in Submissions /\ DOMAIN Seen(r) = Submitted
<1>1. Submitted \in SUBSET Users
  BY DEF Submitted
<1>2. request[r].opinion \in OpinionRows \cup {None}
  BY DEF TypeOK, RequestStates
<1>3. request[r].opinion # None => request[r].opinion.number \in Numbers
  BY <1>2 DEF OpinionRows
<1>4. \A u \in Submitted : opinions[u].number \in Numbers
  BY DEF TypeOK, Submitted, OpinionRows
<1>5. Seen(r) \in [Submitted -> Numbers]
  BY <1>3, <1>4 DEF Seen
<1> QED
  BY <1>1, <1>5 DEF Submissions

(* A session that holds its own row as it is stored sees what is stored.    *)
LEMMA SeenIsStored ==
    ASSUME TypeOK, NEW r \in Requests, request[r].opinion = opinions[request[r].user]
    PROVE  Seen(r) = NumbersOf
BY DEF Seen, NumbersOf, Submitted, TypeOK

(* A row is overwritten entirely when it is still what was loaded.          *)
LEMMA FlushLoaded ==
    ASSUME NEW row \in ResultRows, NEW new \in ResultRows
    PROVE  Flush(row, row, new) = new
BY DEF Flush, ResultRows

(* The calculation yields rows of the result table, on any loaded scale.    *)
LEMMA ComputedType ==
    ASSUME TypeInv, NEW r \in Requests, request[r].pc = "recalculate",
           NEW computed \in IF DOMAIN Seen(r) = {} THEN {None}
                            ELSE Compromises(Seen(r), request[r].scale)
    PROVE  computed \in ResultRows \cup {None}
<1>1. Seen(r) \in Submissions /\ request[r].scale \in Scales
  BY SeenType DEF TypeInv, ScaleLoaded
<1> QED
  BY <1>1, CompromisesAssumption

-------------------------------------------------------------------------------
(* Type correctness.                                                        *)

(* A statement that only reads has to give the request its type.            *)
LEMMA ReadType ==
    ASSUME TypeInv, NEW r \in Requests, NEW new \in RequestStates, Read(r, new),
           new.pc = "recalculate" => new.scale \in Scales
    PROVE  TypeInv'
BY DEF TypeInv, TypeOK, ScaleLoaded, Read, database

(* A request that fails stays in its type.                                  *)
LEMMA FailType ==
    ASSUME TypeInv, NEW r \in Requests, Fail(r)
    PROVE  TypeInv'
<1> DEFINE new == [request[r] EXCEPT !.pc = "failed"]
<1>1. new \in RequestStates /\ new.pc # "recalculate"
  BY DEF TypeInv, TypeOK, RequestStates, PCs
<1> QED
  BY <1>1, ReadType DEF Fail

(* A commit writes a row of its table.                                      *)
LEMMA CommitOpinionType ==
    ASSUME TypeInv, NEW r \in Requests, NEW row \in OpinionRows \cup {None},
           NEW pc \in {"refresh", "reload"}, CommitOpinion(r, row, pc)
    PROVE  TypeInv'
<1> DEFINE new == [request[r] EXCEPT !.pc = pc, !.opinion = row]
<1>1. new \in RequestStates /\ new.pc # "recalculate"
  BY DEF TypeInv, TypeOK, RequestStates, PCs
<1>2. request' = [request EXCEPT ![r] = new]
  BY DEF CommitOpinion
<1> HIDE DEF new
<1> QED
  BY <1>1, <1>2 DEF TypeInv, TypeOK, ScaleLoaded, CommitOpinion, OpinionsChangedBy

(* The same of the result.                                                  *)
LEMMA CommitResultType ==
    ASSUME TypeInv, NEW r \in Requests, NEW stored \in StoredResults \cup {None},
           CommitResult(r, stored)
    PROVE  TypeInv'
<1> DEFINE new == [request[r] EXCEPT !.pc = "done"]
<1>1. new \in RequestStates /\ new.pc # "recalculate"
  BY DEF TypeInv, TypeOK, RequestStates, PCs
<1>2. request' = [request EXCEPT ![r] = new]
  BY DEF CommitResult
<1> HIDE DEF new
<1> QED
  BY <1>1, <1>2 DEF TypeInv, TypeOK, ScaleLoaded, CommitResult, ResultChangedBy

(* No step leads out of the types: neither the merged columns of concurrent  *)
(* updates nor a calculation on a stale snapshot.                            *)
THEOREM TypeStep == TypeInv /\ [Next]_vars => TypeInv'
<1> SUFFICES ASSUME TypeInv, [Next]_vars PROVE TypeInv'
  OBVIOUS
<1> USE DEF TypeInv, TypeOK
<1>1. ASSUME NEW r \in Requests, Start(r) PROVE TypeInv'
  <2>1. \A u \in Users, input \in Inputs \cup {None} :
            NewRequest(u, input) \in RequestStates /\ NewRequest(u, input).pc = "load"
    BY DEF NewRequest, RequestStates, PCs
  <2>2. PICK u \in Users, input \in Inputs \cup {None} : Read(r, NewRequest(u, input))
    BY <1>1 DEF Start, Submit, Delete
  <2> QED
    BY <2>1, <2>2, ReadType
<1>2. ASSUME NEW r \in Requests, LoadOpinion(r) PROVE TypeInv'
  <2> DEFINE new == [request[r] EXCEPT !.pc = "write", !.opinion = opinions[request[r].user]]
  <2>1. new \in RequestStates /\ new.pc # "recalculate"
    BY DEF RequestStates, PCs
  <2> QED
    BY <1>2, <2>1, FailType, ReadType DEF LoadOpinion
<1>3. ASSUME NEW r \in Requests, InsertOpinion(r) PROVE TypeInv'
  <2>1. request[r].input # None => [id |-> r, number |-> request[r].input] \in OpinionRows
    BY InputsAssumption DEF RequestStates, OpinionRows
  <2> QED
    BY <1>3, <2>1, FailType, CommitOpinionType DEF InsertOpinion
<1>4. ASSUME NEW r \in Requests, UpdateOpinion(r) PROVE TypeInv'
  <2> DEFINE stored == opinions[request[r].user]
             merged == Flush(stored.number, request[r].opinion.number, request[r].input)
  <2>1. stored \in OpinionRows \cup {None}
    BY DEF RequestStates
  <2>2. stored # None /\ merged \in Numbers => [stored EXCEPT !.number = merged] \in OpinionRows
    BY <2>1 DEF OpinionRows
  <2>3. CASE Fail(r)
    BY <2>3, FailType
  <2>4. CASE ~Fail(r)
    <3>1. /\ CommitOpinion(r, [stored EXCEPT !.number = merged], "refresh")
          /\ stored # None /\ merged \in Numbers
      BY <1>4, <2>4 DEF UpdateOpinion, StillThere
    <3> HIDE DEF stored, merged
    <3> QED
      BY <3>1, <2>2, CommitOpinionType
  <2> QED
    BY <2>3, <2>4
<1>5. ASSUME NEW r \in Requests, DeleteOpinion(r) PROVE TypeInv'
  <2> DEFINE new == [request[r] EXCEPT !.pc = "reload", !.opinion = None]
  <2>1. new \in RequestStates /\ new.pc # "recalculate"
    BY DEF RequestStates, PCs
  <2> QED
    BY <1>5, <2>1, CommitOpinionType, ReadType DEF DeleteOpinion
<1>6. ASSUME NEW r \in Requests, RefreshOpinion(r) PROVE TypeInv'
  <2> DEFINE new == [request[r] EXCEPT !.pc = "reload", !.opinion = opinions[request[r].user]]
  <2>1. new \in RequestStates /\ new.pc # "recalculate"
    BY DEF RequestStates, PCs
  <2> QED
    BY <1>6, <2>1, FailType, ReadType DEF RefreshOpinion
<1>7. ASSUME NEW r \in Requests, ReloadProject(r) PROVE TypeInv'
  <2> DEFINE new == [request[r] EXCEPT !.pc = "recalculate", !.scale = scale]
  <2>1. new \in RequestStates /\ new.scale = scale
    BY DEF RequestStates, PCs
  <2> QED
    BY <1>7, <2>1, FailType, ReadType DEF ReloadProject
<1>8. ASSUME NEW r \in Requests, Recalculate(r) PROVE TypeInv'
  <2>1. PICK computed \in IF DOMAIN Seen(r) = {} THEN {None}
                          ELSE Compromises(Seen(r), request[r].scale) :
            Read(r, [request[r] EXCEPT !.pc = "save", !.computed = computed])
    BY <1>8 DEF Recalculate
  <2>2. computed \in ResultRows \cup {None}
    BY <1>8, ComputedType DEF Recalculate
  <2> DEFINE new == [request[r] EXCEPT !.pc = "save", !.computed = computed]
  <2>3. new \in RequestStates /\ new.pc # "recalculate"
    BY <2>2 DEF RequestStates, PCs
  <2> QED
    BY <2>1, <2>3, ReadType
<1>9. ASSUME NEW r \in Requests, LoadResult(r) PROVE TypeInv'
  <2> DEFINE pc == IF request[r].computed = None /\ result = None THEN "done" ELSE "store"
             new == [request[r] EXCEPT !.pc = pc, !.existing = result]
  <2>1. pc \in PCs /\ pc # "recalculate"
    BY DEF PCs
  <2>2. Read(r, new)
    BY <1>9 DEF LoadResult
  <2> HIDE DEF pc
  <2>3. new \in RequestStates /\ new.pc # "recalculate"
    BY <2>1 DEF RequestStates
  <2> QED
    BY <2>2, <2>3, ReadType
<1>10. ASSUME NEW r \in Requests, InsertResult(r) PROVE TypeInv'
  <2>1. request[r].computed # None => [id |-> r, row |-> request[r].computed] \in StoredResults
    BY DEF RequestStates, StoredResults
  <2> QED
    BY <1>10, <2>1, FailType, CommitResultType DEF InsertResult
<1>11. ASSUME NEW r \in Requests, UpdateResult(r) PROVE TypeInv'
  <2> DEFINE merged == Flush(result.row, request[r].existing.row, request[r].computed)
  <2>1. result # None /\ merged \in ResultRows => [result EXCEPT !.row = merged] \in StoredResults
    BY DEF StoredResults
  <2>2. CASE Fail(r)
    BY <2>2, FailType
  <2>3. CASE ~Fail(r)
    <3>1. /\ CommitResult(r, [result EXCEPT !.row = merged])
          /\ result # None /\ merged \in ResultRows
      BY <1>11, <2>3 DEF UpdateResult, StillThere
    <3> HIDE DEF merged
    <3> QED
      BY <3>1, <2>1, CommitResultType
  <2> QED
    BY <2>2, <2>3
<1>12. ASSUME NEW r \in Requests, DeleteResult(r) PROVE TypeInv'
  <2> DEFINE new == [request[r] EXCEPT !.pc = "done"]
  <2>1. new \in RequestStates /\ new.pc # "recalculate"
    BY DEF RequestStates, PCs
  <2> QED
    BY <1>12, <2>1, CommitResultType, ReadType DEF DeleteResult
<1>13. ASSUME NEW r \in Requests, Crash(r) PROVE TypeInv'
  BY <1>13, FailType DEF Crash
<1>14. ASSUME NEW u \in Users, Join(u) \/ RemoveMember(u) PROVE TypeInv'
  BY <1>14 DEF Join, RemoveMember, ScaleLoaded
<1>15. CASE DeleteProject
  BY <1>15 DEF DeleteProject, ScaleLoaded
<1>16. ASSUME NEW s \in Scales, UpdateScale(s) PROVE TypeInv'
  BY <1>16 DEF UpdateScale, ScaleLoaded
<1>17. ASSUME NEW u \in Users, DeleteAccount(u) PROVE TypeInv'
  BY <1>17 DEF DeleteAccount, ScaleLoaded
<1>18. CASE UNCHANGED vars
  BY <1>18 DEF vars, ScaleLoaded
<1> QED
  BY <1>1, <1>2, <1>3, <1>4, <1>5, <1>6, <1>7, <1>8, <1>9, <1>10, <1>11, <1>12,
     <1>13, <1>14, <1>15, <1>16, <1>17, <1>18 DEF Next, RequestNext, Serve

(* The tables start empty and no session holds anything.                     *)
LEMMA TypeInit == Init => TypeInv
<1>1. [NewRequest(Owner, None) EXCEPT !.pc = "ready"] \in RequestStates
  BY OwnerAssumption DEF NewRequest, RequestStates, PCs
<1>2. [NewRequest(Owner, None) EXCEPT !.pc = "ready"].pc = "ready"
  BY DEF NewRequest
<1> QED
  BY <1>1, <1>2 DEF Init, TypeInv, TypeOK, ScaleLoaded

(* The types hold, with a loaded project behind every calculation.           *)
LEMMA TypeInvariant == Spec => []TypeInv
BY TypeInit, TypeStep, PTL DEF Spec

(* Whatever the requests and the rest of the API do, every row satisfies the *)
(* constraints of its table and every session holds rows of these types.     *)
THEOREM TypeCorrect == Spec => []TypeOK
BY TypeInvariant, PTL DEF TypeInv

-------------------------------------------------------------------------------
(* Referential integrity.                                                   *)

(* At the start there are members, who have accounts, and no opinion.        *)
LEMMA OrphanInit == Init => NoOrphanRows
BY NoneAssumption DEF Init, NoOrphanRows, Submitted

(* What a request holds from before a deletion cannot bring a row back.      *)
LEMMA OrphanStep == TypeInv /\ NoOrphanRows /\ [Next]_vars => NoOrphanRows'
<1> SUFFICES ASSUME TypeInv, NoOrphanRows, [Next]_vars PROVE NoOrphanRows'
  OBVIOUS
<1> USE DEF NoOrphanRows, Submitted
<1>1. ASSUME UNCHANGED database PROVE NoOrphanRows'
  BY <1>1 DEF database
<1>2. ASSUME NEW r \in Requests, NEW new, Read(r, new) PROVE NoOrphanRows'
  BY <1>1, <1>2 DEF Read
<1>3. ASSUME NEW r \in Requests, InsertOpinion(r) PROVE NoOrphanRows'
  BY <1>2, <1>3 DEF InsertOpinion, CanInsertOpinion, CommitOpinion, Fail,
                    TypeInv, TypeOK
<1>4. ASSUME NEW r \in Requests, UpdateOpinion(r) PROVE NoOrphanRows'
  BY <1>2, <1>4 DEF UpdateOpinion, StillThere, CommitOpinion, Fail,
                    TypeInv, TypeOK, RequestStates
<1>5. ASSUME NEW r \in Requests, DeleteOpinion(r) PROVE NoOrphanRows'
  BY <1>2, <1>5 DEF DeleteOpinion, CommitOpinion, TypeInv, TypeOK
<1>6. ASSUME NEW r \in Requests,
             InsertResult(r) \/ UpdateResult(r) \/ DeleteResult(r)
      PROVE  NoOrphanRows'
  BY <1>2, <1>6 DEF InsertResult, UpdateResult, DeleteResult, CanInsertResult,
                    StillThere, CommitResult, Fail
<1>7. ASSUME NEW r \in Requests,
             Start(r) \/ LoadOpinion(r) \/ RefreshOpinion(r) \/ ReloadProject(r)
                \/ Recalculate(r) \/ LoadResult(r) \/ Crash(r)
      PROVE  NoOrphanRows'
  BY <1>2, <1>7 DEF Start, Submit, Delete, LoadOpinion, RefreshOpinion, ReloadProject,
                    Recalculate, LoadResult, Crash, Fail
<1>8. ASSUME NEW u \in Users, Join(u) \/ RemoveMember(u) PROVE NoOrphanRows'
  BY <1>8 DEF Join, RemoveMember
<1>9. CASE DeleteProject
  BY <1>9 DEF DeleteProject
<1>10. ASSUME NEW s \in Scales, UpdateScale(s) PROVE NoOrphanRows'
  BY <1>10, NoneAssumption DEF UpdateScale
<1>11. ASSUME NEW u \in Users, DeleteAccount(u) PROVE NoOrphanRows'
  BY <1>11 DEF DeleteAccount, TypeInv, TypeOK
<1>12. CASE UNCHANGED vars
  BY <1>1, <1>12 DEF vars, database
<1> QED
  BY <1>3, <1>4, <1>5, <1>6, <1>7, <1>8, <1>9, <1>10, <1>11, <1>12
     DEF Next, RequestNext, Serve

(* No interleaving leaves an opinion without its account or its project, a   *)
(* member without an account, or a result without its project.               *)
THEOREM ReferentialIntegrity == Spec => []NoOrphanRows
BY OrphanInit, OrphanStep, TypeInvariant, PTL DEF Spec

-------------------------------------------------------------------------------
(* The cached result.                                                       *)

(* What an undisturbed request holds agrees with the database, step by step. *)
Justified(q) ==
    /\ q.pc \notin {"ready", "load", "write"}
    /\ q.pc \in {"refresh", "reload", "recalculate"} => q.opinion = opinions[q.user]
    /\ q.pc = "recalculate" => q.scale = scale
    /\ q.pc \in {"save", "store"} => IsResultOf(q.computed, NumbersOf, scale)
    /\ q.pc = "store" => /\ q.existing = result
                         /\ q.computed # None \/ q.existing # None
    /\ q.pc = "done" => Fresh

UndisturbedInv == \A r \in undisturbed : Justified(request[r])

(* At the start no request has changed anything.                             *)
LEMMA UndisturbedInit == Init => UndisturbedInv
BY DEF Init, UndisturbedInv

(* Reading disturbs nobody: only the reader has to justify its new state.   *)
LEMMA ReadJustified ==
    ASSUME TypeInv, UndisturbedInv, NEW r \in Requests, NEW new, Read(r, new),
           r \in undisturbed => Justified(new)
    PROVE  UndisturbedInv'
<1> SUFFICES ASSUME NEW q \in undisturbed PROVE Justified(request[q])'
  BY DEF UndisturbedInv, Read
<1>1. NumbersOf' = NumbersOf /\ Fresh' = Fresh
  BY DEF Read, database, NumbersOf, Submitted, Fresh, RowOf, IsResultOf
<1>2. q \in Requests /\ Justified(request[q])
  BY DEF TypeInv, TypeOK, UndisturbedInv
<1>3. request'[q] = IF q = r THEN new ELSE request[q]
  BY <1>2 DEF Read, TypeInv, TypeOK
<1>4. Justified(request'[q])
  BY <1>2, <1>3
<1> QED
  BY <1>1, <1>4 DEF Justified, Read, database, IsResultOf

(* A request that fails has nothing left to justify.                         *)
LEMMA FailJustified ==
    ASSUME TypeInv, UndisturbedInv, NEW r \in Requests, Fail(r)
    PROVE  UndisturbedInv'
<1>1. [request[r] EXCEPT !.pc = "failed"].pc = "failed"
  BY DEF TypeInv, TypeOK, RequestStates
<1>2. Justified([request[r] EXCEPT !.pc = "failed"])
  BY <1>1 DEF Justified
<1> QED
  BY <1>2, ReadJustified DEF Fail

(* The request that has just changed the opinions holds the stored row.     *)
LEMMA CommitOpinionJustified ==
    ASSUME TypeInv, NEW r \in Requests, NEW row, NEW pc \in {"refresh", "reload"},
           CommitOpinion(r, row, pc)
    PROVE  UndisturbedInv'
<1> DEFINE new == [request[r] EXCEPT !.pc = pc, !.opinion = row]
<1>1. new.pc = pc /\ new.opinion = row /\ new.user = request[r].user /\ new.user \in Users
  BY DEF TypeInv, TypeOK, RequestStates
<1>2. request'[r] = new
  BY DEF CommitOpinion, TypeInv, TypeOK
<1>3. opinions'[new.user] = row
  BY <1>1 DEF CommitOpinion, TypeInv, TypeOK
<1>4. undisturbed' = {r}
  BY DEF CommitOpinion, OpinionsChangedBy
<1> HIDE DEF new
<1> QED
  BY <1>1, <1>2, <1>3, <1>4 DEF UndisturbedInv, Justified

(* A result is stored under the eyes of those who have not read the old one. *)
LEMMA CommitResultJustified ==
    ASSUME TypeInv, UndisturbedInv, NEW r \in Requests, NEW stored, CommitResult(r, stored),
           r \in undisturbed => IsResultOf(RowOf(stored), NumbersOf, scale)
    PROVE  UndisturbedInv'
<1> SUFFICES ASSUME NEW q \in undisturbed' PROVE Justified(request[q])'
  BY DEF UndisturbedInv
<1>1. q \in undisturbed /\ q \in Requests /\ Justified(request[q])
  BY DEF CommitResult, ResultChangedBy, UndisturbedInv, TypeInv, TypeOK
<1>2. NumbersOf' = NumbersOf /\ scale' = scale /\ opinions' = opinions
  BY DEF CommitResult, NumbersOf, Submitted
<1>3. CASE q = r
  <2>1. request'[q].pc = "done"
    BY <1>1, <1>3 DEF CommitResult, TypeInv, TypeOK, RequestStates
  <2>2. Fresh'
    BY <1>1, <1>2, <1>3 DEF Fresh, CommitResult, IsResultOf, RowOf
  <2> QED
    BY <2>1, <2>2 DEF Justified
<1>4. CASE q # r
  <2>1. request'[q] = request[q]
    BY <1>1, <1>4 DEF CommitResult, TypeInv, TypeOK
  <2>2. request[q].pc \notin {"store", "done"}
    BY <1>4 DEF CommitResult, ResultChangedBy
  <2> QED
    BY <1>1, <1>2, <2>1, <2>2 DEF Justified, IsResultOf
<1> QED
  BY <1>3, <1>4

(* A request that holds the stored result overwrites it with what it has     *)
(* calculated.                                                              *)
LEMMA JustifiedUpdate ==
    ASSUME TypeInv, NEW r \in Requests, Justified(request[r]), UpdateResult(r)
    PROVE  \E stored : CommitResult(r, stored) /\ IsResultOf(RowOf(stored), NumbersOf, scale)
<1> DEFINE q == request[r]
           merged == Flush(result.row, q.existing.row, q.computed)
           stored == [result EXCEPT !.row = merged]
<1>1. /\ q.existing = result /\ result # None
      /\ IsResultOf(q.computed, NumbersOf, scale)
      /\ q.computed \in ResultRows /\ result \in StoredResults
  BY DEF Justified, UpdateResult, TypeInv, TypeOK, RequestStates
<1>2. merged = q.computed
  BY <1>1, FlushLoaded DEF StoredResults
<1>3. CommitResult(r, stored)
  BY <1>1, <1>2 DEF UpdateResult, StillThere
<1> HIDE DEF merged
<1>4. stored \in StoredResults /\ stored.row = merged
  BY <1>1, <1>2 DEF StoredResults
<1> HIDE DEF stored
<1>5. IsResultOf(RowOf(stored), NumbersOf, scale)
  BY <1>1, <1>2, <1>4, NoneAssumption DEF RowOf
<1> QED
  BY <1>3, <1>5

(* One that has found none inserts it, unless the project is gone.          *)
LEMMA JustifiedInsert ==
    ASSUME TypeInv, NEW r \in Requests, Justified(request[r]), InsertResult(r),
           scale # NoProject
    PROVE  \E stored : CommitResult(r, stored) /\ IsResultOf(RowOf(stored), NumbersOf, scale)
<1> DEFINE stored == [id |-> r, row |-> request[r].computed]
<1>1. stored \in StoredResults /\ stored.row = request[r].computed
  BY DEF InsertResult, TypeInv, TypeOK, RequestStates, StoredResults
<1>2. CommitResult(r, stored) /\ IsResultOf(request[r].computed, NumbersOf, scale)
  BY DEF InsertResult, CanInsertResult, Justified
<1> HIDE DEF stored
<1>3. IsResultOf(RowOf(stored), NumbersOf, scale)
  BY <1>1, <1>2, NoneAssumption DEF RowOf
<1> QED
  BY <1>2, <1>3

(* Each statement of an undisturbed request prepares the next one, up to the *)
(* stored result; what disturbs it removes it from undisturbed.              *)
LEMMA UndisturbedStep == TypeInv /\ UndisturbedInv /\ [Next]_vars => UndisturbedInv'
<1> SUFFICES ASSUME TypeInv, UndisturbedInv, [Next]_vars PROVE UndisturbedInv'
  OBVIOUS
<1>r. ASSUME NEW r \in Requests
      PROVE  request[r] \in RequestStates /\ (r \in undisturbed => Justified(request[r]))
  BY DEF TypeInv, TypeOK, UndisturbedInv
<1>1. ASSUME NEW r \in Requests, Start(r) PROVE UndisturbedInv'
  <2>1. r \notin undisturbed
    BY <1>r, <1>1 DEF Start, Submit, Delete, Justified
  <2> QED
    BY <1>1, <2>1, ReadJustified DEF Start, Submit, Delete
<1>2. ASSUME NEW r \in Requests, LoadOpinion(r) PROVE UndisturbedInv'
  <2>1. r \notin undisturbed
    BY <1>r, <1>2 DEF LoadOpinion, Justified
  <2> QED
    BY <1>2, <2>1, FailJustified, ReadJustified DEF LoadOpinion
<1>3. ASSUME NEW r \in Requests, InsertOpinion(r) PROVE UndisturbedInv'
  BY <1>3, FailJustified, CommitOpinionJustified DEF InsertOpinion
<1>4. ASSUME NEW r \in Requests, UpdateOpinion(r) PROVE UndisturbedInv'
  BY <1>4, FailJustified, CommitOpinionJustified DEF UpdateOpinion
<1>5. ASSUME NEW r \in Requests, DeleteOpinion(r) PROVE UndisturbedInv'
  <2>1. r \notin undisturbed
    BY <1>r, <1>5 DEF DeleteOpinion, Justified
  <2> QED
    BY <1>5, <2>1, CommitOpinionJustified, ReadJustified DEF DeleteOpinion
<1>6. ASSUME NEW r \in Requests, RefreshOpinion(r) PROVE UndisturbedInv'
  <2> DEFINE new == [request[r] EXCEPT !.pc = "reload", !.opinion = opinions[request[r].user]]
  <2>1. new.pc = "reload" /\ new.opinion = opinions[new.user]
    BY <1>r DEF RequestStates
  <2>2. Justified(new)
    BY <2>1 DEF Justified
  <2> QED
    BY <1>6, <2>2, FailJustified, ReadJustified DEF RefreshOpinion
<1>7. ASSUME NEW r \in Requests, ReloadProject(r) PROVE UndisturbedInv'
  <2> DEFINE new == [request[r] EXCEPT !.pc = "recalculate", !.scale = scale]
  <2>1. /\ new.pc = "recalculate" /\ new.scale = scale
        /\ new.opinion = request[r].opinion /\ new.user = request[r].user
    BY <1>r DEF RequestStates
  <2>2. r \in undisturbed => Justified(new)
    BY <1>r, <1>7, <2>1 DEF Justified, ReloadProject
  <2> QED
    BY <1>7, <2>2, FailJustified, ReadJustified DEF ReloadProject
<1>8. ASSUME NEW r \in Requests, Recalculate(r) PROVE UndisturbedInv'
  <2>1. PICK computed \in IF DOMAIN Seen(r) = {} THEN {None}
                          ELSE Compromises(Seen(r), request[r].scale) :
            Read(r, [request[r] EXCEPT !.pc = "save", !.computed = computed])
    BY <1>8 DEF Recalculate
  <2> DEFINE new == [request[r] EXCEPT !.pc = "save", !.computed = computed]
  <2>2. new.pc = "save" /\ new.computed = computed
    BY <1>r DEF RequestStates
  <2>3. ASSUME r \in undisturbed PROVE Justified(new)
    <3>1. request[r].opinion = opinions[request[r].user] /\ request[r].scale = scale
      BY <1>r, <1>8, <2>3 DEF Justified, Recalculate
    <3>2. Seen(r) = NumbersOf
      BY <3>1, SeenIsStored DEF TypeInv
    <3>3. IsResultOf(computed, NumbersOf, scale)
      BY <3>1, <3>2 DEF IsResultOf
    <3> QED
      BY <2>2, <3>3 DEF Justified
  <2> QED
    BY <2>1, <2>3, ReadJustified
<1>9. ASSUME NEW r \in Requests, LoadResult(r) PROVE UndisturbedInv'
  <2> DEFINE pc == IF request[r].computed = None /\ result = None THEN "done" ELSE "store"
             new == [request[r] EXCEPT !.pc = pc, !.existing = result]
  <2>1. new.pc = pc /\ new.existing = result /\ new.computed = request[r].computed
    BY <1>r DEF RequestStates
  <2>2. r \in undisturbed => IsResultOf(request[r].computed, NumbersOf, scale)
    BY <1>r, <1>9 DEF Justified, LoadResult
  <2>3. CASE request[r].computed = None /\ result = None
    <3>1. r \in undisturbed => Fresh
      BY <2>2, <2>3 DEF Fresh, RowOf
    <3>2. r \in undisturbed => Justified(new)
      BY <2>1, <2>3, <3>1 DEF Justified
    <3> QED
      BY <1>9, <3>2, ReadJustified DEF LoadResult
  <2>4. CASE ~(request[r].computed = None /\ result = None)
    <3>1. r \in undisturbed => Justified(new)
      BY <2>1, <2>2, <2>4 DEF Justified
    <3> QED
      BY <1>9, <3>1, ReadJustified DEF LoadResult
  <2> QED
    BY <2>3, <2>4
<1>10. ASSUME NEW r \in Requests, InsertResult(r) PROVE UndisturbedInv'
  <2>1. [id |-> r, row |-> request[r].computed] # None
    BY <1>r, <1>10, NoneAssumption DEF InsertResult, RequestStates, StoredResults
  <2>2. r \in undisturbed =>
            IsResultOf(RowOf([id |-> r, row |-> request[r].computed]), NumbersOf, scale)
    BY <1>r, <1>10, <2>1 DEF Justified, InsertResult, RowOf
  <2> QED
    BY <1>10, <2>2, FailJustified, CommitResultJustified DEF InsertResult
<1>11. ASSUME NEW r \in Requests, UpdateResult(r) PROVE UndisturbedInv'
  <2>1. CASE r \in undisturbed
    <3>1. PICK stored : CommitResult(r, stored) /\ IsResultOf(RowOf(stored), NumbersOf, scale)
      BY <1>r, <1>11, <2>1, JustifiedUpdate
    <3> QED
      BY <3>1, CommitResultJustified
  <2>2. CASE r \notin undisturbed
    BY <1>11, <2>2, FailJustified, CommitResultJustified DEF UpdateResult
  <2> QED
    BY <2>1, <2>2
<1>12. ASSUME NEW r \in Requests, DeleteResult(r) PROVE UndisturbedInv'
  <2>1. r \in undisturbed => /\ IsResultOf(None, NumbersOf, scale)
                             /\ StillThere(result, request[r].existing)
    BY <1>r, <1>12 DEF Justified, DeleteResult, StillThere
  <2> QED
    BY <1>12, <2>1, CommitResultJustified, ReadJustified DEF DeleteResult, RowOf
<1>13. ASSUME NEW r \in Requests, Crash(r) PROVE UndisturbedInv'
  BY <1>13, FailJustified DEF Crash
<1>14. ASSUME NEW u \in Users, Join(u) \/ RemoveMember(u) PROVE UndisturbedInv'
  BY <1>14 DEF Join, RemoveMember, UndisturbedInv, Justified, Fresh, IsResultOf,
               NumbersOf, Submitted, RowOf
<1>15. ASSUME undisturbed' = {} PROVE UndisturbedInv'
  BY <1>15 DEF UndisturbedInv
<1>16. CASE UNCHANGED vars
  BY <1>16 DEF vars, UndisturbedInv, Justified, Fresh, IsResultOf,
               NumbersOf, Submitted, RowOf
<1> QED
  BY <1>1, <1>2, <1>3, <1>4, <1>5, <1>6, <1>7, <1>8, <1>9, <1>10, <1>11, <1>12,
     <1>13, <1>14, <1>15, <1>16
     DEF Next, RequestNext, Serve, DeleteProject, UpdateScale, DeleteAccount

(* When a request whose change of the opinions nobody has followed up is     *)
(* done, and nobody has overwritten its result, the cached result is the one *)
(* of the stored opinions - whatever failed, crashed or overlapped before.   *)
THEOREM UndisturbedCorrect == Spec => []UndisturbedIsFresh
<1>1. TypeInv /\ UndisturbedInv => UndisturbedIsFresh
  BY DEF UndisturbedInv, UndisturbedIsFresh, Justified
<1> QED
  BY <1>1, UndisturbedInit, UndisturbedStep, TypeInvariant, PTL DEF Spec

-------------------------------------------------------------------------------
(* One request at a time.                                                   *)

DirtyPCs == {"refresh", "reload", "recalculate", "save", "store"}

(* What the request in flight has loaded is what is stored, and it alone has *)
(* changed the opinions since, unless the project is gone.                   *)
Consistent(r) ==
    /\ request[r].pc = "ready" => request[r].input = None
    /\ request[r].pc = "write" /\ scale # NoProject =>
           /\ request[r].opinion = opinions[request[r].user]
           /\ request[r].input = None => request[r].opinion # None
    /\ request[r].pc = "refresh" => request[r].opinion # None
    /\ request[r].pc \in DirtyPCs /\ scale # NoProject => r \in undisturbed

OthersIdle(r) == \A q \in Requests \ {r} : Idle(q)

SerialInv ==
    \A r \in Requests : Consistent(r) /\ (Idle(r) \/ OthersIdle(r))

(* One request at a time is one of the ways in which requests interleave.    *)
LEMMA SerialIsNext == [SerialNext]_vars => [Next]_vars
BY DEF SerialNext, Next, RequestNext

(* Nothing is in flight at the start.                                       *)
LEMMA SerialInit == Init => SerialInv
BY DEF Init, NewRequest, SerialInv, Consistent, Idle, DirtyPCs

(* A step of the request in flight is judged by what that request holds.    *)
LEMMA SerialKept ==
    ASSUME TypeInv, SerialInv, NEW r \in Requests, NEW new, OthersIdle(r),
           request' = [request EXCEPT ![r] = new], Consistent(r)'
    PROVE  SerialInv'
<1>1. \A q \in Requests : request'[q] = IF q = r THEN new ELSE request[q]
  BY DEF TypeInv, TypeOK
<1>2. ASSUME NEW q \in Requests \ {r} PROVE Consistent(q)' /\ Idle(q)'
  <2>1. Consistent(q) /\ Idle(q) /\ request'[q] = request[q]
    BY <1>1 DEF SerialInv, OthersIdle
  <2> QED
    BY <2>1 DEF Consistent, Idle, DirtyPCs
<1> QED
  BY <1>2 DEF SerialInv, OthersIdle

(* A statement that reads, of the request in flight.                         *)
LEMMA SerialRead ==
    ASSUME TypeInv, SerialInv, NEW r \in Requests, ~Idle(r), NEW new, Read(r, new),
           new.pc \notin {"ready", "write", "refresh"},
           new.pc \in DirtyPCs /\ scale # NoProject => request[r].pc \in DirtyPCs
    PROVE  SerialInv'
<1>1. request'[r] = new /\ scale' = scale /\ undisturbed' = undisturbed
  BY DEF Read, database, TypeInv, TypeOK
<1>2. OthersIdle(r) /\ Consistent(r)
  BY DEF SerialInv
<1>3. Consistent(r)'
  BY <1>1, <1>2 DEF Consistent
<1> QED
  BY <1>2, <1>3, SerialKept DEF Read

(* A rollback.                                                              *)
LEMMA SerialFail ==
    ASSUME TypeInv, SerialInv, NEW r \in Requests, ~Idle(r), Fail(r)
    PROVE  SerialInv'
<1>1. [request[r] EXCEPT !.pc = "failed"].pc = "failed"
  BY DEF TypeInv, TypeOK, RequestStates
<1> QED
  BY <1>1, SerialRead DEF Fail, DirtyPCs

(* The commit of an opinion.                                                *)
LEMMA SerialCommitOpinion ==
    ASSUME TypeInv, SerialInv, NEW r \in Requests, ~Idle(r),
           NEW row, NEW pc \in {"refresh", "reload"}, CommitOpinion(r, row, pc),
           pc = "refresh" => row # None
    PROVE  SerialInv'
<1> DEFINE new == [request[r] EXCEPT !.pc = pc, !.opinion = row]
<1>1. request' = [request EXCEPT ![r] = new] /\ undisturbed' = {r}
  BY DEF CommitOpinion, OpinionsChangedBy
<1>2. request'[r] = new /\ new.pc = pc /\ new.opinion = row
  BY <1>1 DEF TypeInv, TypeOK, RequestStates
<1>3. Consistent(r)'
  BY <1>1, <1>2 DEF Consistent
<1> QED
  BY <1>1, <1>3, SerialKept DEF SerialInv

(* The commit of a result.                                                  *)
LEMMA SerialCommitResult ==
    ASSUME TypeInv, SerialInv, NEW r \in Requests, ~Idle(r), NEW stored, CommitResult(r, stored)
    PROVE  SerialInv'
<1> DEFINE new == [request[r] EXCEPT !.pc = "done"]
<1>1. request' = [request EXCEPT ![r] = new]
  BY DEF CommitResult
<1>2. request'[r].pc = "done"
  BY <1>1 DEF TypeInv, TypeOK, RequestStates
<1>3. Consistent(r)'
  BY <1>2 DEF Consistent, DirtyPCs
<1> QED
  BY <1>1, <1>3, SerialKept DEF SerialInv

(* What the request in flight has loaded stays as it was loaded.            *)
LEMMA SerialStep == TypeInv /\ NoOrphanRows /\ SerialInv /\ [SerialNext]_vars => SerialInv'
<1> SUFFICES ASSUME TypeInv, NoOrphanRows, SerialInv, [SerialNext]_vars PROVE SerialInv'
  OBVIOUS
<1>r. \A r \in Requests : request[r] \in RequestStates
  BY DEF TypeInv, TypeOK
<1>1. ASSUME NEW r \in Requests, Start(r), \A q \in Requests : Idle(q) PROVE SerialInv'
  <2>1. PICK u, input : Read(r, NewRequest(u, input))
    BY <1>1 DEF Start, Submit, Delete
  <2>2. request'[r].pc = "load"
    BY <2>1 DEF Read, NewRequest, TypeInv, TypeOK
  <2>3. Consistent(r)'
    BY <2>2 DEF Consistent, DirtyPCs
  <2> QED
    BY <1>1, <2>1, <2>3, SerialKept DEF Read, OthersIdle
<1>2. ASSUME NEW r \in Requests, LoadOpinion(r) PROVE SerialInv'
  <2> DEFINE new == [request[r] EXCEPT !.pc = "write", !.opinion = opinions[request[r].user]]
  <2>1. ~Idle(r)
    BY <1>2 DEF LoadOpinion, Idle
  <2>2. CASE Fail(r)
    BY <2>1, <2>2, SerialFail
  <2>3. CASE ~Fail(r)
    <3>1. Read(r, new) /\ (request[r].input = None => opinions[request[r].user] # None)
      BY <1>2, <2>3 DEF LoadOpinion
    <3>2. /\ request'[r] = new /\ opinions' = opinions
          /\ new.pc = "write" /\ new.opinion = opinions[request[r].user]
          /\ new.input = request[r].input /\ new.user = request[r].user
      BY <1>r, <3>1 DEF Read, database, TypeInv, TypeOK, RequestStates
    <3> HIDE DEF new
    <3>3. Consistent(r)'
      BY <3>1, <3>2 DEF Consistent, DirtyPCs
    <3> QED
      BY <2>1, <3>1, <3>3, SerialKept DEF Read, SerialInv
  <2> QED
    BY <2>2, <2>3
<1>3. ASSUME NEW r \in Requests, InsertOpinion(r) \/ UpdateOpinion(r) PROVE SerialInv'
  <2>1. ~Idle(r)
    BY <1>3 DEF InsertOpinion, UpdateOpinion, Idle
  <2>2. \/ Fail(r)
        \/ \E row \in OpinionRows : CommitOpinion(r, row, "refresh")
    <3>1. CASE InsertOpinion(r)
      <4>1. request[r].input # None => [id |-> r, number |-> request[r].input] \in OpinionRows
        BY <1>r, InputsAssumption DEF RequestStates, OpinionRows
      <4> QED
        BY <3>1, <4>1 DEF InsertOpinion
    <3>2. CASE UpdateOpinion(r)
      <4>1. \A number \in Numbers, stored \in OpinionRows :
                [stored EXCEPT !.number = number] \in OpinionRows
        BY DEF OpinionRows
      <4>2. opinions[request[r].user] \in OpinionRows \cup {None}
        BY <1>r DEF RequestStates, TypeInv, TypeOK
      <4> QED
        BY <3>2, <4>1, <4>2 DEF UpdateOpinion, StillThere
    <3> QED
      BY <1>3, <3>1, <3>2
  <2> QED
    BY <2>1, <2>2, SerialFail, SerialCommitOpinion, NoneAssumption
<1>4. ASSUME NEW r \in Requests, DeleteOpinion(r) PROVE SerialInv'
  <2> DEFINE new == [request[r] EXCEPT !.pc = "reload", !.opinion = None]
  <2>1. ~Idle(r)
    BY <1>4 DEF DeleteOpinion, Idle
  <2>2. scale # NoProject => StillThere(opinions[request[r].user], request[r].opinion)
    BY <1>4 DEF DeleteOpinion, SerialInv, Consistent, StillThere
  <2>3. new.pc = "reload"
    BY <1>r DEF RequestStates
  <2>4. CASE CommitOpinion(r, None, "reload")
    BY <2>1, <2>4, SerialCommitOpinion
  <2>5. CASE ~CommitOpinion(r, None, "reload")
    <3>1. Read(r, new) /\ scale = NoProject
      BY <1>4, <2>2, <2>5 DEF DeleteOpinion
    <3> HIDE DEF new
    <3> QED
      BY <2>1, <2>3, <3>1, SerialRead
  <2> QED
    BY <2>4, <2>5
<1>5. ASSUME NEW r \in Requests,
             RefreshOpinion(r) \/ ReloadProject(r) \/ Recalculate(r) \/ LoadResult(r)
      PROVE  SerialInv'
  <2>1. ~Idle(r) /\ request[r].pc \in DirtyPCs
    BY <1>5 DEF RefreshOpinion, ReloadProject, Recalculate, LoadResult, Idle, DirtyPCs
  <2>2. ASSUME NEW new, Read(r, new),
               new.pc \in {"reload", "recalculate", "save", "store", "done"}
        PROVE  SerialInv'
    BY <2>1, <2>2, SerialRead
  <2>3. Fail(r) => SerialInv'
    BY <2>1, SerialFail
  <2>4. \A pc, x : /\ [request[r] EXCEPT !.pc = pc, !.opinion = x].pc = pc
                   /\ [request[r] EXCEPT !.pc = pc, !.scale = x].pc = pc
                   /\ [request[r] EXCEPT !.pc = pc, !.computed = x].pc = pc
                   /\ [request[r] EXCEPT !.pc = pc, !.existing = x].pc = pc
    BY <1>r DEF RequestStates
  <2>5. CASE RefreshOpinion(r)
    <3>1. Fail(r) \/ \E x : Read(r, [request[r] EXCEPT !.pc = "reload", !.opinion = x])
      BY <2>5 DEF RefreshOpinion
    <3> QED
      BY <2>2, <2>3, <2>4, <3>1
  <2>6. CASE ReloadProject(r)
    BY <2>2, <2>3, <2>4, <2>6 DEF ReloadProject
  <2>7. CASE Recalculate(r)
    BY <2>2, <2>4, <2>7 DEF Recalculate
  <2>8. CASE LoadResult(r)
    <3>1. PICK pc \in {"store", "done"} :
              Read(r, [request[r] EXCEPT !.pc = pc, !.existing = result])
      BY <2>8 DEF LoadResult
    <3> QED
      BY <2>2, <2>4, <3>1
  <2> QED
    BY <1>5, <2>5, <2>6, <2>7, <2>8
<1>6. ASSUME NEW r \in Requests, InsertResult(r) \/ UpdateResult(r) PROVE SerialInv'
  <2>1. ~Idle(r)
    BY <1>6 DEF InsertResult, UpdateResult, Idle
  <2> QED
    BY <1>6, <2>1, SerialFail, SerialCommitResult DEF InsertResult, UpdateResult
<1>7. ASSUME NEW r \in Requests, DeleteResult(r) PROVE SerialInv'
  <2>1. ~Idle(r)
    BY <1>7 DEF DeleteResult, Idle
  <2>2. [request[r] EXCEPT !.pc = "done"].pc = "done"
    BY <1>r DEF RequestStates
  <2> QED
    BY <1>7, <2>1, <2>2, SerialRead, SerialCommitResult DEF DeleteResult, DirtyPCs
<1>8. CASE DeleteProject
  BY <1>8 DEF DeleteProject, SerialInv, Consistent, OthersIdle, Idle
<1>9. CASE UNCHANGED vars
  BY <1>9 DEF vars, SerialInv, Consistent, OthersIdle, Idle
<1> QED
  BY <1>1, <1>2, <1>3, <1>4, <1>5, <1>6, <1>7, <1>8, <1>9 DEF SerialNext, Serve

(* All that holds of one request at a time.                                  *)
LEMMA SerialInvariant == SerialSpec => [](TypeInv /\ NoOrphanRows /\ UndisturbedInv /\ SerialInv)
BY TypeInit, TypeStep, OrphanInit, OrphanStep, UndisturbedInit, UndisturbedStep,
   SerialInit, SerialStep, SerialIsNext, PTL DEF SerialSpec

-------------------------------------------------------------------------------
(* The opinions that were submitted.                                        *)

(* An update of a row that is still what was loaded stores the input.       *)
LEMMA FlushNumber ==
    ASSUME NEW number \in Numbers, NEW input \in Numbers
    PROVE  Flush(number, number, input) = input
BY DEF Flush, Numbers, OpinionColumns

(* Requests keep their input; a row is kept, or it is what r has submitted.  *)
LEMMA SubmittedKept ==
    ASSUME TypeInv, SerialInv, OpinionsAsSubmitted,
           \A q \in Requests : request[q].pc # "ready" =>
               request'[q].user = request[q].user /\ request'[q].input = request[q].input,
           \A u \in Users : opinions'[u] # None =>
               \/ opinions'[u] = opinions[u]
               \/ \E q \in Requests :
                      request'[q].user = u /\ request'[q].input = opinions'[u].number
    PROVE  OpinionsAsSubmitted'
<1> SUFFICES ASSUME NEW u \in Users, opinions'[u] # None, opinions'[u] = opinions[u]
             PROVE  \E q \in Requests :
                        request'[q].user = u /\ request'[q].input = opinions'[u].number
  BY DEF OpinionsAsSubmitted, Submitted
<1>1. PICK q \in Requests : request[q].user = u /\ request[q].input = opinions[u].number
  BY DEF OpinionsAsSubmitted, Submitted
<1>2. opinions[u].number # None
  BY NoneAssumption DEF TypeInv, TypeOK, OpinionRows
<1>3. request[q].pc # "ready"
  BY <1>1, <1>2 DEF SerialInv, Consistent
<1> QED
  BY <1>1, <1>3

(* A request in flight writes its input, and nothing else.                  *)
LEMMA SubmittedStep ==
    TypeInv /\ NoOrphanRows /\ SerialInv /\ OpinionsAsSubmitted /\ [SerialNext]_vars
        => OpinionsAsSubmitted'
<1> SUFFICES ASSUME TypeInv, NoOrphanRows, SerialInv, OpinionsAsSubmitted, [SerialNext]_vars
             PROVE  OpinionsAsSubmitted'
  OBVIOUS
<1>r. \A r \in Requests : request[r] \in RequestStates
  BY DEF TypeInv, TypeOK
<1>1. ASSUME NEW r \in Requests, NEW new, Read(r, new),
             request[r].pc # "ready" => new.user = request[r].user /\ new.input = request[r].input
      PROVE  OpinionsAsSubmitted'
  BY <1>1, SubmittedKept DEF Read, database, TypeInv, TypeOK
<1>2. ASSUME NEW r \in Requests, NEW row, NEW pc \in {"refresh", "reload"},
             CommitOpinion(r, row, pc), row # None => row.number = request[r].input
      PROVE  OpinionsAsSubmitted'
  <2> DEFINE new == [request[r] EXCEPT !.pc = pc, !.opinion = row]
  <2>1. new.user = request[r].user /\ new.input = request[r].input
    BY <1>r DEF RequestStates
  <2>2. \A q \in Requests : request'[q] = IF q = r THEN new ELSE request[q]
    BY <1>2 DEF CommitOpinion, TypeInv, TypeOK
  <2> HIDE DEF new
  <2>3. \A q \in Requests :
            request'[q].user = request[q].user /\ request'[q].input = request[q].input
    BY <2>1, <2>2
  <2>4. \A u \in Users : opinions'[u] = IF u = request[r].user THEN row ELSE opinions[u]
    BY <1>2 DEF CommitOpinion, TypeInv, TypeOK
  <2> QED
    BY <1>2, <2>3, <2>4, SubmittedKept
<1>3. ASSUME NEW r \in Requests, NEW stored, CommitResult(r, stored) PROVE OpinionsAsSubmitted'
  <2> DEFINE new == [request[r] EXCEPT !.pc = "done"]
  <2>1. new.user = request[r].user /\ new.input = request[r].input
    BY <1>r DEF RequestStates
  <2>2. \A q \in Requests : request'[q] = IF q = r THEN new ELSE request[q]
    BY <1>3 DEF CommitResult, TypeInv, TypeOK
  <2> HIDE DEF new
  <2> QED
    BY <1>3, <2>1, <2>2, SubmittedKept DEF CommitResult
<1>4. ASSUME NEW r \in Requests, Start(r) PROVE OpinionsAsSubmitted'
  BY <1>1, <1>4 DEF Start, Submit, Delete
<1> DEFINE Updates(r, pc, x) == { [request[r] EXCEPT !.pc = pc],
                                  [request[r] EXCEPT !.pc = pc, !.opinion = x],
                                  [request[r] EXCEPT !.pc = pc, !.scale = x],
                                  [request[r] EXCEPT !.pc = pc, !.computed = x],
                                  [request[r] EXCEPT !.pc = pc, !.existing = x] }
<1>5. ASSUME NEW r \in Requests, NEW pc, NEW x, NEW new \in Updates(r, pc, x), Read(r, new)
      PROVE  OpinionsAsSubmitted'
  <2>1. new.user = request[r].user /\ new.input = request[r].input
    BY <1>r DEF RequestStates
  <2> QED
    BY <1>1, <1>5, <2>1
<1>6. ASSUME NEW r \in Requests, Fail(r) PROVE OpinionsAsSubmitted'
  BY <1>5, <1>6 DEF Fail
<1>7. ASSUME NEW r \in Requests,
             LoadOpinion(r) \/ RefreshOpinion(r) \/ ReloadProject(r) \/ LoadResult(r)
      PROVE  OpinionsAsSubmitted'
  <2>1. \/ Fail(r)
        \/ \E pc, x : \/ Read(r, [request[r] EXCEPT !.pc = pc, !.opinion = x])
                      \/ Read(r, [request[r] EXCEPT !.pc = pc, !.scale = x])
                      \/ Read(r, [request[r] EXCEPT !.pc = pc, !.existing = x])
    BY <1>7 DEF LoadOpinion, RefreshOpinion, ReloadProject, LoadResult
  <2> QED
    BY <1>5, <1>6, <2>1
<1>8. ASSUME NEW r \in Requests, Recalculate(r) PROVE OpinionsAsSubmitted'
  BY <1>5, <1>8 DEF Recalculate
<1>9. ASSUME NEW r \in Requests, InsertOpinion(r) PROVE OpinionsAsSubmitted'
  BY <1>2, <1>6, <1>9 DEF InsertOpinion
<1>10. ASSUME NEW r \in Requests, UpdateOpinion(r) PROVE OpinionsAsSubmitted'
  <2> DEFINE stored == opinions[request[r].user]
             merged == Flush(stored.number, request[r].opinion.number, request[r].input)
  <2>1. CASE Fail(r)
    BY <1>6, <2>1
  <2>2. CASE ~Fail(r)
    <3>1. /\ CommitOpinion(r, [stored EXCEPT !.number = merged], "refresh")
          /\ stored # None /\ request[r].pc = "write" /\ request[r].input # None
      BY <1>10, <2>2 DEF UpdateOpinion, StillThere
    <3>2. request[r].user \in Users /\ request[r].input \in Numbers
      BY <1>r, <3>1, InputsAssumption DEF RequestStates
    <3>3. scale # NoProject
      BY <3>1, <3>2 DEF NoOrphanRows, Submitted
    <3>4. request[r].opinion = stored
      BY <3>1, <3>3 DEF SerialInv, Consistent
    <3>5. stored \in OpinionRows
      BY <3>1, <3>2 DEF TypeInv, TypeOK
    <3>6. merged = request[r].input
      BY <3>2, <3>4, <3>5, FlushNumber DEF OpinionRows
    <3> HIDE DEF merged, stored
    <3>7. [stored EXCEPT !.number = merged].number = request[r].input
      BY <3>5, <3>6 DEF OpinionRows
    <3> QED
      BY <1>2, <3>1, <3>7
  <2> QED
    BY <2>1, <2>2
<1>11. ASSUME NEW r \in Requests, DeleteOpinion(r) PROVE OpinionsAsSubmitted'
  BY <1>2, <1>5, <1>11 DEF DeleteOpinion
<1>12. ASSUME NEW r \in Requests, InsertResult(r) \/ UpdateResult(r) PROVE OpinionsAsSubmitted'
  BY <1>3, <1>6, <1>12 DEF InsertResult, UpdateResult
<1>13. ASSUME NEW r \in Requests, DeleteResult(r) PROVE OpinionsAsSubmitted'
  BY <1>3, <1>5, <1>13 DEF DeleteResult
<1>14. CASE DeleteProject
  BY <1>14 DEF DeleteProject, OpinionsAsSubmitted, Submitted
<1>15. CASE UNCHANGED vars
  BY <1>15 DEF vars, OpinionsAsSubmitted, Submitted
<1> QED
  BY <1>4, <1>7, <1>8, <1>9, <1>10, <1>11, <1>12, <1>13, <1>14, <1>15 DEF SerialNext, Serve

(* As long as one request runs at a time, every stored opinion is one that   *)
(* its user has submitted as it stands: no update mixes the columns of two.  *)
THEOREM SubmittedCorrect == SerialSpec => []OpinionsAsSubmitted
<1>1. Init => OpinionsAsSubmitted
  BY DEF Init, OpinionsAsSubmitted, Submitted
<1> QED
  BY <1>1, SubmittedStep, SerialInvariant, PTL DEF SerialSpec

-------------------------------------------------------------------------------
(* The cached result implements what it promises.                           *)

Dirty == \E r \in Requests : request[r].pc \in DirtyPCs

(* A project that is gone has no opinions and no result.                     *)
LEMMA GoneIsFresh == NoOrphanRows /\ scale = NoProject => Fresh
BY DEF NoOrphanRows, Fresh, IsResultOf, NumbersOf, RowOf

(* The cache is dirty when the request in flight is between its commits.     *)
LEMMA DirtyIsOwn ==
    ASSUME TypeInv, NEW r \in Requests, OthersIdle(r), NEW new,
           request' = [request EXCEPT ![r] = new]
    PROVE  (Dirty <=> request[r].pc \in DirtyPCs) /\ (Dirty' <=> new.pc \in DirtyPCs)
<1>1. \A q \in Requests : request'[q] = IF q = r THEN new ELSE request[q]
  BY DEF TypeInv, TypeOK
<1>2. \A q \in Requests \ {r} : request[q].pc \notin DirtyPCs
  BY DEF OthersIdle, Idle, DirtyPCs
<1> QED
  BY <1>1, <1>2 DEF Dirty

(* A statement that reads is nothing to the cache, or makes it dirty, or     *)
(* finds it refreshed.                                                      *)
LEMMA ReadRefines ==
    ASSUME TypeInv, NEW r \in Requests, OthersIdle(r), NEW new, Read(r, new),
           \/ request[r].pc \in DirtyPCs <=> new.pc \in DirtyPCs
           \/ request[r].pc \notin DirtyPCs
           \/ Fresh
    PROVE  [Cache!Next]_(Cache!vars)
<1>1. (Dirty <=> request[r].pc \in DirtyPCs) /\ (Dirty' <=> new.pc \in DirtyPCs)
  BY DirtyIsOwn DEF Read
<1>2. NumbersOf' = NumbersOf /\ RowOf(result)' = RowOf(result) /\ scale' = scale
  BY DEF Read, database, NumbersOf, Submitted, RowOf
<1>3. \A u \in DOMAIN NumbersOf : u \in Users /\ NumbersOf[u] \in Numbers
  BY DEF NumbersOf, Submitted, TypeInv, TypeOK, OpinionRows
<1>4. CASE Dirty <=> Dirty'
  BY <1>2, <1>4 DEF Cache!vars, Dirty, DirtyPCs
<1>5. CASE ~Dirty /\ Dirty'
  BY <1>2, <1>3, <1>5 DEF Cache!Next, Cache!Change, Dirty, DirtyPCs
<1>6. CASE Dirty /\ ~Dirty'
  BY <1>1, <1>2, <1>6 DEF Cache!Next, Cache!Refresh, Dirty, DirtyPCs, Fresh
<1> QED
  BY <1>4, <1>5, <1>6

(* The commit of an opinion makes the cache dirty.                           *)
LEMMA CommitOpinionRefines ==
    ASSUME TypeInv, TypeInv', NEW r \in Requests, OthersIdle(r), request[r].pc = "write",
           NEW row, NEW pc \in {"refresh", "reload"}, CommitOpinion(r, row, pc)
    PROVE  [Cache!Next]_(Cache!vars)
<1> DEFINE new == [request[r] EXCEPT !.pc = pc, !.opinion = row]
<1>1. request' = [request EXCEPT ![r] = new] /\ new.pc = pc
  BY DEF CommitOpinion, TypeInv, TypeOK, RequestStates
<1> HIDE DEF new
<1>2. ~Dirty /\ Dirty'
  BY <1>1, DirtyIsOwn DEF DirtyPCs
<1>3. (\A u \in DOMAIN NumbersOf : u \in Users /\ NumbersOf[u] \in Numbers)'
  BY DEF NumbersOf, Submitted, TypeInv, TypeOK, OpinionRows
<1>4. UNCHANGED <<scale, RowOf(result)>>
  BY DEF CommitOpinion, RowOf
<1> QED
  BY <1>2, <1>3, <1>4 DEF Cache!Next, Cache!Change, Dirty, DirtyPCs

(* The commit of the result of the stored opinions refreshes the cache.      *)
LEMMA CommitResultRefines ==
    ASSUME TypeInv, NEW r \in Requests, OthersIdle(r), request[r].pc = "store",
           NEW stored, CommitResult(r, stored), IsResultOf(RowOf(stored), NumbersOf, scale)
    PROVE  [Cache!Next]_(Cache!vars)
<1> DEFINE new == [request[r] EXCEPT !.pc = "done"]
<1>1. request' = [request EXCEPT ![r] = new] /\ new.pc = "done"
  BY DEF CommitResult, TypeInv, TypeOK, RequestStates
<1> HIDE DEF new
<1>2. Dirty /\ ~Dirty'
  BY <1>1, DirtyIsOwn DEF DirtyPCs
<1>3. UNCHANGED <<scale, NumbersOf>> /\ RowOf(result)' = RowOf(stored)
  BY DEF CommitResult, NumbersOf, Submitted, RowOf
<1> QED
  BY <1>2, <1>3 DEF Cache!Next, Cache!Refresh, Dirty, DirtyPCs

(* The initial states are those of the cache.                               *)
LEMMA CacheInit == Init => Cache!Init
<1> SUFFICES ASSUME Init PROVE Cache!Init
  OBVIOUS
<1>1. DOMAIN NumbersOf = {} /\ RowOf(result) = None
  BY DEF Init, NumbersOf, Submitted, RowOf
<1>2. ~Dirty /\ scale \in Scales
  BY DEF Init, NewRequest, Dirty, DirtyPCs
<1> QED
  BY <1>1, <1>2 DEF Cache!Init, Cache!Clean, IsResultOf, Dirty, DirtyPCs

(* Each step of one request at a time is a step of the cache, or none.       *)
LEMMA CacheStep ==
    TypeInv /\ NoOrphanRows /\ UndisturbedInv /\ SerialInv /\ [SerialNext]_vars
        => [Cache!Next]_(Cache!vars)
<1> SUFFICES ASSUME TypeInv, NoOrphanRows, UndisturbedInv, SerialInv, [SerialNext]_vars
             PROVE  [Cache!Next]_(Cache!vars)
  OBVIOUS
<1>r. ASSUME NEW r \in Requests
      PROVE  /\ request[r] \in RequestStates
             /\ ~Idle(r) => OthersIdle(r)
             /\ request[r].pc = "refresh" => request[r].opinion # None
             /\ request[r].pc \in DirtyPCs =>
                    IF scale = NoProject THEN Fresh ELSE Justified(request[r])
  BY GoneIsFresh DEF TypeInv, TypeOK, SerialInv, Consistent, UndisturbedInv
<1>f. ASSUME NEW r \in Requests, ~Idle(r), Fail(r), request[r].pc \in DirtyPCs => Fresh
      PROVE  [Cache!Next]_(Cache!vars)
  <2>1. OthersIdle(r)
    BY <1>r, <1>f
  <2> QED
    BY <1>f, <2>1, ReadRefines DEF Fail
<1>1. ASSUME NEW r \in Requests, Start(r), \A q \in Requests : Idle(q)
      PROVE  [Cache!Next]_(Cache!vars)
  <2>1. OthersIdle(r) /\ request[r].pc \notin DirtyPCs
    BY <1>1 DEF OthersIdle, Idle, DirtyPCs
  <2> QED
    BY <1>1, <2>1, ReadRefines DEF Start, Submit, Delete
<1>2. ASSUME NEW r \in Requests, LoadOpinion(r) PROVE [Cache!Next]_(Cache!vars)
  <2>1. OthersIdle(r) /\ request[r].pc \notin DirtyPCs
    BY <1>r, <1>2 DEF LoadOpinion, Idle, DirtyPCs
  <2> QED
    BY <1>2, <2>1, ReadRefines DEF LoadOpinion, Fail
<1>3. ASSUME NEW r \in Requests, InsertOpinion(r) \/ UpdateOpinion(r) \/ DeleteOpinion(r)
      PROVE  [Cache!Next]_(Cache!vars)
  <2>1. OthersIdle(r) /\ request[r].pc = "write" /\ request[r].pc \notin DirtyPCs
    BY <1>r, <1>3 DEF InsertOpinion, UpdateOpinion, DeleteOpinion, Idle, DirtyPCs
  <2>2. TypeInv'
    BY SerialIsNext, TypeStep
  <2>3. ASSUME NEW new, Read(r, new) PROVE [Cache!Next]_(Cache!vars)
    BY <2>1, <2>3, ReadRefines
  <2>4. ASSUME NEW row, NEW pc \in {"refresh", "reload"}, CommitOpinion(r, row, pc)
        PROVE  [Cache!Next]_(Cache!vars)
    BY <2>1, <2>2, <2>4, CommitOpinionRefines
  <2> QED
    BY <1>3, <2>3, <2>4 DEF InsertOpinion, UpdateOpinion, DeleteOpinion, Fail
<1>4. ASSUME NEW r \in Requests, RefreshOpinion(r) PROVE [Cache!Next]_(Cache!vars)
  <2> DEFINE new == [request[r] EXCEPT !.pc = "reload", !.opinion = opinions[request[r].user]]
  <2>1. ~Idle(r) /\ OthersIdle(r) /\ request[r].pc = "refresh" /\ request[r].pc \in DirtyPCs
    BY <1>r, <1>4 DEF RefreshOpinion, Idle, DirtyPCs
  <2>2. CASE Read(r, new)
    <3>1. new.pc \in DirtyPCs
      BY <1>r DEF RequestStates, DirtyPCs
    <3> QED
      BY <2>1, <2>2, <3>1, ReadRefines
  <2>3. CASE ~Read(r, new)
    BY <1>f, <1>r, <1>4, <2>1, <2>3
       DEF RefreshOpinion, StillThere, Justified
  <2> QED
    BY <2>2, <2>3
<1>5. ASSUME NEW r \in Requests, ReloadProject(r) PROVE [Cache!Next]_(Cache!vars)
  <2> DEFINE new == [request[r] EXCEPT !.pc = "recalculate", !.scale = scale]
  <2>1. ~Idle(r) /\ OthersIdle(r) /\ request[r].pc \in DirtyPCs
    BY <1>r, <1>5 DEF ReloadProject, Idle, DirtyPCs
  <2>2. new.pc \in DirtyPCs
    BY <1>r DEF RequestStates, DirtyPCs
  <2> HIDE DEF new
  <2>3. (Fail(r) /\ scale = NoProject) \/ Read(r, new)
    BY <1>5 DEF ReloadProject, new
  <2> QED
    BY <1>f, <1>r, <2>1, <2>2, <2>3, ReadRefines
<1>6. ASSUME NEW r \in Requests, Recalculate(r) PROVE [Cache!Next]_(Cache!vars)
  <2>1. PICK computed : Read(r, [request[r] EXCEPT !.pc = "save", !.computed = computed])
    BY <1>6 DEF Recalculate
  <2> DEFINE new == [request[r] EXCEPT !.pc = "save", !.computed = computed]
  <2>2. OthersIdle(r) /\ request[r].pc \in DirtyPCs
    BY <1>r, <1>6 DEF Recalculate, Idle, DirtyPCs
  <2>3. new.pc \in DirtyPCs
    BY <1>r DEF RequestStates, DirtyPCs
  <2> QED
    BY <2>1, <2>2, <2>3, ReadRefines
<1>7. ASSUME NEW r \in Requests, LoadResult(r) PROVE [Cache!Next]_(Cache!vars)
  <2> DEFINE pc == IF request[r].computed = None /\ result = None THEN "done" ELSE "store"
             new == [request[r] EXCEPT !.pc = pc, !.existing = result]
  <2>1. OthersIdle(r) /\ request[r].pc = "save" /\ request[r].pc \in DirtyPCs
    BY <1>r, <1>7 DEF LoadResult, Idle, DirtyPCs
  <2>2. Read(r, new) /\ new.pc = pc
    BY <1>r, <1>7 DEF LoadResult, RequestStates
  <2>3. pc = "done" => Fresh
    BY <1>r, <2>1 DEF Justified, Fresh, RowOf
  <2>4. pc \in DirtyPCs \/ pc = "done"
    BY DEF DirtyPCs
  <2> HIDE DEF new, pc
  <2> QED
    BY <2>1, <2>2, <2>3, <2>4, ReadRefines
<1>8. ASSUME NEW r \in Requests, InsertResult(r) \/ UpdateResult(r) \/ DeleteResult(r)
      PROVE  [Cache!Next]_(Cache!vars)
  <2>1. ~Idle(r) /\ OthersIdle(r) /\ request[r].pc = "store" /\ request[r].pc \in DirtyPCs
    BY <1>r, <1>8 DEF InsertResult, UpdateResult, DeleteResult, Idle, DirtyPCs
  <2>2. CASE scale = NoProject
    <3>1. Fresh /\ result = None
      BY <1>r, <2>1, <2>2 DEF NoOrphanRows
    <3>2. \E new : Read(r, new)
      BY <1>8, <2>2, <3>1 DEF InsertResult, UpdateResult, DeleteResult, CanInsertResult,
                              StillThere, Fail
    <3> QED
      BY <2>1, <3>1, <3>2, ReadRefines
  <2>3. CASE scale # NoProject
    <3>1. Justified(request[r])
      BY <1>r, <2>1, <2>3
    <3>2. ASSUME DeleteResult(r)
          PROVE  CommitResult(r, None) /\ IsResultOf(RowOf(None), NumbersOf, scale)
      BY <2>1, <3>1, <3>2 DEF DeleteResult, Justified, StillThere, RowOf
    <3>3. \E stored : CommitResult(r, stored) /\ IsResultOf(RowOf(stored), NumbersOf, scale)
      BY <1>8, <2>3, <3>1, <3>2, JustifiedInsert, JustifiedUpdate
    <3> QED
      BY <2>1, <3>3, CommitResultRefines
  <2> QED
    BY <2>2, <2>3
<1>9. CASE DeleteProject
  <2>1. DOMAIN NumbersOf' = {} /\ RowOf(result)' = None
    BY <1>9 DEF DeleteProject, NumbersOf, Submitted, RowOf
  <2>2. UNCHANGED Dirty
    BY <1>9 DEF DeleteProject, Dirty
  <2> QED
    BY <1>9, <2>1, <2>2
       DEF DeleteProject, Cache!Next, Cache!Clear, IsResultOf, Dirty, DirtyPCs
<1>10. CASE UNCHANGED vars
  <2>1. UNCHANGED <<NumbersOf, scale, RowOf(result), Dirty>>
    BY <1>10 DEF vars, NumbersOf, Submitted, RowOf, Dirty
  <2> QED
    BY <2>1 DEF Cache!vars, Dirty, DirtyPCs
<1> QED
  BY <1>1, <1>2, <1>3, <1>4, <1>5, <1>6, <1>7, <1>8, <1>9, <1>10 DEF SerialNext, Serve

(* One request at a time, failing or not, with the project deleted at any    *)
(* moment, implements what the cache promises, up to the fairness.           *)
THEOREM SerialImplementsCache == SerialSpec => Cache!Init /\ [][Cache!Next]_(Cache!vars)
BY CacheInit, CacheStep, SerialInvariant, PTL DEF SerialSpec

(* Hence the result is the one of the stored opinions whenever no request is *)
(* in flight: what goes stale, goes stale by overlapping.                    *)
THEOREM SerialIsFresh == SerialSpec => []FreshWhenIdle
<1> DEFINE Refreshed == Dirty \/ Fresh
<1>1. Cache!Init => Refreshed
  BY DEF Cache!Init, Cache!Clean, Fresh
<1>2. Refreshed /\ [Cache!Next]_(Cache!vars) => Refreshed'
  <2> SUFFICES ASSUME Refreshed, [Cache!Next]_(Cache!vars), ~Dirty' PROVE Fresh'
    OBVIOUS
  <2>1. CASE Cache!Next
    BY <2>1 DEF Cache!Next, Cache!Change, Cache!Refresh, Cache!Clear, Fresh, Dirty, DirtyPCs
  <2>2. CASE UNCHANGED Cache!vars
    BY <2>2 DEF Cache!vars, Fresh, IsResultOf, Dirty, DirtyPCs
  <2> QED
    BY <2>1, <2>2
<1>3. Refreshed => FreshWhenIdle
  BY DEF FreshWhenIdle, Dirty, DirtyPCs, Idle
<1> QED
  BY <1>1, <1>2, <1>3, SerialImplementsCache, PTL

===============================================================================
