------------------------------- MODULE Opinions -------------------------------
(***************************************************************************)
(* One project of the API: its opinions and the cached result that every    *)
(* request that writes an opinion recalculates.                             *)
(*                                                                         *)
(* A request runs in a worker thread with its own database session.  Each   *)
(* action is one statement of that session, or one commit: PostgreSQL runs  *)
(* READ COMMITTED, so the requests interleave between any two of them, and  *)
(* what a session has loaded is a snapshot that may be stale when used.     *)
(* An UPDATE writes the columns whose new value differs from the loaded     *)
(* one, WHERE id = the id of the loaded row (SQLAlchemy's unit of work).    *)
(*                                                                         *)
(* A request is served once; it names the rows that it inserts, as a UUID   *)
(* does.  The calculation is the constant operator Compromises.             *)
(***************************************************************************)
EXTENDS Integers, FiniteSets

CONSTANTS
    Users,
    Owner,              \* the admin of the project
    Requests,
    Bounds,             \* the numbers an opinion may hold
    Inputs,             \* the opinions a request may submit
    Scales,             \* records [min, max]
    ResultColumns,
    ResultValues,
    ResultCheck(_),     \* the CHECK constraints of calculation_results
    Compromises(_, _),  \* the results of a set of opinions on a scale, one
                        \* for each order in which SELECT may return them
    None,
    NoProject           \* the scale of a deleted project

OpinionColumns == {"lower", "peak", "upper"}

(* Rows that the CHECK constraints of the two tables accept. *)
Numbers == {n \in [OpinionColumns -> Bounds] :
                n["lower"] <= n["peak"] /\ n["peak"] <= n["upper"]}
ResultRows == {row \in [ResultColumns -> ResultValues] : ResultCheck(row)}

OpinionRows == [id : Requests, number : Numbers]
StoredResults == [id : Requests, row : ResultRows]

(* The opinions of a project, by user. *)
Submissions == UNION {[S -> Numbers] : S \in SUBSET Users}

ASSUME OwnerAssumption == Owner \in Users

ASSUME InputsAssumption == Inputs \subseteq Numbers

ASSUME NoneAssumption ==
    /\ None \notin OpinionRows /\ None \notin StoredResults
    /\ None \notin ResultRows /\ None \notin Numbers
    /\ NoProject \notin Scales

(* The calculator answers every list of opinions of distinct experts, with  *)
(* numbers the result table accepts.                                        *)
ASSUME CompromisesAssumption ==
    \A numbers \in Submissions, s \in Scales :
        DOMAIN numbers # {} =>
            /\ Compromises(numbers, s) # {}
            /\ \A row \in Compromises(numbers, s) : row \in ResultRows

VARIABLES
    accounts,       \* users
    scale,          \* the scale of the project, NoProject once it is deleted
    members,        \* project_members
    opinions,       \* expert_opinions: the row of each user, or None
    result,         \* calculation_results: the row of the project, or None
    request,        \* what each request has done and what it holds
    undisturbed     \* history: see UndisturbedIsFresh

database == <<accounts, scale, members, opinions, result>>
vars == <<accounts, scale, members, opinions, result, request, undisturbed>>

PCs == {"ready", "load", "write", "refresh", "reload", "recalculate",
        "save", "store", "done", "failed"}

RequestStates ==
    [ pc       : PCs,
      user     : Users,
      input    : Inputs \cup {None},         \* None: the request deletes
      opinion  : OpinionRows \cup {None},    \* the loaded opinion
      scale    : Scales \cup {NoProject},    \* the loaded project
      computed : ResultRows \cup {None},     \* the calculated result
      existing : StoredResults \cup {None} ] \* the loaded result

Idle(r) == request[r].pc \in {"ready", "done", "failed"}

-------------------------------------------------------------------------------
(* The opinions and what they are worth.                                    *)

Submitted == {u \in Users : opinions[u] # None}
NumbersOf == [u \in Submitted |-> opinions[u].number]

(* What recalculate returns when nobody interferes. *)
IsResultOf(row, numbers, s) ==
    IF DOMAIN numbers = {} THEN row = None
    ELSE row \in Compromises(numbers, s)

RowOf(stored) == IF stored = None THEN None ELSE stored.row

(* The cached result is the one of the stored opinions. *)
Fresh == IsResultOf(RowOf(result), NumbersOf, scale)

-------------------------------------------------------------------------------
(* SQLAlchemy and the database.                                             *)

(* Mutant: the assignment of the peak is missing. *)
FlushWithoutPeak(row, loaded, new) ==
    [c \in DOMAIN row |->
        IF c # "peak" /\ new[c] # loaded[c] THEN new[c] ELSE row[c]]

(* An UPDATE of the columns in which new differs from what was loaded. *)
Flush(row, loaded, new) ==
    [c \in DOMAIN row |-> IF new[c] # loaded[c] THEN new[c] ELSE row[c]]

(* The row with the id of a loaded one is still there. *)
StillThere(stored, loaded) == stored # None /\ stored.id = loaded.id

(* UNIQUE (project_id, user_id), FOREIGN KEY project_id, FOREIGN KEY user_id. *)
CanInsertOpinion(u) == opinions[u] = None /\ scale # NoProject /\ u \in accounts

(* UNIQUE (project_id), FOREIGN KEY project_id. *)
CanInsertResult == result = None /\ scale # NoProject

(* r alone is undisturbed once it has changed the opinions. *)
OpinionsChangedBy(r) == undisturbed' = {r}

(* A result written by r disturbs who has read or written one before. *)
ResultChangedBy(r) ==
    undisturbed' = {q \in undisturbed : q = r \/ request[q].pc \notin {"store", "done"}}

-------------------------------------------------------------------------------
(* A request, from the access check to the last commit.                     *)

(* A statement of r that leaves the database as it is. *)
Read(r, new) ==
    /\ request' = [request EXCEPT ![r] = new]
    /\ UNCHANGED <<database, undisturbed>>

(* An exception: the session is rolled back, the client gets an error. *)
Fail(r) == Read(r, [request[r] EXCEPT !.pc = "failed"])

NewRequest(u, input) ==
    [ pc |-> "load", user |-> u, input |-> input, opinion |-> None,
      scale |-> NoProject, computed |-> None, existing |-> None ]

(* RequireProjectAccess and validate_values_in_range. *)
Submit(r, u, input) ==
    /\ request[r].pc = "ready"
    /\ scale # NoProject /\ u \in members
    /\ \A c \in OpinionColumns : scale.min <= input[c] /\ input[c] <= scale.max
    /\ Read(r, NewRequest(u, input))

Delete(r, u) ==
    /\ request[r].pc = "ready"
    /\ scale # NoProject /\ u \in members
    /\ Read(r, NewRequest(u, None))

(* get_user_opinion; delete_opinion answers 404 when there is none. *)
LoadOpinion(r) ==
    LET loaded == opinions[request[r].user]
    IN  /\ request[r].pc = "load"
        /\ IF request[r].input = None /\ loaded = None THEN Fail(r)
           ELSE Read(r, [request[r] EXCEPT !.pc = "write", !.opinion = loaded])

(* upsert_opinion and delete_opinion write what row is from now on. *)
CommitOpinion(r, row, pc) ==
    /\ opinions' = [opinions EXCEPT ![request[r].user] = row]
    /\ request' = [request EXCEPT ![r] = [@ EXCEPT !.pc = pc, !.opinion = row]]
    /\ OpinionsChangedBy(r)
    /\ UNCHANGED <<accounts, scale, members, result>>

InsertOpinion(r) ==
    /\ request[r].pc = "write" /\ request[r].input # None /\ request[r].opinion = None
    /\ IF CanInsertOpinion(request[r].user)
       THEN CommitOpinion(r, [id |-> r, number |-> request[r].input], "refresh")
       ELSE Fail(r)

(* Mutant: the CHECK constraint is missing. *)
UpdateOpinionUnchecked(r) ==
    LET loaded == request[r].opinion
        stored == opinions[request[r].user]
        merged == Flush(stored.number, loaded.number, request[r].input)
    IN  /\ request[r].pc = "write" /\ request[r].input # None /\ loaded # None
        /\ IF StillThere(stored, loaded)
           THEN CommitOpinion(r, [stored EXCEPT !.number = merged], "refresh")
           ELSE Fail(r)

(* StaleDataError when the row is gone, IntegrityError when the columns of  *)
(* two updates do not fit together.                                         *)
UpdateOpinion(r) ==
    LET loaded == request[r].opinion
        stored == opinions[request[r].user]
        merged == Flush(stored.number, loaded.number, request[r].input)
    IN  /\ request[r].pc = "write" /\ request[r].input # None /\ loaded # None
        /\ IF StillThere(stored, loaded) /\ merged \in Numbers
           THEN CommitOpinion(r, [stored EXCEPT !.number = merged], "refresh")
           ELSE Fail(r)

(* Mutant: deleting an opinion triggers no recalculation. *)
DeleteOpinionOnly(r) ==
    LET stored == opinions[request[r].user]
    IN  /\ request[r].pc = "write" /\ request[r].input = None
        /\ IF StillThere(stored, request[r].opinion)
           THEN CommitOpinion(r, None, "done")
           ELSE Fail(r)

(* A DELETE that matches no row is not an error. *)
DeleteOpinion(r) ==
    LET stored == opinions[request[r].user]
    IN  /\ request[r].pc = "write" /\ request[r].input = None
        /\ IF StillThere(stored, request[r].opinion)
           THEN CommitOpinion(r, None, "reload")
           ELSE Read(r, [request[r] EXCEPT !.pc = "reload", !.opinion = None])

(* session.refresh(obj): the session reads back the row it has committed. *)
RefreshOpinion(r) ==
    LET stored == opinions[request[r].user]
    IN  /\ request[r].pc = "refresh"
        /\ IF StillThere(stored, request[r].opinion)
           THEN Read(r, [request[r] EXCEPT !.pc = "reload", !.opinion = stored])
           ELSE Fail(r)

(* project.id after the commit: the expired project is loaded again, and    *)
(* recalculate finds that copy in the session.                              *)
ReloadProject(r) ==
    /\ request[r].pc = "reload"
    /\ IF scale = NoProject THEN Fail(r)
       ELSE Read(r, [request[r] EXCEPT !.pc = "recalculate", !.scale = scale])

(* Mutant: the session ignores the opinion it has just committed. *)
SeenWithoutOwn(r) ==
    [u \in Submitted \ {request[r].user} |-> opinions[u].number]

(* The rows of the SELECT; a row the session holds already keeps the loaded *)
(* columns.                                                                 *)
Seen(r) ==
    LET own == request[r].opinion
    IN  [u \in Submitted |->
            IF u = request[r].user /\ own # None /\ own.id = opinions[u].id
            THEN own.number ELSE opinions[u].number]

(* recalculate: _get_opinions, the calculation and the interpretation. *)
Recalculate(r) ==
    /\ request[r].pc = "recalculate"
    /\ \E computed \in IF DOMAIN Seen(r) = {} THEN {None}
                       ELSE Compromises(Seen(r), request[r].scale) :
           Read(r, [request[r] EXCEPT !.pc = "save", !.computed = computed])

(* get_result, in _save_result or _delete_result. *)
LoadResult(r) ==
    /\ request[r].pc = "save"
    /\ Read(r, [request[r] EXCEPT
           !.pc = IF request[r].computed = None /\ result = None THEN "done" ELSE "store",
           !.existing = result])

CommitResult(r, stored) ==
    /\ result' = stored
    /\ request' = [request EXCEPT ![r] = [@ EXCEPT !.pc = "done"]]
    /\ ResultChangedBy(r)
    /\ UNCHANGED <<accounts, scale, members, opinions>>

InsertResult(r) ==
    /\ request[r].pc = "store" /\ request[r].computed # None /\ request[r].existing = None
    /\ IF CanInsertResult
       THEN CommitResult(r, [id |-> r, row |-> request[r].computed])
       ELSE Fail(r)

(* Without a changed column there is no UPDATE, and the refresh that        *)
(* follows fails when the row is gone.                                      *)
UpdateResult(r) ==
    LET loaded == request[r].existing
        merged == Flush(result.row, loaded.row, request[r].computed)
    IN  /\ request[r].pc = "store" /\ request[r].computed # None /\ loaded # None
        /\ IF StillThere(result, loaded) /\ merged \in ResultRows
           THEN CommitResult(r, [result EXCEPT !.row = merged])
           ELSE Fail(r)

DeleteResult(r) ==
    /\ request[r].pc = "store" /\ request[r].computed = None
    /\ IF StillThere(result, request[r].existing)
       THEN CommitResult(r, None)
       ELSE Read(r, [request[r] EXCEPT !.pc = "done"])

(* The worker dies, or a statement times out, between two statements. *)
Crash(r) ==
    /\ request[r].pc \notin {"ready", "done", "failed"}
    /\ Fail(r)

Serve(r) ==
    \/ LoadOpinion(r)
    \/ InsertOpinion(r) \/ UpdateOpinion(r) \/ DeleteOpinion(r)
    \/ RefreshOpinion(r) \/ ReloadProject(r) \/ Recalculate(r)
    \/ LoadResult(r)
    \/ InsertResult(r) \/ UpdateResult(r) \/ DeleteResult(r)

Start(r) == \E u \in Users : Delete(r, u) \/ \E input \in Inputs : Submit(r, u, input)

-------------------------------------------------------------------------------
(* The rest of the API, as far as it touches these tables.                  *)

(* InvitationService.accept_invitation. *)
Join(u) ==
    /\ scale # NoProject /\ u \in accounts \ members
    /\ members' = members \cup {u}
    /\ UNCHANGED <<accounts, scale, opinions, result, request, undisturbed>>

(* remove_member: the opinion stays, and stays in the result. *)
RemoveMember(u) ==
    /\ u \in members \ {Owner}
    /\ members' = members \ {u}
    /\ UNCHANGED <<accounts, scale, opinions, result, request, undisturbed>>

(* delete_project: everything of the project goes with it. *)
DeleteProject ==
    /\ scale # NoProject
    /\ scale' = NoProject
    /\ members' = {}
    /\ opinions' = [u \in Users |-> None]
    /\ result' = None
    /\ undisturbed' = {}
    /\ UNCHANGED <<accounts, request>>

(* update_project: neither the opinions nor the result follow the scale. *)
UpdateScale(s) ==
    /\ scale # NoProject /\ s # scale
    /\ scale' = s
    /\ undisturbed' = {}
    /\ UNCHANGED <<accounts, members, opinions, result, request>>

(* Mutant: the opinion outlives the account. *)
DeleteAccountOnly(u) ==
    /\ u \in accounts \ {Owner}
    /\ accounts' = accounts \ {u}
    /\ members' = members \ {u}
    /\ undisturbed' = {}
    /\ UNCHANGED <<scale, opinions, result, request>>

(* delete_user: memberships and opinions cascade, the result does not follow. *)
DeleteAccount(u) ==
    /\ u \in accounts \ {Owner}
    /\ accounts' = accounts \ {u}
    /\ members' = members \ {u}
    /\ opinions' = [opinions EXCEPT ![u] = None]
    /\ undisturbed' = {}
    /\ UNCHANGED <<scale, result, request>>

-------------------------------------------------------------------------------

Init ==
    /\ accounts = Users
    /\ scale \in Scales
    /\ members \in {S \in SUBSET Users : Owner \in S}
    /\ opinions = [u \in Users |-> None]
    /\ result = None
    /\ request = [r \in Requests |-> [NewRequest(Owner, None) EXCEPT !.pc = "ready"]]
    /\ undisturbed = {}

(* Requests alone, with nothing around them. *)
RequestNext == \E r \in Requests : Start(r) \/ Serve(r)

Next ==
    \/ RequestNext
    \/ \E r \in Requests : Crash(r)
    \/ \E u \in Users : Join(u) \/ RemoveMember(u) \/ DeleteAccount(u)
    \/ \E s \in Scales : UpdateScale(s)
    \/ DeleteProject

(* One request at a time. *)
SerialNext ==
    \/ \E r \in Requests : Start(r) /\ \A q \in Requests : Idle(q)
    \/ \E r \in Requests : Serve(r)
    \/ DeleteProject

Spec == Init /\ [][Next]_vars
RequestSpec == Init /\ [][RequestNext]_vars
SerialSpec == Init /\ [][SerialNext]_vars /\ \A r \in Requests : WF_vars(Serve(r))

-------------------------------------------------------------------------------
(* What holds however the requests interleave.                              *)

(* Every row the tables and the sessions hold satisfies its constraints, in  *)
(* particular the columns that two concurrent updates have merged.           *)
TypeOK ==
    /\ accounts \subseteq Users
    /\ scale \in Scales \cup {NoProject}
    /\ members \subseteq Users
    /\ opinions \in [Users -> OpinionRows \cup {None}]
    /\ result \in StoredResults \cup {None}
    /\ request \in [Requests -> RequestStates]
    /\ undisturbed \subseteq Requests

(* No request in flight revives what a deletion took away: an opinion has    *)
(* its account and its project, a member its account, the result and the     *)
(* members their project.                                                    *)
NoOrphanRows ==
    /\ Submitted \cup members \subseteq accounts
    /\ scale = NoProject => Submitted = {} /\ members = {} /\ result = None

(* undisturbed holds the requests since whose commit of an opinion nobody    *)
(* else has changed the opinions or the scale, and since whose loading of    *)
(* the result nobody else has changed the result.  When such a request is    *)
(* done, the cached result is the one of the stored opinions: the two        *)
(* commits of a request cannot leave a stale result by themselves.           *)
UndisturbedIsFresh == \A r \in undisturbed : request[r].pc = "done" => Fresh

-------------------------------------------------------------------------------
(* What holds while requests do not overlap, and only then.                 *)

(* A stored opinion is one that its user submitted.                         *)
OpinionsAsSubmitted ==
    \A u \in Submitted : \E r \in Requests :
        request[r].user = u /\ request[r].input = opinions[u].number

(* With no request in flight, the result is the one of the stored opinions.  *)
FreshWhenIdle == (\A r \in Requests : Idle(r)) => Fresh

(* The promise of the cache, implemented by one request at a time: a request *)
(* between its two commits is the cache being dirty.                         *)
Cache == INSTANCE ResultCache WITH
    opinions <- NumbersOf,
    result   <- RowOf(result),
    dirty    <- \E r \in Requests :
                    request[r].pc \in {"refresh", "reload", "recalculate", "save", "store"}

CacheSpec == Cache!Spec

===============================================================================
