------------------------------ MODULE ProjectPage ------------------------------
(***************************************************************************)
(* The page of a project, pages/ProjectDetail.tsx: what it loads, what it   *)
(* shows and offers, and the requests that its handlers send, between the   *)
(* click of one user and the projects on the server, which others change.   *)
(*                                                                         *)
(* A load is five GETs at once.  Each is served at some moment of its own   *)
(* between the start of the load and its end, so a load keeps every content *)
(* of the project that there was meanwhile.                                 *)
(***************************************************************************)
EXTENDS Calls, FiniteSets

CONSTANTS
    Projects,
    Busy,           \* the projects in which others work at the same time
    Me, Others,
    Given,          \* what may be stored of each project at the start
    Estimates,      \* three numbers
    Typed,          \* what I type into the three fields
    TheirEstimates, \* what others submit
    ScaleMin, ScaleMax,
    List,           \* the location /projects, or any other page
    NoOpinion, NoResult, Blank, Nothing, NoDialog,
    MaxInFlight,    \* bound: loads and requests under way
    MaxRequests,    \* bound: requests under way
    MaxSeen,        \* bound: contents of a project during a load
    MaxChanges      \* bound: changes of what is stored

VARIABLES
    server,         \* what is stored, for each project
    route,          \* the project in the URL, or List
    shown,          \* project, opinions, result, members, pendingInvitations
    loading,        \* isLoading
    saving,         \* isSavingOpinion
    form,           \* position, lower, peak and upper; Blank if one is missing
    dialog,         \* the dialog that is open, if any
    changes,        \* counts them
    loads,          \* calls of fetchData under way, in the order of their start
    requests,       \* calls of the other handlers under way
    behind,         \* history: the parts that may differ from the server
    typed           \* history: the form was edited since a load filled it

page == <<shown, loading, saving, form, dialog, behind, typed>>
vars == <<server, changes, route, page, loads, requests>>

People == {Me} \cup Others
Parts == {"project", "opinions", "result", "members", "invitations"}
Roles == {"admin", "expert", "none"}

Contents ==
    [ exists  : BOOLEAN,
      role    : [People -> Roles],
      opinion : [People -> Estimates \cup {NoOpinion}],
      invited : SUBSET Others ]

Load ==
    [ of : Projects, seen : SUBSET Contents, live : BOOLEAN, misses : SUBSET Parts,
      overtaken : BOOLEAN ]

AboutMember == {"transfer", "remove", "invite"}
AdminKinds == AboutMember \cup {"delete_project"}
Kinds == AdminKinds \cup {"save", "withdraw", "export"}

(* The opinion to be saved, or whom the request is about. *)
Request ==
    [of : Projects, kind : {"save"}, arg : Estimates, live : BOOLEAN, done : BOOLEAN]
    \cup [of : Projects, kind : Kinds \ {"save"}, arg : People, live : BOOLEAN, done : BOOLEAN]

ASSUME ConstantsAssumption ==
    /\ Busy \subseteq Projects /\ List \notin Projects
    /\ Me \notin Others
    /\ \A p \in Projects : Given[p] \subseteq Contents
    /\ Typed \cup TheirEstimates \subseteq Estimates
    /\ \A e \in Estimates : {e.lower, e.peak, e.upper} \subseteq Nat
    /\ {ScaleMin, ScaleMax} \subseteq Nat /\ ScaleMin < ScaleMax
    /\ {NoOpinion, Blank} \cap Estimates = {} /\ NoOpinion # Blank
    /\ MaxInFlight \in Nat \ {0} /\ MaxRequests \in Nat /\ MaxSeen \in Nat \ {0}

Ordered(e) == e.lower <= e.peak /\ e.peak <= e.upper
WithinScale(e) == ScaleMin <= e.lower /\ e.upper <= ScaleMax

-------------------------------------------------------------------------------
(* The API, a request at a time: Opinions and Membership have the steps.    *)

IsMember(c, u) == c.role[u] # "none"

(* RequireProjectMember or RequireProjectAdmin, and the service's checks. *)
Accepts(c, u, r) ==
    /\ IsMember(c, u)
    /\ r.kind \in AdminKinds => c.role[u] = "admin"
    /\ r.kind = "save" => Ordered(r.arg) /\ WithinScale(r.arg)
    /\ r.kind = "withdraw" => c.opinion[u] # NoOpinion
    /\ r.kind = "export" => \E v \in People : c.opinion[v] # NoOpinion
    /\ r.kind \in {"transfer", "remove"} => r.arg # u /\ IsMember(c, r.arg)
    /\ r.kind = "invite" => ~IsMember(c, r.arg) /\ r.arg \notin c.invited

Gone ==
    [ exists |-> FALSE, role |-> [u \in People |-> "none"],
      opinion |-> [u \in People |-> NoOpinion], invited |-> {} ]

After(c, u, r) ==
    CASE r.kind = "save"           -> [c EXCEPT !.opinion[u] = r.arg]
      [] r.kind = "withdraw"       -> [c EXCEPT !.opinion[u] = NoOpinion]
      [] r.kind = "remove"         -> [c EXCEPT !.role[r.arg] = "none"]
      [] r.kind = "transfer"       -> [c EXCEPT !.role = [@ EXCEPT ![u] = "expert", ![r.arg] = "admin"]]
      [] r.kind = "invite"         -> [c EXCEPT !.invited = @ \cup {r.arg}]
      [] r.kind = "delete_project" -> Gone
      [] r.kind = "export"         -> c

(* accept_invitation and decline_invitation *)
Joined(c, u) == [c EXCEPT !.role[u] = "expert", !.invited = @ \ {u}]
Declined(c, u) == [c EXCEPT !.invited = @ \ {u}]

RequestsBy(u) ==
    [kind : {"save"}, arg : TheirEstimates]
    \cup [kind : {"transfer", "remove", "invite"}, arg : People]
    \cup [kind : {"withdraw", "delete_project"}, arg : {u}]

(* What one request of somebody else makes of c. *)
Theirs(c) ==
    (UNION {{After(c, u, r) : r \in {q \in RequestsBy(u) : Accepts(c, u, q) /\ ~(q.kind = "invite" /\ q.arg = Me)}}
            : u \in Others})
    \cup {Joined(c, u) : u \in c.invited} \cup {Declined(c, u) : u \in c.invited}

(* The answers to the GETs of my page.  Every member gets the pending       *)
(* invitations; the page takes a 403, the answer to anybody else, for an    *)
(* empty list.                                                              *)
Answers(p, c) ==
    [ project     |-> [id |-> p, role |-> c.role[Me]],
      opinions    |-> c.opinion,
      result      |-> IF \E u \in People : c.opinion[u] # NoOpinion THEN c.opinion ELSE NoResult,
      members     |-> c.role,
      invitations |-> IF IsMember(c, Me) THEN c.invited ELSE {} ]

-------------------------------------------------------------------------------
(* What the page makes of the loaded data v.                                *)

IsAdmin(v) == v.project.role = "admin"
MyOpinion(v) == v.opinions[Me]

(* The buttons under the name of the project: Edit does nothing. *)
HeaderButtons(v) == IF IsAdmin(v) THEN {"edit", "invite", "delete_project"} ELSE {}

HasChanges(v, f) == MyOpinion(v) = NoOpinion \/ f # MyOpinion(v)

FormHint(v, f) ==
    IF f = Blank THEN "fields required" ELSE IF ~HasChanges(v, f) THEN "no changes" ELSE "none"

SaveEnabled(v, f, busy) == f # Blank /\ HasChanges(v, f) /\ ~busy

(* The preview is drawn for a triangle on the scale. *)
Preview(f) == IF f # Blank /\ Ordered(f) /\ WithinScale(f) THEN f ELSE Blank

OpinionForm(v, f, busy) ==
    [ preview |-> Preview(f), hint |-> FormHint(v, f), save |-> SaveEnabled(v, f, busy),
      updates |-> MyOpinion(v) # NoOpinion, delete |-> MyOpinion(v) # NoOpinion ]

Doubled(e) == 2 * (e.lower + e.peak + e.upper)

(* One row for each opinion of another, the highest centroid first. *)
OpinionRows(v) ==
    {[who |-> u, opinion |-> v.opinions[u],
      above |-> Cardinality({w \in Others : v.opinions[w] # NoOpinion
                                           /\ Doubled(v.opinions[w]) > Doubled(v.opinions[u])})]
     : u \in {w \in Others : v.opinions[w] # NoOpinion}}

AwaitingRows(v) == {u \in Others : v.members[u] # "none" /\ v.opinions[u] = NoOpinion}

ResultsSection(v) ==
    IF v.result = NoResult \/ \A u \in People : v.opinions[u] = NoOpinion
    THEN NoResult ELSE v.result

(* Mutant: every member can be removed. *)
AllButtons(v, u) == IF IsAdmin(v) THEN {"transfer", "remove"} ELSE {}

MemberButtons(v, u) ==
    IF IsAdmin(v) /\ v.members[u] # "admin" /\ u # Me THEN {"transfer", "remove"} ELSE {}

MemberRows(v) ==
    {[who |-> u, role |-> v.members[u], buttons |-> MemberButtons(v, u)]
     : u \in {w \in People : v.members[w] # "none"}}

InvitationRows(v) == v.invitations

(* The dialog behind each row, as a click opens it. *)
MemberProfile(v, u) == [role |-> v.members[u], opinion |-> v.opinions[u]]

(* All of it; the content of the form is the user's. *)
Screen(v) ==
    [ of |-> v.project.id, header |-> HeaderButtons(v), form |-> OpinionForm(v, form, saving),
      rows |-> OpinionRows(v), awaiting |-> AwaitingRows(v), results |-> ResultsSection(v),
      team |-> MemberRows(v), invited |-> InvitationRows(v),
      profiles |-> [u \in People |-> MemberProfile(v, u)] ]

Shown == route \in Projects /\ ~loading /\ shown # Nothing

-------------------------------------------------------------------------------
(* Calls under way.                                                         *)

Room == Len(loads) + Len(requests) < MaxInFlight

NewLoad(p) ==
    [of |-> p, seen |-> {server[p]}, live |-> TRUE, misses |-> {}, overtaken |-> FALSE]

FreshPage ==
    /\ shown' = Nothing /\ loading' = TRUE /\ saving' = FALSE
    /\ form' = Blank /\ dialog' = NoDialog /\ behind' = {} /\ typed' = FALSE

(* What the server stores has changed, and no load follows for it. *)
Misses(ls, p, parts) ==
    [i \in DOMAIN ls |-> IF ls[i].live /\ ls[i].of = p THEN [ls[i] EXCEPT !.misses = @ \cup parts] ELSE ls[i]]
Behind(p, parts) == IF route = p THEN behind \cup parts ELSE behind

Stored(p, c) ==
    [i \in DOMAIN loads |->
        IF loads[i].live /\ loads[i].of = p THEN [loads[i] EXCEPT !.seen = @ \cup {c}] ELSE loads[i]]

Change(p, c) ==
    /\ changes < MaxChanges
    /\ changes' = changes + 1
    /\ server' = [server EXCEPT ![p] = c]
    /\ \A i \in DOMAIN loads : loads[i].of = p /\ loads[i].live => Cardinality(loads[i].seen \cup {c}) <= MaxSeen

-------------------------------------------------------------------------------
(* Navigation.                                                              *)

(* The page is mounted, and its effect loads the project. *)
Open(p) ==
    /\ route = List /\ Room
    /\ route' = p
    /\ FreshPage
    /\ loads' = Append(loads, NewLoad(p))
    /\ UNCHANGED <<server, changes, requests>>

(* Mutant: the effect does not depend on the id. *)
JumpToWithoutLoad(p) ==
    /\ route \in Projects /\ p # route /\ Room
    /\ route' = p
    /\ UNCHANGED <<server, changes, page, loads, requests>>

(* By the history from one project to another: the component stays, and the *)
(* effect runs again for the new id.                                        *)
JumpTo(p) ==
    /\ route \in Projects /\ p # route /\ Room
    /\ route' = p
    /\ loads' = Append(loads, NewLoad(p))
    /\ UNCHANGED <<server, changes, page, requests>>

(* The handlers of a page that is left run on, and have no page to change. *)
DeadLoads(ls) == [i \in DOMAIN ls |-> [ls[i] EXCEPT !.live = FALSE, !.seen = {}, !.misses = {}]]
DeadRequests(rs) == [i \in DOMAIN rs |-> [rs[i] EXCEPT !.live = FALSE]]

LeavePage(ls, rs) ==
    /\ route' = List
    /\ FreshPage
    /\ loads' = DeadLoads(ls)
    /\ requests' = DeadRequests(rs)

Leave == route \in Projects /\ LeavePage(loads, requests) /\ UNCHANGED <<server, changes>>

(* Another t, another fetchData: the effect runs again. *)
ChangeLanguage ==
    /\ Shown /\ Room
    /\ loads' = Append(loads, NewLoad(route))
    /\ UNCHANGED <<server, changes, route, page, requests>>

-------------------------------------------------------------------------------
(* fetchData                                                                *)

Answered(i) == AfterLoad(loads, i)

(* Mutant: the form is filled when the page has nothing in it only. *)
PrefillBlank(opinion) ==
    IF form = Blank /\ opinion # NoOpinion THEN form' = opinion /\ typed' = FALSE ELSE UNCHANGED <<form, typed>>

Prefill(opinion) ==
    IF opinion # NoOpinion THEN form' = opinion /\ typed' = FALSE ELSE UNCHANGED <<form, typed>>

(* Each part as some content of the time had it; no result if its GET       *)
(* fails, whatever the reason.                                              *)
LoadAnswered(i) ==
    LET f == loads[i]
    IN  \E c, o, r, m, n \in f.seen, failed \in BOOLEAN :
            /\ f.live
            /\ IsMember(c, Me) /\ IsMember(o, Me) /\ IsMember(m, Me) /\ n.exists
            /\ LET v == [ project |-> Answers(f.of, c).project,
                          opinions |-> Answers(f.of, o).opinions,
                          result |-> IF failed \/ ~IsMember(r, Me) THEN NoResult
                                     ELSE Answers(f.of, r).result,
                          members |-> Answers(f.of, m).members,
                          invitations |-> Answers(f.of, n).invitations ]
               IN  /\ shown' = v
                   /\ Prefill(MyOpinion(v))
                   /\ behind' = IF f.overtaken \/ f.of # route THEN Parts
                                ELSE f.misses \cup IF failed THEN {"result"} ELSE {}
            /\ loading' = FALSE
            /\ loads' = Answered(i)
            /\ UNCHANGED <<server, changes, route, saving, dialog, requests>>

(* The answers to a page that is gone. *)
LoadDropped(i) ==
    /\ ~loads[i].live
    /\ loads' = Answered(i)
    /\ UNCHANGED <<server, changes, route, page, requests>>

(* One of the GETs fails, or the project is out of reach: a toast, and away *)
(* to the list, from whatever page there is by now.                         *)
LoadFailed(i) ==
    IF route = List
    THEN loads' = Answered(i) /\ UNCHANGED <<server, changes, route, page, requests>>
    ELSE LeavePage(Answered(i), requests) /\ UNCHANGED <<server, changes>>

-------------------------------------------------------------------------------
(* The handlers.                                                            *)

(* A call is for the id of the URL; the dialog of the invitation and the    *)
(* results have the project that is shown, be it another.                   *)
Target(kind) == IF kind \in {"invite", "export"} THEN shown.project.id ELSE route

Send(kind, arg) ==
    /\ Room /\ Len(requests) < MaxRequests
    /\ requests' = Append(requests, [of |-> Target(kind), kind |-> kind, arg |-> arg, live |-> TRUE, done |-> FALSE])

InFlight(kind) == \E i \in DOMAIN requests : requests[i].live /\ requests[i].kind = kind

Free == Shown /\ dialog = NoDialog

Type(e) ==
    /\ Free
    /\ form' = e /\ typed' = TRUE
    /\ UNCHANGED <<server, changes, route, shown, loading, saving, dialog, loads, requests, behind>>

(* The checks of handleSaveOpinion, each with its toast. *)
ChecksPass(f) == Ordered(f) /\ WithinScale(f)

SaveOpinion ==
    /\ Free /\ SaveEnabled(shown, form, saving) /\ ChecksPass(form)
    /\ saving' = TRUE
    /\ Send("save", form)
    /\ UNCHANGED <<server, changes, route, shown, loading, form, dialog, loads, behind, typed>>

(* The other buttons that act at once: nothing disables them meanwhile,     *)
(* apart from the menu of the export.                                       *)
Offered(v) ==
    {[kind |-> "withdraw", arg |-> Me] : x \in {y \in {Me} : MyOpinion(v) # NoOpinion}}
    \cup {[kind |-> "export", arg |-> Me] : x \in {y \in {Me} : ResultsSection(v) # NoResult}}
    \cup {[kind |-> "remove", arg |-> u] : u \in {w \in People : v.members[w] # "none" /\ "remove" \in MemberButtons(v, w)}}

Click(r) ==
    /\ Free /\ r \in Offered(shown)
    /\ r.kind = "export" => ~InFlight("export")
    /\ Send(r.kind, r.arg)
    /\ UNCHANGED <<server, changes, route, page, loads>>

(* Mutant: Edit opens a dialog too. *)
DialogsOfAll(v) == {[kind |-> k, who |-> Me] : k \in HeaderButtons(v)}

(* What opens a dialog: the header's buttons, a member's crown, a row. *)
Dialogs(v) ==
    {[kind |-> k, who |-> Me] : k \in HeaderButtons(v) \ {"edit"}}
    \cup {[kind |-> "transfer", who |-> u] : u \in {w \in People : v.members[w] # "none" /\ "transfer" \in MemberButtons(v, w)}}

OpenDialog(d) ==
    /\ Free /\ d \in Dialogs(shown)
    /\ dialog' = d
    /\ UNCHANGED <<server, changes, route, shown, loading, saving, form, loads, requests, behind, typed>>

CloseDialog ==
    /\ Shown /\ dialog # NoDialog
    /\ dialog' = NoDialog
    /\ UNCHANGED <<server, changes, route, shown, loading, saving, form, loads, requests, behind, typed>>

(* handleDeleteProject and handleTransferOwnership, from the dialog that    *)
(* asks, and the invitation of any address; one of a kind at a time.        *)
Confirm(u) ==
    /\ Shown /\ dialog # NoDialog
    /\ dialog.kind # "invite" => u = dialog.who
    /\ ~InFlight(dialog.kind)
    /\ Send(dialog.kind, u)
    /\ UNCHANGED <<server, changes, route, page, loads>>

-------------------------------------------------------------------------------
(* Answers.                                                                 *)

(* The API does what the i-th request asks for. *)
ServerAccepts(i) ==
    LET r == requests[i]
        c == After(server[r.of], Me, r)
        foreign == IF r.live THEN IF r.kind = "invite" THEN {"invitations"} ELSE {} ELSE Parts
    IN  /\ ~r.done /\ Accepts(server[r.of], Me, r)
        /\ requests' = [requests EXCEPT ![i].done = TRUE]
        /\ IF c # server[r.of]
           THEN /\ Change(r.of, c)
                /\ loads' = Misses(Stored(r.of, c), r.of, foreign)
                /\ behind' = Behind(r.of, foreign)
           ELSE UNCHANGED <<server, changes, loads, behind>>
        /\ UNCHANGED <<route, shown, loading, saving, form, dialog, typed>>

(* After a change: fetchData of the handler's render, with its id. *)
Refetch(r) == Append(loads, IF r.live THEN NewLoad(r.of) ELSE [NewLoad(r.of) EXCEPT !.live = FALSE, !.seen = {}])

Reloading == {"save", "withdraw", "remove", "transfer"}

LoadsAfter(r) == IF r.kind \in Reloading THEN Refetch(r) ELSE loads

RequestAnswered(i) ==
    LET r == requests[i]
    IN  /\ r.done
        /\ IF r.kind = "delete_project" /\ route # List
           THEN LeavePage(loads, RemoveAt(requests, i))      \* navigate("/projects")
           ELSE /\ requests' = RemoveAt(requests, i)
                /\ loads' = LoadsAfter(r)
                /\ saving' = IF r.live /\ r.kind = "save" THEN FALSE ELSE saving
                /\ IF r.live /\ r.kind = "withdraw" THEN form' = Blank /\ typed' = FALSE ELSE UNCHANGED <<form, typed>>
                /\ dialog' = IF r.live /\ r.kind = "transfer" /\ dialog # NoDialog /\ dialog.kind = "transfer"
                             THEN NoDialog ELSE dialog
                /\ UNCHANGED <<route, shown, loading, behind>>
        /\ UNCHANGED <<server, changes>>

(* Mutant: without the finally. *)
RequestFailedBusy(i) ==
    LET r == requests[i]
        lost == IF r.live /\ r.done /\ r.kind # "export" THEN Parts ELSE {}
    IN  /\ requests' = RemoveAt(requests, i)
        /\ loads' = Misses(loads, r.of, lost)
        /\ behind' = Behind(r.of, lost)
        /\ UNCHANGED <<server, changes, route, shown, loading, saving, form, dialog, typed>>

(* The API refused, or the network failed before or after it decided: a     *)
(* toast and no load.                                                       *)
RequestFailed(i) ==
    LET r == requests[i]
        lost == IF r.live /\ r.done /\ r.kind # "export" THEN Parts ELSE {}
    IN  /\ requests' = RemoveAt(requests, i)
        /\ saving' = IF r.live /\ r.kind = "save" THEN FALSE ELSE saving
        /\ loads' = Misses(loads, r.of, lost)
        /\ behind' = Behind(r.of, lost)
        /\ UNCHANGED <<server, changes, route, shown, loading, form, dialog, typed>>

(* Somebody else's request to a project.  Bound: others change the project  *)
(* of the page once until the page has loaded it again.                     *)
OthersChange(p) ==
    /\ p = route => behind \subseteq {"invitations"}
    /\ \E c \in Theirs(server[p]) \ {server[p]} :
          /\ Change(p, c)
          /\ loads' = Misses(Stored(p, c), p, Parts)
          /\ behind' = Behind(p, Parts)
    /\ UNCHANGED <<route, shown, loading, saving, form, dialog, requests, typed>>

-------------------------------------------------------------------------------

Init ==
    /\ server \in {s \in [Projects -> UNION {Given[p] : p \in Projects}] : \A p \in Projects : s[p] \in Given[p]}
    /\ route = List
    /\ shown = Nothing /\ loading = TRUE /\ saving = FALSE
    /\ form = Blank /\ dialog = NoDialog /\ behind = {} /\ typed = FALSE
    /\ loads = <<>> /\ requests = <<>> /\ changes = 0

UserActs ==
    \/ \E p \in Projects : Open(p) \/ JumpTo(p)
    \/ Leave \/ ChangeLanguage \/ SaveOpinion \/ CloseDialog
    \/ \E e \in Typed \cup {Blank} : Type(e)
    \/ Shown /\ \E r \in Offered(shown) : Click(r)
    \/ Shown /\ \E d \in Dialogs(shown) : OpenDialog(d)
    \/ \E u \in People : Confirm(u)

LoadEnds(i) == LoadAnswered(i) \/ LoadDropped(i) \/ LoadFailed(i)
RequestEnds(i) == RequestAnswered(i) \/ RequestFailed(i)

Next ==
    \/ UserActs
    \/ \E i \in DOMAIN loads : LoadEnds(i)
    \/ \E i \in DOMAIN requests : ServerAccepts(i) \/ RequestEnds(i)
    \/ \E p \in Busy : OthersChange(p)

(* A call ends, by an answer or by an error of the network; the oldest one  *)
(* is not overtaken for ever.                                               *)
OldestLoadEnds == loads # <<>> /\ loads' \in {Tail(loads), DeadLoads(Tail(loads))}
OldestRequestEnds == requests # <<>> /\ requests' \in {Tail(requests), DeadRequests(Tail(requests))}

Fairness == WF_loads(OldestLoadEnds) /\ WF_requests(OldestRequestEnds)

Spec == Init /\ [][Next]_vars
FairSpec == Spec /\ Fairness

-------------------------------------------------------------------------------
(* Properties.                                                              *)

Views ==
    [ project : [id : Projects, role : Roles], opinions : [People -> Estimates \cup {NoOpinion}],
      result : [People -> Estimates \cup {NoOpinion}] \cup {NoResult},
      members : [People -> Roles], invitations : SUBSET Others ]

(* Types of the page's state, the calls under way and what is stored. *)
TypeOK ==
    /\ server \in [Projects -> Contents]
    /\ route \in Projects \cup {List}
    /\ shown \in Views \cup {Nothing}
    /\ {loading, saving, typed} \subseteq BOOLEAN
    /\ form \in Estimates \cup {Blank}
    /\ dialog \in [kind : AdminKinds, who : People] \cup {NoDialog}
    /\ behind \subseteq Parts
    /\ loads \in Seq(Load) /\ requests \in Seq(Request)

Settled ==
    /\ Shown
    /\ \A i \in DOMAIN loads : ~loads[i].live
    /\ \A i \in DOMAIN requests : ~requests[i].live

Truth == Answers(route, server[route])

(* What is shown, the parts that may be behind replaced by the truth. *)
Known == [part \in Parts |-> IF part \in behind THEN Truth[part] ELSE shown[part]]

(* When nothing is under way the whole screen - rows, buttons, results,     *)
(* team - is that of the project in the URL as the server stores it, unless *)
(* others changed it, an answer was lost or loads overtook one another: no  *)
(* handler and no navigation forgets to load.                               *)
SettledIsFresh == Settled => Screen(Known) = Screen(Truth)

(* Then the server accepts whatever the page offers: each button, each      *)
(* dialog, and the form once its checks have passed.                        *)
OfferedIsAccepted ==
    Settled /\ behind \subseteq {"invitations"} =>
        \A r \in Offered(shown)
              \cup {[kind |-> d.kind, arg |-> d.who] : d \in {e \in Dialogs(shown) : e.kind \in {"transfer", "delete_project"}}}
              \cup {[kind |-> "save", arg |-> e] : e \in {x \in {form} : SaveEnabled(shown, x, saving) /\ ChecksPass(x)}} :
            Accepts(server[route], Me, r)

(* A form that nobody edited since the last load holds my stored opinion:   *)
(* saving it again changes nothing.                                         *)
UntouchedForm ==
    Settled /\ behind \subseteq {"invitations"} /\ ~typed /\ MyOpinion(Truth) # NoOpinion =>
        form = MyOpinion(Truth)

(* The spinner of the page and that of the save button end: every path      *)
(* through fetchData and handleSaveOpinion reaches its finally.             *)
BusyEnds == (route # List /\ loading ~> route = List \/ ~loading) /\ (saving ~> ~saving)

===============================================================================
