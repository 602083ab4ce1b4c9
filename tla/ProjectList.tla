------------------------------ MODULE ProjectList ------------------------------
(***************************************************************************)
(* The list of my projects and invitations, pages/Projects.tsx, with its    *)
(* three dialogs (components/modals): create, invite, delete.  The dialogs  *)
(* share one selected project, keep a state of their own while closed, and  *)
(* can be dismissed while their request is under way.                       *)
(***************************************************************************)
EXTENDS Calls, FiniteSets

CONSTANTS
    Projects,
    None,
    Given,          \* what I may be to each project at the start
    MaxInFlight,    \* bound: loads and requests under way
    MaxRequests,    \* bound: requests under way
    MaxChanges      \* bound: changes of what is stored

VARIABLES
    mine,           \* what I am to each project, as stored
    changes,        \* counts the changes of mine
    shown,          \* projects and invitations
    isLoading,
    open,           \* createModalOpen, inviteModalOpen, deleteModalOpen
    selected,       \* selectedProject
    busy,           \* the dialogs whose isLoading is TRUE
    isSuccess,      \* of the invite dialog
    invited,        \* history: the project of the last invitation that went out
    timer,          \* the setTimeout of handleClose is pending
    loads,          \* calls of fetchData under way
    requests,       \* calls of the other handlers under way
    behind,         \* history: shown may differ from what is stored
    dismissed       \* history: a dialog was closed while its request was under way

dialogs == <<open, selected, busy, isSuccess, invited, timer, dismissed>>
vars == <<mine, changes, shown, isLoading, dialogs, loads, requests, behind>>

Relations == {"unborn", "outsider", "invited", "expert", "admin", "deleted"}
Dialogs == {"create", "invite", "delete"}
Kinds == Dialogs \cup {"accept", "decline"}

(* What is assumed of the constants. *)
ConstantsOK ==
    /\ None \notin Projects
    /\ \A p \in Projects : Given[p] \subseteq Relations
    /\ {MaxInFlight, MaxRequests, MaxChanges} \subseteq Nat

Member(role) == role \in {"expert", "admin"}

-------------------------------------------------------------------------------
(* The API.                                                                 *)

Accepts(relation, kind) ==
    CASE kind = "create"              -> relation = "unborn"
      [] kind \in {"accept", "decline"} -> relation = "invited"
      [] kind \in {"invite", "delete"}  -> relation = "admin"

After(relation, kind) ==
    CASE kind = "create"  -> "admin"
      [] kind = "accept"  -> "expert"
      [] kind = "decline" -> "outsider"
      [] kind = "delete"  -> "deleted"
      [] kind = "invite"  -> relation

(* What others make of my relation to a project of theirs or of mine. *)
Theirs(relation) ==
    CASE relation = "outsider" -> {"invited", "deleted"}
      [] relation = "invited"  -> {"deleted"}
      [] relation = "expert"   -> {"admin", "outsider", "deleted"}
      [] OTHER                 -> {}

(* getProjects and getInvitations *)
ProjectsOf(m) == [p \in {q \in Projects : Member(m[q])} |-> m[p]]
InvitationsOf(m) == {p \in Projects : m[p] = "invited"}

Truth == [projects |-> ProjectsOf(mine), invitations |-> InvitationsOf(mine)]

-------------------------------------------------------------------------------
(* What the page shows and offers.                                          *)

Badge == Cardinality(shown.invitations)

(* The menu of a card: more than the link for the admin only. *)
CardMenu(p) == {"view"} \cup IF shown.projects[p] = "admin" THEN {"invite", "delete"} ELSE {}

Card(p) == [role |-> shown.projects[p], menu |-> CardMenu(p)]

InvitationCard(p) == {"accept", "decline"}

OpenDialogs == {d \in Dialogs : open[d]}
Free == ~isLoading /\ OpenDialogs = {}

InviteScreen == IF isSuccess THEN "done" ELSE "form"

-------------------------------------------------------------------------------
(* Calls under way.                                                         *)

NewLoad == [projects |-> {mine}, invitations |-> {mine}, misses |-> FALSE, overtaken |-> FALSE]

Room == Len(loads) + Len(requests) < MaxInFlight

Send(kind, p) ==
    /\ Room /\ Len(requests) < MaxRequests
    /\ requests' = Append(requests, [kind |-> kind, of |-> p, done |-> FALSE])

InFlight(kind) == \E i \in DOMAIN requests : requests[i].kind = kind

Change(m, foreign) ==
    /\ changes < MaxChanges
    /\ changes' = changes + 1
    /\ mine' = m
    /\ loads' = [i \in DOMAIN loads |->
                    [loads[i] EXCEPT !.projects = @ \cup {m}, !.invitations = @ \cup {m},
                                     !.misses = @ \/ foreign]]
    /\ behind' = (behind \/ foreign)

-------------------------------------------------------------------------------
(* fetchData                                                                *)

(* The effect, once more when the language changes. *)
StartLoad ==
    /\ ~isLoading
    /\ Room
    /\ loads' = Append(loads, NewLoad)
    /\ UNCHANGED <<mine, changes, shown, isLoading, dialogs, requests, behind>>

LoadAnswered(i) ==
    \E a \in loads[i].projects, b \in loads[i].invitations :
        /\ shown' = [projects |-> ProjectsOf(a), invitations |-> InvitationsOf(b)]
        /\ isLoading' = FALSE
        /\ behind' = (loads[i].misses \/ loads[i].overtaken)
        /\ loads' = AfterLoad(loads, i)
        /\ UNCHANGED <<mine, changes, dialogs, requests>>

(* A toast, and what was there before. *)
LoadFailed(i) ==
    /\ isLoading' = FALSE
    /\ behind' = TRUE
    /\ loads' = AfterLoad(loads, i)
    /\ UNCHANGED <<mine, changes, shown, dialogs, requests>>

-------------------------------------------------------------------------------
(* Dialogs.                                                                 *)

OpenCreate ==
    /\ Free
    /\ open' = [open EXCEPT !["create"] = TRUE]
    /\ UNCHANGED <<mine, changes, shown, isLoading, selected, busy, isSuccess, invited, timer, loads, requests, behind, dismissed>>

(* The menu of a card selects its project. *)
OpenFor(d, p) ==
    /\ Free /\ p \in DOMAIN shown.projects /\ d \in CardMenu(p)
    /\ open' = [open EXCEPT ![d] = TRUE]
    /\ selected' = p
    /\ dismissed' = (dismissed /\ (requests # <<>> \/ isSuccess))
    /\ UNCHANGED <<mine, changes, shown, isLoading, busy, isSuccess, invited, timer, loads, requests, behind>>

(* Mutant: nothing is reset afterwards. *)
CloseWithoutReset(d) ==
    /\ open[d]
    /\ open' = [open EXCEPT ![d] = FALSE]
    /\ dismissed' = (dismissed \/ InFlight(d))
    /\ UNCHANGED <<mine, changes, shown, isLoading, selected, busy, isSuccess, invited, timer, loads, requests, behind>>

(* Escape or a button, which the delete dialog alone disables while busy;   *)
(* handleClose of the invite dialog sets the timer.                         *)
Close(d) ==
    /\ open[d]
    /\ open' = [open EXCEPT ![d] = FALSE]
    /\ timer' = (timer \/ d = "invite")
    /\ dismissed' = (dismissed \/ InFlight(d))
    /\ UNCHANGED <<mine, changes, shown, isLoading, selected, busy, isSuccess, invited, loads, requests, behind>>

(* 200 ms later, whatever is open by then. *)
TimerFires ==
    /\ timer
    /\ timer' = FALSE
    /\ isSuccess' = FALSE
    /\ UNCHANGED <<mine, changes, shown, isLoading, open, selected, busy, invited, loads, requests, behind, dismissed>>

InviteAnother ==
    /\ open["invite"] /\ isSuccess
    /\ isSuccess' = FALSE
    /\ UNCHANGED <<mine, changes, shown, isLoading, open, selected, busy, invited, timer, loads, requests, behind, dismissed>>

Submit(d, p) ==
    /\ open[d] /\ d \notin busy
    /\ busy' = busy \cup {d}
    /\ Send(d, p)
    /\ UNCHANGED <<mine, changes, shown, isLoading, open, selected, isSuccess, invited, timer, loads, behind, dismissed>>

(* onSubmit of CreateProjectModal, once the schema is satisfied. *)
SubmitCreate == \E p \in Projects : mine[p] = "unborn" /\ Submit("create", p)

(* onSubmit of InviteExpertModal and handleDeleteProject: they return at    *)
(* once when no project is selected.                                        *)
SubmitInvite == InviteScreen = "form" /\ selected # None /\ Submit("invite", selected)
ConfirmDelete == selected # None /\ Submit("delete", selected)

(* handleAcceptInvitation, handleDeclineInvitation *)
Answer(kind, p) ==
    /\ Free /\ p \in shown.invitations /\ kind \in InvitationCard(p)
    /\ Send(kind, p)
    /\ UNCHANGED <<mine, changes, shown, isLoading, dialogs, loads, behind>>

-------------------------------------------------------------------------------
(* Answers.                                                                 *)

ServerAccepts(i) ==
    LET r == requests[i]
    IN  /\ ~r.done /\ Accepts(mine[r.of], r.kind)
        /\ requests' = [requests EXCEPT ![i].done = TRUE]
        /\ IF r.kind = "invite" THEN UNCHANGED <<mine, changes, loads, behind>>
           ELSE Change([mine EXCEPT ![r.of] = After(@, r.kind)], FALSE)
        /\ UNCHANGED <<shown, isLoading, dialogs>>

(* Mutant: an accepted invitation is not followed by a load. *)
LoadsAfterDialogs(kind) == IF kind \in {"create", "delete"} THEN Append(loads, NewLoad) ELSE loads

LoadsAfter(kind) == IF kind = "invite" THEN loads ELSE Append(loads, NewLoad)

(* Mutant: the dialog stays open. *)
DeletedStaysOpen == open' = open /\ selected' = None

(* setDeleteModalOpen(false), setSelectedProject(null) *)
Deleted == open' = [open EXCEPT !["delete"] = FALSE] /\ selected' = None

RequestAnswered(i) ==
    LET r == requests[i]
    IN  /\ r.done
        /\ requests' = RemoveAt(requests, i)
        /\ loads' = LoadsAfter(r.kind)
        /\ busy' = busy \ {r.kind}
        /\ CASE r.kind = "delete" -> Deleted /\ UNCHANGED <<isSuccess, invited>>
             [] r.kind = "create" -> /\ open' = [open EXCEPT !["create"] = FALSE]
                                     /\ UNCHANGED <<selected, isSuccess, invited>>
             [] r.kind = "invite" -> isSuccess' = TRUE /\ invited' = r.of /\ UNCHANGED <<open, selected>>
             [] OTHER -> UNCHANGED <<open, selected, isSuccess, invited>>
        /\ UNCHANGED <<mine, changes, shown, isLoading, timer, behind, dismissed>>

(* Mutant: the dialog stays busy. *)
StillBusy(kind) == busy

NoLongerBusy(kind) == busy \ {kind}

(* Refused, or the network failed: a toast. *)
RequestFailed(i) ==
    LET r == requests[i]
    IN  /\ requests' = RemoveAt(requests, i)
        /\ busy' = NoLongerBusy(r.kind)
        /\ LET lost == r.done /\ r.kind # "invite"
           IN  /\ loads' = [j \in DOMAIN loads |-> [loads[j] EXCEPT !.misses = @ \/ lost]]
               /\ behind' = (behind \/ lost)
        /\ UNCHANGED <<mine, changes, shown, isLoading, open, selected, isSuccess, invited, timer, dismissed>>

OthersChange(p) ==
    /\ \E relation \in Theirs(mine[p]) : Change([mine EXCEPT ![p] = relation], TRUE)
    /\ UNCHANGED <<shown, isLoading, dialogs, requests>>

-------------------------------------------------------------------------------

Init ==
    /\ mine \in {m \in [Projects -> Relations] : \A p \in Projects : m[p] \in Given[p]}
    /\ changes = 0
    /\ shown = [projects |-> <<>>, invitations |-> {}]
    /\ isLoading = TRUE
    /\ open = [d \in Dialogs |-> FALSE] /\ selected = None /\ busy = {}
    /\ isSuccess = FALSE /\ invited = None /\ timer = FALSE /\ dismissed = FALSE
    /\ loads = <<NewLoad>>
    /\ requests = <<>>
    /\ behind = FALSE

UserActs ==
    \/ StartLoad \/ OpenCreate \/ InviteAnother
    \/ \E p \in Projects : \E d \in {"invite", "delete"} : OpenFor(d, p)
    \/ \E d \in Dialogs : Close(d)
    \/ SubmitCreate \/ SubmitInvite \/ ConfirmDelete
    \/ \E p \in Projects : Answer("accept", p) \/ Answer("decline", p)

CallEnds ==
    \/ \E i \in DOMAIN loads : LoadAnswered(i) \/ LoadFailed(i)
    \/ \E i \in DOMAIN requests : RequestAnswered(i) \/ RequestFailed(i)

Next ==
    \/ UserActs \/ CallEnds \/ TimerFires
    \/ \E i \in DOMAIN requests : ServerAccepts(i)
    \/ \E p \in Projects : OthersChange(p)

Spec == Init /\ [][Next]_vars

-------------------------------------------------------------------------------
(* Properties.                                                              *)

(* Types of the stored, the shown and the state of the dialogs. *)
TypeOK ==
    /\ mine \in [Projects -> Relations]
    /\ changes \in 0..MaxChanges
    /\ DOMAIN shown.projects \subseteq Projects /\ shown.invitations \subseteq Projects
    /\ {isLoading, isSuccess, timer, behind, dismissed} \subseteq BOOLEAN
    /\ open \in [Dialogs -> BOOLEAN]
    /\ {selected, invited} \subseteq Projects \cup {None}
    /\ busy \subseteq Dialogs
    /\ \A i \in DOMAIN requests : requests[i] \in [kind : Kinds, of : Projects, done : BOOLEAN]

Settled == ~isLoading /\ loads = <<>> /\ requests = <<>>

(* When nothing is under way the page shows my projects and invitations as  *)
(* stored, and the server accepts what their cards offer, unless others     *)
(* interfered or an answer was lost: every handler loads again.             *)
ListIsFresh ==
    Settled /\ ~behind =>
        /\ shown = Truth
        /\ \A p \in DOMAIN shown.projects : \A k \in Card(p).menu \ {"view"} : Accepts(mine[p], k)
        /\ \A p \in shown.invitations : \A k \in InvitationCard(p) : Accepts(mine[p], k)
        /\ Badge = Cardinality(InvitationsOf(mine))

(* An open invite or delete dialog is about a project, so that its button   *)
(* does something, unless a dialog was dismissed with a request under way,  *)
(* whose answer then clears the selection of the next one.                  *)
DialogHasProject == open["invite"] \/ open["delete"] => selected # None \/ dismissed

(* The invite dialog reports success for the project that it names: closing *)
(* it resets it before it is opened again, unless that is within 200 ms or  *)
(* it was dismissed before the answer.                                      *)
SuccessIsForSelected ==
    open["invite"] /\ isSuccess => invited = selected \/ timer \/ dismissed

(* A dialog shows its spinner, and refuses another click, just as long as   *)
(* its request is under way: each path of its handler ends it.              *)
BusyIsInFlight == busy = {d \in Dialogs : InFlight(d)}

===============================================================================
