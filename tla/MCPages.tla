--------------------------------- MODULE MCPages ---------------------------------
(***************************************************************************)
(* The small components, side by side.  They share nothing, so that a       *)
(* behaviour that interleaves several of them shows no more than one in     *)
(* which a single one moves: the scene says which.  All the others stay in  *)
(* a state of theirs.  Account declares five of them.                       *)
(***************************************************************************)
EXTENDS TokenRevocation, Account, ResultCharts, Sequences, FiniteSets

CONSTANTS
    p1, p2,             \* projects
    ListInFlight, ListRequests, ListChanges,
    t1, t2,             \* tabs
    Subscribers, MaxToasts

VARIABLES
    scene,
    list_mine, list_changes, list_shown, list_isLoading, list_open, list_selected, list_busy,
    list_isSuccess, list_invited, list_timer, list_loads, list_requests, list_behind,
    list_dismissed,
    toasts_count, toasts_toasts, toasts_toastTimeouts, toasts_listeners, toasts_rendered,
    toasts_state, toasts_missed

listVars ==
    <<list_mine, list_changes, list_shown, list_isLoading, list_open, list_selected, list_busy,
    list_isSuccess, list_invited, list_timer, list_loads, list_requests, list_behind,
    list_dismissed>>
toastsVars ==
    <<toasts_count, toasts_toasts, toasts_toastTimeouts, toasts_listeners, toasts_rendered,
    toasts_state, toasts_missed>>

(* One project of mine; to the other I am invited, or it is new. *)
Given == [p \in {p1, p2} |-> IF p = p1 THEN {"admin"} ELSE {"invited", "unborn"}]

(* Whole numbers: the page rounds centroids to hundredths. *)
Whole(l, p, u) == [lower |-> Unit * l, peak |-> Unit * p, upper |-> Unit * u]
MCLikertValues == <<0>>
MCEstimates == {Whole(1, 1, 1), Whole(1, 1, 3), Whole(2, 3, 3)}

L == INSTANCE ProjectList WITH
    Given <- Given, Projects <- {p1, p2}, None <- Nothing,
    MaxInFlight <- ListInFlight, MaxRequests <- ListRequests, MaxChanges <- ListChanges,
    mine <- list_mine, changes <- list_changes, shown <- list_shown, isLoading <- list_isLoading,
    open <- list_open, selected <- list_selected, busy <- list_busy, isSuccess <- list_isSuccess,
    invited <- list_invited, timer <- list_timer, loads <- list_loads, requests <- list_requests,
    behind <- list_behind, dismissed <- list_dismissed

N == INSTANCE Toasts WITH
    Components <- Subscribers, MaxToasts <- MaxToasts,
    count <- toasts_count, toasts <- toasts_toasts, toastTimeouts <- toasts_toastTimeouts,
    listeners <- toasts_listeners, rendered <- toasts_rendered, state <- toasts_state,
    missed <- toasts_missed

ASSUME PagesAssumption ==
    L!ConstantsOK /\ N!ConstantsOK

-------------------------------------------------------------------------------

Scenes == {"list", "profile", "charts", "tutorial", "client", "toasts", "photos", "reset", "tokens"}

(* Bounds of the account: one name for all at the start; what has no part   *)
(* in the names and the photo is tried with one call at a time.             *)
ProfileInit ==
    /\ P!Init
    /\ profile_account = [first |-> "ann", last |-> "ann", photo |-> profile_account.photo,
                          owns |-> profile_account.photo = 0]
ProfileNext ==
    /\ P!Next
    /\ \/ profile_user' = Nothing
       \/ profile_last' \in {"ann", NoName, BadName} /\ (profile_first' = "ann" \/ profile_last' = "ann")
    /\ \/ profile_passwords' # "missing" \/ profile_deleteModalOpen'
       \/ \E i \in DOMAIN profile_calls' : profile_calls'[i].kind \in {"export", "delete_account", "password"}
       => ~profile_edited' /\ Len(profile_calls') <= 1

(* A dialog that was dismissed is followed up to the first change. *)
ListNext == L!Next /\ (list_dismissed' => list_changes' <= 1)

(* The experts submit their first opinions in turn; a fourth, with whom the *)
(* agreement can be less than high, has the last word.                      *)
ChartsScene ==
    /\ ChartsNext
    /\ \A i \in DOMAIN stored' : stored'[i].expert_id = i
    /\ Len(stored') = 4 => Len(before') = 3 /\ tab' = "triangle" /\ ~showIndividual'

(* Bounds of the client: the second tab has pages that need a user, no      *)
(* forms, and one call at a time; bob registers before ann logs in; only    *)
(* the first token expires.                                                 *)
ClientNext ==
    /\ C!Next
    /\ client_path'[t2] # "public" /\ ~client_submitting'[t2] /\ Len(client_pending'[t2]) <= 1
    /\ client_path'[t1] = "public" =>
          client_pending'[t1] = <<>> \/ client_user'[t1] # Nobody \/ client_late'[t1] \/ ~client_isLoading'[t1]
    /\ \A t \in {t1, t2} : \A i \in DOMAIN client_pending'[t] :
          LET c == client_pending'[t][i]
          IN  /\ c.kind \in {"login", "register"} => c.who = IF client_issued = 0 THEN "bob" ELSE "ann"
              /\ t = t2 => c.kind \notin {"login", "register", "delete_account"}
    /\ \A tok \in client_refused' : tok.n = 1

(* In the first state of a scene the others are in one of theirs. *)
MCInit ==
    /\ scene \in Scenes
    /\ Init /\ L!Init /\ ProfileInit /\ ChartsInit /\ U!Init /\ C!Init /\ N!Init /\ S!Init /\ W!Init
    /\ scene # "list" => list_mine[p2] = "invited"
    /\ scene # "profile" => profile_account.photo = 0
    /\ scene # "photos" => photos_photo_url = Nothing

Step(s) ==
    CASE s = "list"     -> ListNext
      [] s = "profile"  -> ProfileNext
      [] s = "charts"   -> ChartsScene
      [] s = "tutorial" -> U!Next
      [] s = "client"   -> ClientNext
      [] s = "toasts"   -> N!Next
      [] s = "photos"   -> S!Next
      [] s = "reset"    -> W!Next
      [] s = "tokens"   -> Next

Rest(s) ==
    CASE s = "list"     -> UNCHANGED listVars
      [] s = "profile"  -> UNCHANGED profileVars
      [] s = "charts"   -> UNCHANGED chartsVars
      [] s = "tutorial" -> UNCHANGED tutorialVars
      [] s = "client"   -> UNCHANGED clientVars
      [] s = "toasts"   -> UNCHANGED toastsVars
      [] s = "photos"   -> UNCHANGED photosVars
      [] s = "reset"    -> UNCHANGED resetVars
      [] s = "tokens"   -> UNCHANGED vars

MCNext ==
    /\ UNCHANGED scene
    /\ Step(scene)
    /\ \A s \in Scenes \ {scene} : Rest(s)

allVars ==
    <<scene, vars, listVars, profileVars, chartsVars, tutorialVars, clientVars, toastsVars,
      photosVars, resetVars>>

MCSpec == MCInit /\ [][MCNext]_allVars

-------------------------------------------------------------------------------
(* Properties.                                                              *)

(* The types of the state of the component that moves. *)
TypesOK ==
    CASE scene = "list"     -> L!TypeOK
      [] scene = "profile"  -> P!TypeOK
      [] scene = "charts"   -> ChartsTypeOK
      [] scene = "tutorial" -> U!TypeOK
      [] scene = "client"   -> C!TypeOK
      [] scene = "toasts"   -> N!TypeOK
      [] scene = "photos"   -> S!TypeOK
      [] scene = "reset"    -> W!TypeOK
      [] scene = "tokens"   -> TypeOK

(* Every page and dialog shows a spinner just as long as it waits. *)
SpinnersEnd == L!BusyIsInFlight /\ P!SpinnersEnd /\ C!SpinnersHaveCalls

(* pages/Projects.tsx: the settled list is the stored one. *)
ListIsFresh == L!ListIsFresh

(* pages/Projects.tsx: an open dialog is about a project. *)
DialogHasProject == L!DialogHasProject

(* InviteExpertModal: success is shown for the project that it names. *)
SuccessIsForSelected == L!SuccessIsForSelected

(* use-toast.ts: subscribers show the store. *)
SubscribersShowStore == N!SubscribersShowStore

(* use-toast.ts: what is closed is going to be removed. *)
ClosedToastsAreRemoved == N!ClosedToastsAreRemoved
===============================================================================
