--------------------------------- MODULE Account ---------------------------------
(***************************************************************************)
(* What the user sees of the own account, side by side: the session in the *)
(* tabs of the browser, the profile page, the photo, the tour and the way   *)
(* to a new password.  Each has variables of its own.                       *)
(***************************************************************************)
CONSTANTS
    Users, NoName, BadName, Registered,
    ProfileCalls, ProfileChanges,
    TrialNumbers,
    ClientTabs, ClientTokens, ClientCalls,
    PhotoRequests,
    ResetRequests, Redemptions, ResetTTL, ResetTime,
    Nothing, Nobody

VARIABLES
    profile_account, profile_changes, profile_user, profile_first, profile_last,
    profile_passwords, profile_deleteModalOpen, profile_busy, profile_calls, profile_behind,
    profile_edited, profile_ended,
    tutorial_open, tutorial_currentStep, tutorial_direction, tutorial_focus, tutorial_fields,
    client_accounts, client_refused, client_issued, client_localStorage, client_path,
    client_token, client_user, client_isLoading, client_submitting, client_pending, client_late,
    photos_photo_url, photos_bucket, photos_pc, photos_kind, photos_key, photos_overlapped,
    photos_kept,
    reset_now, reset_exists, reset_tokens, reset_password, reset_stage, reset_seen,
    reset_presented, reset_mailbox, reset_page, reset_link, reset_waiting, reset_newest,
    reset_overlapped, reset_raced, reset_changes

profileVars ==
    <<profile_account, profile_changes, profile_user, profile_first, profile_last,
    profile_passwords, profile_deleteModalOpen, profile_busy, profile_calls, profile_behind,
    profile_edited, profile_ended>>
tutorialVars ==
    <<tutorial_open, tutorial_currentStep, tutorial_direction, tutorial_focus, tutorial_fields>>
clientVars ==
    <<client_accounts, client_refused, client_issued, client_localStorage, client_path,
    client_token, client_user, client_isLoading, client_submitting, client_pending, client_late>>
photosVars ==
    <<photos_photo_url, photos_bucket, photos_pc, photos_kind, photos_key, photos_overlapped,
    photos_kept>>
resetVars ==
    <<reset_now, reset_exists, reset_tokens, reset_password, reset_stage, reset_seen,
    reset_presented, reset_mailbox, reset_page, reset_link, reset_waiting, reset_newest,
    reset_overlapped, reset_raced, reset_changes>>

P == INSTANCE Profile WITH
    Names <- Users, Empty <- NoName, Bad <- BadName, Nobody <- Nothing,
    MaxCalls <- ProfileCalls, MaxChanges <- ProfileChanges,
    account <- profile_account, changes <- profile_changes, user <- profile_user,
    first <- profile_first, last <- profile_last, passwords <- profile_passwords,
    deleteModalOpen <- profile_deleteModalOpen, busy <- profile_busy, calls <- profile_calls,
    behind <- profile_behind, edited <- profile_edited, ended <- profile_ended

U == INSTANCE Tutorial WITH
    Typed <- TrialNumbers, Blank <- Nothing,
    open <- tutorial_open, currentStep <- tutorial_currentStep, direction <- tutorial_direction,
    focus <- tutorial_focus, fields <- tutorial_fields

C == INSTANCE ClientSession WITH
    Tabs <- ClientTabs, Users <- Users, NoToken <- Nothing, NoUser <- Nobody, Registered <- Registered,
    MaxTokens <- ClientTokens, MaxCalls <- ClientCalls,
    accounts <- client_accounts, refused <- client_refused, issued <- client_issued,
    localStorage <- client_localStorage, path <- client_path, token <- client_token,
    user <- client_user, isLoading <- client_isLoading, submitting <- client_submitting,
    pending <- client_pending, late <- client_late

S == INSTANCE ProfilePhotos WITH
    Requests <- PhotoRequests, NoPhoto <- Nothing, NoUser <- Nobody,
    photo_url <- photos_photo_url, bucket <- photos_bucket, pc <- photos_pc, kind <- photos_kind,
    key <- photos_key, overlapped <- photos_overlapped, kept <- photos_kept

W == INSTANCE PasswordReset WITH
    Requests <- ResetRequests, Redemptions <- Redemptions, None <- Nothing,
    TTL <- ResetTTL, MaxTime <- ResetTime,
    now <- reset_now, exists <- reset_exists, tokens <- reset_tokens, password <- reset_password,
    stage <- reset_stage, seen <- reset_seen, presented <- reset_presented, mailbox <- reset_mailbox,
    page <- reset_page, link <- reset_link, waiting <- reset_waiting, newest <- reset_newest,
    overlapped <- reset_overlapped, raced <- reset_raced, changes <- reset_changes

ASSUME AccountAssumption ==
    P!ConstantsOK /\ U!ConstantsOK /\ C!ConstantsOK /\ S!ConstantsOK /\ W!ConstantsOK

-------------------------------------------------------------------------------
(* Properties.                                                              *)

(* pages/Profile.tsx: the settled page shows the account as stored. *)
ProfileIsFresh == P!ProfileIsFresh

(* pages/Profile.tsx: saved names are those of the account. *)
SavedNamesShown == P!SavedNamesShown

(* StepEnterOpinion: the trial judges as the form of a project does. *)
TrialIsLikeTheForm == U!TrialIsLikeTheForm

(* AuthContext: the user shown is the owner of the token that is sent. *)
ShownUserOwnsToken == C!ShownUserOwnsToken

(* routes/users.py: the row names an object that is stored, unless a        *)
(* handler that had read its key ended before it wrote the row.             *)
PhotoIsStored == S!PhotoIsStored

(* routes/users.py: and no other is stored, but for failed deletions and    *)
(* handlers that ended early, unless handlers overlapped.                   *)
NoOrphanObjects == S!NoOrphanObjects

(* password_reset_service.py: only the newest link works. *)
OnlyNewestWorks == W!OnlyNewestWorks

(* password_reset_service.py: a link changes the password once. *)
RedeemedOnce == W!RedeemedOnce
===============================================================================
