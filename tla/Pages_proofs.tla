------------------------------ MODULE Pages_proofs ------------------------------
(***************************************************************************)
(* What is proved of a component holds of it among the others: here the     *)
(* variables of MCPages stand for those of the components.                  *)
(***************************************************************************)
EXTENDS MCPages, ResultCharts_proofs, Account_proofs, SequenceTheorems

Listing == INSTANCE ProjectList_proofs WITH
    Given <- Given, Projects <- {p1, p2}, None <- Nothing,
    MaxInFlight <- ListInFlight, MaxRequests <- ListRequests, MaxChanges <- ListChanges,
    mine <- list_mine, changes <- list_changes, shown <- list_shown, isLoading <- list_isLoading,
    open <- list_open, selected <- list_selected, busy <- list_busy, isSuccess <- list_isSuccess,
    invited <- list_invited, timer <- list_timer, loads <- list_loads, requests <- list_requests,
    behind <- list_behind, dismissed <- list_dismissed

-------------------------------------------------------------------------------
(* The scenes.                                                              *)

(* A component moves as it does alone, or rests.                            *)
LEMMA SceneStep ==
    ASSUME [MCNext]_allVars
    PROVE  /\ [S!Next]_photosVars
           /\ [W!Next]_resetVars
           /\ [L!Next]_listVars
           /\ [N!Next]_toastsVars
           /\ [C!Next]_clientVars
           /\ [P!Next]_profileVars
           /\ [U!Next]_tutorialVars
           /\ [Next]_vars
<1>1. CASE MCNext
  BY <1>1 DEF MCNext, Step, Rest, Scenes, ListNext, ClientNext, ProfileNext
<1>2. CASE UNCHANGED allVars
  BY <1>2 DEF allVars
<1> QED
  BY <1>1, <1>2

-------------------------------------------------------------------------------
(* The list of projects and its dialogs.                                    *)

(* Its bounds are numbers, and no project is None.                          *)
LEMMA ListConstants == Listing!ConstantsOK
  BY PagesAssumption DEF L!ConstantsOK, L!Relations, Listing!ConstantsOK, Listing!Relations

(* The page starts as it does alone.                                         *)
LEMMA ListInit == MCInit => Listing!IInv
<1>1. L!Init => Listing!Init
  BY DEF L!Init, L!Relations, L!Dialogs, L!NewLoad, Listing!Init, Listing!Relations, Listing!Dialogs,
     Listing!NewLoad
<1> QED
  BY <1>1, ListConstants, Listing!InitIInv DEF MCInit

(* The actions here are those of the page alone, one by one.                 *)
LEMMA ListStep == Listing!IInv /\ [MCNext]_allVars => Listing!IInv'
<1> USE DEF L!dialogs, L!Dialogs, L!Kinds, L!NewLoad, L!Room, L!Send, L!InFlight, L!Change, L!Truth,
            L!ProjectsOf, L!InvitationsOf, L!Member, L!Accepts, L!After, L!Theirs, L!AfterLoad, L!RemoveAt,
            L!CardMenu, L!InvitationCard, L!OpenDialogs, L!Free, L!InviteScreen
<1> USE DEF Listing!dialogs, Listing!Dialogs, Listing!Kinds, Listing!NewLoad, Listing!Room, Listing!Send,
            Listing!InFlight, Listing!Change, Listing!Truth, Listing!ProjectsOf, Listing!InvitationsOf,
            Listing!Member, Listing!Accepts, Listing!After, Listing!Theirs, Listing!AfterLoad,
            Listing!RemoveAt, Listing!CardMenu, Listing!InvitationCard, Listing!OpenDialogs, Listing!Free,
            Listing!InviteScreen
<1>1. /\ L!StartLoad => Listing!StartLoad
      /\ L!OpenCreate => Listing!OpenCreate
      /\ L!InviteAnother => Listing!InviteAnother
      /\ L!TimerFires => Listing!TimerFires
  BY DEF L!StartLoad, L!OpenCreate, L!InviteAnother, L!TimerFires, Listing!StartLoad, Listing!OpenCreate,
     Listing!InviteAnother, Listing!TimerFires
<1>2. ASSUME NEW d, NEW p
      PROVE  (L!OpenFor(d, p) => Listing!OpenFor(d, p)) /\ (L!Close(d) => Listing!Close(d))
  BY DEF L!OpenFor, L!Close, Listing!OpenFor, Listing!Close
<1>3. L!SubmitCreate \/ L!SubmitInvite \/ L!ConfirmDelete
      => Listing!SubmitCreate \/ Listing!SubmitInvite \/ Listing!ConfirmDelete
  BY DEF L!SubmitCreate, L!SubmitInvite, L!ConfirmDelete, L!Submit, Listing!SubmitCreate,
     Listing!SubmitInvite, Listing!ConfirmDelete, Listing!Submit
<1>4. ASSUME NEW kind, NEW p PROVE L!Answer(kind, p) => Listing!Answer(kind, p)
  BY DEF L!Answer, Listing!Answer
<1>5. ASSUME NEW i
      PROVE  L!LoadAnswered(i) \/ L!LoadFailed(i) => Listing!LoadAnswered(i) \/ Listing!LoadFailed(i)
  BY DEF L!LoadAnswered, L!LoadFailed, Listing!LoadAnswered, Listing!LoadFailed
<1>6. ASSUME NEW i
      PROVE  L!RequestAnswered(i) \/ L!RequestFailed(i) => Listing!RequestAnswered(i) \/ Listing!RequestFailed(i)
  BY DEF L!RequestAnswered, L!LoadsAfter, L!Deleted, L!RequestFailed, L!NoLongerBusy,
     Listing!RequestAnswered, Listing!LoadsAfter, Listing!Deleted, Listing!RequestFailed, Listing!NoLongerBusy
<1>7. ASSUME NEW i PROVE L!ServerAccepts(i) => Listing!ServerAccepts(i)
  BY DEF L!ServerAccepts, Listing!ServerAccepts
<1>8. ASSUME NEW p PROVE L!OthersChange(p) => Listing!OthersChange(p)
  BY DEF L!OthersChange, Listing!OthersChange
<1>9. L!UserActs => Listing!UserActs
  BY <1>1, <1>2, <1>3, <1>4, Zenon DEF L!UserActs, Listing!UserActs
<1>10. L!CallEnds => Listing!CallEnds
  BY <1>5, <1>6, Zenon DEF L!CallEnds, Listing!CallEnds
<1>11. L!Next => Listing!Next
  BY <1>1, <1>7, <1>8, <1>9, <1>10, Zenon DEF L!Next, Listing!Next
<1>12. [MCNext]_allVars => [Listing!Next]_(Listing!vars)
  BY <1>11, SceneStep DEF listVars, Listing!vars
<1> QED
  BY <1>12, ListConstants, Listing!IInvStep

(* The properties here are those of the page alone.                          *)
LEMMA ListGives == Listing!IInv => ListIsFresh /\ DialogHasProject /\ SuccessIsForSelected /\ L!BusyIsInFlight
<1>1. Listing!ListIsFresh => ListIsFresh
  <2>0. \A s : L!Cardinality(s) = Listing!Cardinality(s)
    BY Zenon DEF L!Cardinality, Listing!Cardinality
  <2>1. /\ L!Settled <=> Listing!Settled
        /\ L!Badge = Listing!Badge
        /\ \A m : L!ProjectsOf(m) = Listing!ProjectsOf(m) /\ L!InvitationsOf(m) = Listing!InvitationsOf(m)
    BY <2>0 DEF L!Settled, L!Badge, L!ProjectsOf, L!InvitationsOf, L!Member, Listing!Settled, Listing!Badge,
       Listing!ProjectsOf, Listing!InvitationsOf, Listing!Member
  <2>2. L!Truth = Listing!Truth
    BY <2>1 DEF L!Truth, Listing!Truth
  <2>3. \A p : L!Card(p) = Listing!Card(p) /\ L!InvitationCard(p) = Listing!InvitationCard(p)
    BY DEF L!Card, L!CardMenu, L!InvitationCard, Listing!Card, Listing!CardMenu, Listing!InvitationCard
  <2>4. \A relation, k : L!Accepts(relation, k) = Listing!Accepts(relation, k)
    BY DEF L!Accepts, Listing!Accepts
  <2> QED
    BY <2>0, <2>1, <2>2, <2>3, <2>4, Zenon DEF ListIsFresh, L!ListIsFresh, Listing!ListIsFresh
<1>2. Listing!DialogHasProject => DialogHasProject
  BY DEF DialogHasProject, L!DialogHasProject, Listing!DialogHasProject
<1>3. Listing!SuccessIsForSelected => SuccessIsForSelected
  BY DEF SuccessIsForSelected, L!SuccessIsForSelected, Listing!SuccessIsForSelected
<1>4. Listing!BusyIsInFlight => L!BusyIsInFlight
  BY DEF L!BusyIsInFlight, L!InFlight, L!Dialogs, Listing!BusyIsInFlight, Listing!InFlight, Listing!Dialogs
<1> QED
  BY <1>1, <1>2, <1>3, <1>4, Listing!IInvGives

(* pages/Projects.tsx: the settled list is the stored one, for any number   *)
(* of loads, requests and changes.                                          *)
THEOREM PagesListIsFresh == MCSpec => []ListIsFresh
<1>1. Listing!IInv => ListIsFresh
  BY ListGives
<1> QED
  BY <1>1, ListInit, ListStep, PTL DEF MCSpec

(* pages/Projects.tsx: an open dialog is about a project.                   *)
THEOREM PagesDialogHasProject == MCSpec => []DialogHasProject
<1>1. Listing!IInv => DialogHasProject
  BY ListGives
<1> QED
  BY <1>1, ListInit, ListStep, PTL DEF MCSpec

(* InviteExpertModal: success is shown for the project that it names.       *)
THEOREM PagesSuccessIsForSelected == MCSpec => []SuccessIsForSelected
<1>1. Listing!IInv => SuccessIsForSelected
  BY ListGives
<1> QED
  BY <1>1, ListInit, ListStep, PTL DEF MCSpec

-------------------------------------------------------------------------------
(* The account: its parts move here as they do alone.                       *)

(* AuthContext: as SessionCorrect, in one of the scenes.                    *)
THEOREM PagesShownUserOwnsToken == MCSpec => []ShownUserOwnsToken
<1>1. ClientInv => ShownUserOwnsToken
  BY ClientGives
<1>2. MCInit => ClientInv
  BY ClientInit DEF MCInit
<1>3. ClientInv /\ [MCNext]_allVars => ClientInv'
  BY SceneStep, ClientStep
<1> QED
  BY <1>1, <1>2, <1>3, PTL DEF MCSpec

(* StepEnterOpinion: as TrialCorrect, in one of the scenes.                 *)
THEOREM PagesTrialIsLikeTheForm == MCSpec => []TrialIsLikeTheForm
<1>1. TutorialTypes => TrialIsLikeTheForm
  BY TutorialGives
<1>2. MCInit => TutorialTypes
  BY TutorialInit DEF MCInit
<1>3. TutorialTypes /\ [MCNext]_allVars => TutorialTypes'
  BY SceneStep, TutorialStep
<1> QED
  BY <1>1, <1>2, <1>3, PTL DEF MCSpec

(* pages/Profile.tsx: as ProfileCorrect, in one of the scenes.              *)
THEOREM PagesProfileIsFresh == MCSpec => []ProfileIsFresh
<1>1. ProfileInv => ProfileIsFresh
  BY ProfileGives
<1>2. MCInit => ProfileInv
  BY ProfileStarts DEF MCInit, ProfileInit
<1>3. ProfileInv /\ [MCNext]_allVars => ProfileInv'
  BY SceneStep, ProfileStep
<1> QED
  BY <1>1, <1>2, <1>3, PTL DEF MCSpec

(* pages/Profile.tsx: as SavedNamesCorrect, in one of the scenes.           *)
THEOREM PagesSavedNamesShown == MCSpec => []SavedNamesShown
<1>1. ProfileInv => SavedNamesShown
  BY ProfileGives
<1>2. MCInit => ProfileInv
  BY ProfileStarts DEF MCInit, ProfileInit
<1>3. ProfileInv /\ [MCNext]_allVars => ProfileInv'
  BY SceneStep, ProfileStep
<1> QED
  BY <1>1, <1>2, <1>3, PTL DEF MCSpec

(* routes/users.py: as PhotoCorrect, in one of the scenes.                  *)
THEOREM PagesPhotoIsStored == MCSpec => []PhotoIsStored
<1>1. PhotosInv => PhotoIsStored
  BY PhotosGive
<1>2. MCInit => PhotosInv
  BY PhotosInit DEF MCInit
<1>3. PhotosInv /\ [MCNext]_allVars => PhotosInv'
  BY SceneStep, PhotosStep
<1> QED
  BY <1>1, <1>2, <1>3, PTL DEF MCSpec

(* routes/users.py: as BucketCorrect, in one of the scenes.                 *)
THEOREM PagesNoOrphanObjects == MCSpec => []NoOrphanObjects
<1>1. PhotosInv => NoOrphanObjects
  BY PhotosGive
<1>2. MCInit => PhotosInv
  BY PhotosInit DEF MCInit
<1>3. PhotosInv /\ [MCNext]_allVars => PhotosInv'
  BY SceneStep, PhotosStep
<1> QED
  BY <1>1, <1>2, <1>3, PTL DEF MCSpec

-------------------------------------------------------------------------------
(* The way to a new password.                                               *)

(* password_reset_service.py: only the newest link works, for any number of *)
(* requests that do not overlap and any lifetime.                           *)
THEOREM PagesOnlyNewestWorks == MCSpec => []OnlyNewestWorks
<1>1. ResetInv => OnlyNewestWorks
  BY ResetGives
<1>2. MCInit => ResetInv
  BY ResetInit DEF MCInit
<1>3. ResetInv /\ [MCNext]_allVars => ResetInv'
  BY SceneStep, ResetStep
<1> QED
  BY <1>1, <1>2, <1>3, PTL DEF MCSpec

(* password_reset_service.py: a link changes the password once.             *)
THEOREM PagesRedeemedOnce == MCSpec => []RedeemedOnce
<1>1. ResetInv => RedeemedOnce
  BY ResetGives
<1>2. MCInit => ResetInv
  BY ResetInit DEF MCInit
<1>3. ResetInv /\ [MCNext]_allVars => ResetInv'
  BY SceneStep, ResetStep
<1> QED
  BY <1>1, <1>2, <1>3, PTL DEF MCSpec

-------------------------------------------------------------------------------
(* The toasts.                                                              *)

(* What the store, or a copy of it, can be: at most one toast.              *)
Stores == {<<>>} \cup {<<t>> : t \in N!Toast}

(* The toast in the store is the newest one, and its timer runs once it is  *)
(* closed; whoever has rendered and missed nothing shows the store.         *)
ToastsTypes ==
    /\ toasts_count \in 0..MaxToasts /\ toasts_toastTimeouts \subseteq 1..toasts_count
    /\ toasts_listeners \cap toasts_rendered = {}
    /\ toasts_listeners \cup toasts_rendered \subseteq Subscribers
    /\ toasts_state \in [Subscribers -> Stores] /\ toasts_missed \in [Subscribers -> BOOLEAN]
    /\ toasts_toasts \in Stores

NewestShown == \A i \in DOMAIN toasts_toasts : toasts_toasts[i].id = toasts_count

Copied ==
    \A c \in toasts_listeners \cup toasts_rendered : ~toasts_missed[c] => toasts_state[c] = toasts_toasts

ToastsInv == ToastsTypes /\ NewestShown /\ Copied /\ N!ClosedToastsAreRemoved

(* A sequence of one.                                                       *)
LEMMA FirstOf ==
    ASSUME NEW Set, NEW s \in Seq(Set), NEW t \in Set
    PROVE  SubSeq(<<t>> \o s, 1, 1) = <<t>>
<1>1. <<t>> \in Seq(Set) /\ Len(<<t>>) = 1 /\ <<t>>[1] = t
  OBVIOUS
<1>2. PICK u : u = <<t>> \o s
  OBVIOUS
<1>3. u \in Seq(Set) /\ Len(u) = 1 + Len(s) /\ u[1] = t
  BY <1>1, <1>2, ConcatProperties
<1>4. PICK v : v = SubSeq(u, 1, 1)
  OBVIOUS
<1>5. v \in Seq(Set) /\ Len(v) = 1 /\ v[1] = t
  BY <1>3, <1>4, SubSeqProperties
<1>6. v = <<t>>
  BY <1>5
<1> QED
  BY <1>2, <1>4, <1>6

(* A store is empty or has a single toast.                                  *)
LEMMA StoreIs ==
    ASSUME NEW s \in Stores
    PROVE  /\ s \in Seq(N!Toast) /\ Len(s) \in {0, 1} /\ DOMAIN s \subseteq {1}
           /\ s # <<>> => DOMAIN s = {1} /\ Len(s) = 1 /\ s[1] \in N!Toast /\ s = <<s[1]>>
<1>1. CASE s = <<>>
  BY <1>1
<1>2. CASE s # <<>>
  <2>1. PICK t \in N!Toast : s = <<t>>
    BY <1>2 DEF Stores
  <2> QED
    BY <2>1
<1> QED
  BY <1>1, <1>2

(* What the reducer makes of a store is one.                                *)
LEMMA AddedIs ==
    ASSUME toasts_toasts \in Stores, NEW n \in 1..MaxToasts
    PROVE  /\ N!Added(n) \in Stores /\ DOMAIN N!Added(n) = {1}
           /\ N!Added(n)[1].id = n /\ N!Added(n)[1].open
<1>1. PICK t \in N!Toast : t = [id |-> n, open |-> TRUE]
  BY DEF N!Toast, N!Ids
<1>2. toasts_toasts \in Seq(N!Toast) /\ (Len(toasts_toasts) = 0 \/ Len(toasts_toasts) = 1)
  BY StoreIs
<1>3. (IF Len(toasts_toasts) < 1 THEN Len(toasts_toasts) + 1 ELSE 1) = 1
  BY <1>2
<1>4. N!Added(n) = <<t>>
  BY <1>1, <1>2, <1>3, FirstOf DEF N!Added, N!Newest, N!TOAST_LIMIT
<1>5. t.id = n /\ t.open
  BY <1>1
<1> QED
  BY <1>4, <1>5 DEF Stores

(* A toast that is closed is still the same one.                             *)
LEMMA ClosedIs ==
    ASSUME NEW t \in N!Toast
    PROVE  /\ [t EXCEPT !.open = FALSE] \in N!Toast /\ [t EXCEPT !.open = FALSE].id = t.id
           /\ ~[t EXCEPT !.open = FALSE].open
  BY DEF N!Toast

(* DISMISS_TOAST closes the toasts that it names and keeps the others.       *)
LEMMA DismissedIs ==
    ASSUME toasts_toasts \in Stores, NEW ids
    PROVE  /\ N!Dismissed(ids) \in Stores /\ DOMAIN N!Dismissed(ids) = DOMAIN toasts_toasts
           /\ \A i \in DOMAIN toasts_toasts :
                /\ N!Dismissed(ids)[i].id = toasts_toasts[i].id
                /\ ~N!Dismissed(ids)[i].open => toasts_toasts[i].id \in ids \/ ~toasts_toasts[i].open
<1>1. CASE toasts_toasts = <<>>
  <2>1. N!Dismissed(ids) = <<>>
    BY <1>1 DEF N!Dismissed
  <2> QED
    BY <1>1, <2>1 DEF Stores
<1>2. CASE toasts_toasts # <<>>
  <2>1. PICK t \in N!Toast : toasts_toasts = <<t>>
    BY <1>2, StoreIs
  <2>2. DOMAIN toasts_toasts = {1} /\ toasts_toasts[1] = t
    BY <2>1
  <2>3. PICK c \in N!Toast :
            /\ c.id = t.id /\ (~c.open => t.id \in ids \/ ~t.open)
            /\ N!Dismissed(ids) = [i \in {1} |-> c]
    <3>1. CASE t.id \in ids
      <4>1. N!Dismissed(ids) = [i \in {1} |-> [t EXCEPT !.open = FALSE]]
        BY <2>2, <3>1 DEF N!Dismissed
      <4> QED
        BY <3>1, <4>1, ClosedIs
    <3>2. CASE t.id \notin ids
      <4>1. N!Dismissed(ids) = [i \in {1} |-> t]
        BY <2>2, <3>2 DEF N!Dismissed
      <4> QED
        BY <4>1
    <3> QED
      BY <3>1, <3>2
  <2>4. N!Dismissed(ids) = <<c>>
    BY <2>3
  <2> HIDE DEF N!Dismissed
  <2> QED
    BY <2>2, <2>3, <2>4 DEF Stores
<1> QED
  BY <1>1, <1>2

(* REMOVE_TOAST leaves no toast of its id: the store holds one.              *)
LEMMA RemovedIs ==
    ASSUME toasts_toasts \in Stores, NEW n
    PROVE  /\ N!Removed(n) = toasts_toasts \/ N!Removed(n) = <<>>
           /\ N!Removed(n) = toasts_toasts => \A i \in DOMAIN toasts_toasts : toasts_toasts[i].id # n
<1> DEFINE found == {k \in 1..Len(toasts_toasts) : toasts_toasts[k].id = n}
<1>1. CASE found = {}
  <2>1. ~ \E k \in 1..Len(toasts_toasts) : toasts_toasts[k].id = n
    BY <1>1
  <2>2. N!Removed(n) = toasts_toasts
    BY <2>1 DEF N!Removed, N!RemoveFirstMatch
  <2> QED
    BY <2>1, <2>2, StoreIs
<1>2. CASE found # {}
  <2>1. \E k \in 1..Len(toasts_toasts) : toasts_toasts[k].id = n
    BY <1>2
  <2>2. found = {1} /\ Len(toasts_toasts) = 1
    BY <1>2, StoreIs
  <2>3. N!Min({1}) = 1
    BY DEF N!Min
  <2>4. N!SelectInSeq(toasts_toasts, LAMBDA v : v.id = n) = 1
    BY <2>2, <2>3 DEF N!SelectInSeq
  <2>5. N!RemoveAt(toasts_toasts, 1) = <<>>
    BY <2>2, StoreIs DEF N!RemoveAt
  <2>6. N!Removed(n) = N!RemoveAt(toasts_toasts, N!SelectInSeq(toasts_toasts, LAMBDA v : v.id = n))
    BY <2>1 DEF N!Removed, N!RemoveFirstMatch
  <2>7. N!Removed(n) = <<>> /\ toasts_toasts # <<>>
    BY <2>2, <2>4, <2>5, <2>6
  <2> QED
    BY <2>7
<1> QED
  BY <1>1, <1>2

(* A dispatch: the listeners are told, and who has rendered but does not    *)
(* listen yet has missed what has changed.                                  *)
LEMMA DispatchIs ==
    ASSUME ToastsInv, NEW new \in Stores, N!Dispatch(new), UNCHANGED <<toasts_listeners, toasts_rendered>>
    PROVE  /\ toasts_toasts' = new
           /\ toasts_state' \in [Subscribers -> Stores] /\ toasts_missed' \in [Subscribers -> BOOLEAN]
           /\ Copied'
<1>1. /\ toasts_state \in [Subscribers -> Stores] /\ toasts_missed \in [Subscribers -> BOOLEAN]
      /\ toasts_listeners \cup toasts_rendered \subseteq Subscribers
  BY DEF ToastsInv, ToastsTypes
<1>2. toasts_toasts' = new
  BY DEF N!Dispatch
<1>3. /\ toasts_state' \in [Subscribers -> Stores]
      /\ \A c \in Subscribers : toasts_state'[c] = IF c \in toasts_listeners THEN new ELSE toasts_state[c]
  BY <1>1 DEF N!Dispatch, N!Tell
<1>4. ASSUME NEW c \in Subscribers
      PROVE  /\ toasts_missed'[c] \in BOOLEAN
             /\ ~toasts_missed'[c] /\ c \in toasts_rendered =>
                  c \in toasts_listeners \/ (~toasts_missed[c] /\ new = toasts_toasts)
  <2>1. toasts_missed' = [d \in Subscribers |->
            IF d \in toasts_listeners THEN FALSE
            ELSE toasts_missed[d] \/ (d \in toasts_rendered /\ new # toasts_toasts)]
    BY DEF N!Dispatch
  <2>2. CASE c \in toasts_listeners
    BY <2>1, <2>2
  <2>3. CASE c \notin toasts_listeners
    <3>1. toasts_missed'[c] = (toasts_missed[c] \/ (c \in toasts_rendered /\ new # toasts_toasts))
      BY <2>1, <2>3, Zenon
    <3> QED
      BY <2>3, <3>1, Zenon
  <2> QED
    BY <2>2, <2>3
<1>5. toasts_missed' \in [Subscribers -> BOOLEAN]
  <2>1. toasts_missed' = [c \in Subscribers |-> toasts_missed'[c]]
    BY DEF N!Dispatch
  <2> QED
    BY <1>4, <2>1
<1>6. Copied'
  <2>1. SUFFICES ASSUME NEW c \in toasts_listeners \cup toasts_rendered, ~toasts_missed'[c]
                 PROVE  toasts_state'[c] = new
    BY <1>2 DEF Copied
  <2>2. CASE c \in toasts_listeners
    BY <1>1, <1>3, <2>2
  <2>3. CASE c \notin toasts_listeners
    BY <1>1, <1>3, <1>4, <2>1, <2>3 DEF ToastsInv, Copied
  <2> QED
    BY <2>2, <2>3
<1> QED
  BY <1>2, <1>3, <1>5, <1>6

(* toast(): the new one is open, and the only one.                          *)
LEMMA ShowStep == ASSUME N!ConstantsOK, ToastsInv, N!Show PROVE ToastsInv'
<1>1. /\ toasts_count < MaxToasts /\ toasts_count' = toasts_count + 1 /\ N!Dispatch(N!Added(toasts_count + 1))
      /\ UNCHANGED <<toasts_toastTimeouts, toasts_listeners, toasts_rendered>>
  BY DEF N!Show
<1>2. toasts_count \in 0..MaxToasts /\ MaxToasts \in Nat /\ toasts_toastTimeouts \subseteq 1..toasts_count
  BY DEF N!ConstantsOK, ToastsInv, ToastsTypes
<1>3. toasts_count' \in 1..MaxToasts /\ toasts_toastTimeouts' \subseteq 1..toasts_count'
  BY <1>1, <1>2
<1>4. PICK new : new = N!Added(toasts_count + 1)
  OBVIOUS
<1>5. new \in Stores /\ DOMAIN new = {1} /\ new[1].id = toasts_count' /\ new[1].open
  BY <1>1, <1>3, <1>4, AddedIs DEF ToastsInv, ToastsTypes
<1>6. /\ toasts_toasts' = new /\ Copied'
      /\ toasts_state' \in [Subscribers -> Stores] /\ toasts_missed' \in [Subscribers -> BOOLEAN]
  BY <1>1, <1>4, <1>5, DispatchIs
<1>7. ToastsTypes'
  BY <1>1, <1>2, <1>3, <1>5, <1>6 DEF ToastsInv, ToastsTypes
<1>8. NewestShown' /\ N!ClosedToastsAreRemoved'
  BY <1>5, <1>6 DEF NewestShown, N!ClosedToastsAreRemoved
<1> QED
  BY <1>6, <1>7, <1>8 DEF ToastsInv

(* Toasts are closed, and their timers run.                                 *)
LEMMA DismissStep ==
    ASSUME ToastsInv, NEW ids \in SUBSET (1..toasts_count), toasts_toastTimeouts' = N!Schedule(ids),
           N!Dispatch(N!Dismissed(ids)), UNCHANGED <<toasts_count, toasts_listeners, toasts_rendered>>
    PROVE  ToastsInv'
<1>1. PICK new : new = N!Dismissed(ids)
  OBVIOUS
<1>2. /\ new \in Stores /\ DOMAIN new = DOMAIN toasts_toasts
      /\ \A i \in DOMAIN toasts_toasts : /\ new[i].id = toasts_toasts[i].id
                                         /\ ~new[i].open => toasts_toasts[i].id \in ids \/ ~toasts_toasts[i].open
  BY <1>1, DismissedIs DEF ToastsInv, ToastsTypes
<1>3. /\ toasts_toasts' = new /\ Copied'
      /\ toasts_state' \in [Subscribers -> Stores] /\ toasts_missed' \in [Subscribers -> BOOLEAN]
  BY <1>1, <1>2, DispatchIs
<1>4. toasts_toastTimeouts' = toasts_toastTimeouts \cup ids
  BY DEF N!Schedule
<1>5. ToastsTypes'
  BY <1>2, <1>3, <1>4 DEF ToastsInv, ToastsTypes
<1>6. NewestShown'
  BY <1>2, <1>3 DEF ToastsInv, NewestShown
<1>7. N!ClosedToastsAreRemoved'
  BY <1>2, <1>3, <1>4 DEF ToastsInv, N!ClosedToastsAreRemoved
<1> QED
  BY <1>3, <1>5, <1>6, <1>7 DEF ToastsInv

(* The timer of a toast fires: the toast is gone, if it was there still.    *)
LEMMA TimeoutStep == ASSUME ToastsInv, NEW id, N!TimeoutFires(id) PROVE ToastsInv'
<1>1. /\ toasts_toastTimeouts' = toasts_toastTimeouts \ {id} /\ N!Dispatch(N!Removed(id))
      /\ UNCHANGED <<toasts_count, toasts_listeners, toasts_rendered>>
  BY DEF N!TimeoutFires
<1>2. PICK new : new = N!Removed(id)
  OBVIOUS
<1>3. new \in Stores /\ (new = toasts_toasts \/ new = <<>>)
      /\ (new = toasts_toasts => \A i \in DOMAIN toasts_toasts : toasts_toasts[i].id # id)
  BY <1>2, RemovedIs DEF ToastsInv, ToastsTypes, Stores
<1>4. /\ toasts_toasts' = new /\ Copied'
      /\ toasts_state' \in [Subscribers -> Stores] /\ toasts_missed' \in [Subscribers -> BOOLEAN]
  BY <1>1, <1>2, <1>3, DispatchIs
<1>5. ToastsTypes'
  BY <1>1, <1>3, <1>4 DEF ToastsInv, ToastsTypes
<1>6. NewestShown'
  BY <1>1, <1>3, <1>4 DEF ToastsInv, NewestShown
<1>7. N!ClosedToastsAreRemoved'
  <2>1. CASE new = <<>>
    BY <1>4, <2>1 DEF N!ClosedToastsAreRemoved
  <2>2. CASE new = toasts_toasts
    BY <1>1, <1>3, <1>4, <2>2 DEF ToastsInv, N!ClosedToastsAreRemoved
  <2> QED
    BY <1>3, <2>1, <2>2
<1> QED
  BY <1>4, <1>5, <1>6, <1>7 DEF ToastsInv

(* A component renders, subscribes or goes.                                 *)
LEMMA SubscriberStep ==
    ASSUME ToastsInv, NEW c \in Subscribers, N!Render(c) \/ N!Subscribe(c) \/ N!Unmount(c)
    PROVE  ToastsInv'
<1>1. UNCHANGED <<toasts_count, toasts_toasts, toasts_toastTimeouts>>
  BY DEF N!Render, N!Subscribe, N!Unmount
<1>2. /\ toasts_state \in [Subscribers -> Stores] /\ toasts_missed \in [Subscribers -> BOOLEAN]
      /\ toasts_listeners \cap toasts_rendered = {} /\ toasts_listeners \cup toasts_rendered \subseteq Subscribers
      /\ toasts_toasts \in Stores /\ <<>> \in Stores
  BY DEF ToastsInv, ToastsTypes, Stores
<1>3. CASE N!Render(c)
  <2>1. /\ c \notin toasts_listeners /\ UNCHANGED toasts_listeners /\ toasts_rendered' = toasts_rendered \cup {c}
        /\ toasts_state' = [toasts_state EXCEPT ![c] = toasts_toasts]
        /\ toasts_missed' = [toasts_missed EXCEPT ![c] = FALSE]
    BY <1>3 DEF N!Render
  <2>2. ToastsTypes'
    BY <1>1, <1>2, <2>1 DEF ToastsInv, ToastsTypes
  <2>3. Copied'
    BY <1>1, <1>2, <2>1 DEF ToastsInv, Copied
  <2> QED
    BY <1>1, <2>2, <2>3 DEF ToastsInv, NewestShown, N!ClosedToastsAreRemoved
<1>4. CASE N!Subscribe(c)
  <2>1. /\ c \in toasts_rendered /\ toasts_rendered' = toasts_rendered \ {c}
        /\ toasts_listeners' = toasts_listeners \cup {c} /\ UNCHANGED <<toasts_state, toasts_missed>>
    BY <1>4 DEF N!Subscribe
  <2>2. ToastsTypes'
    BY <1>1, <1>2, <2>1 DEF ToastsInv, ToastsTypes
  <2>3. Copied'
    BY <1>1, <2>1 DEF ToastsInv, Copied
  <2> QED
    BY <1>1, <2>2, <2>3 DEF ToastsInv, NewestShown, N!ClosedToastsAreRemoved
<1>5. CASE N!Unmount(c)
  <2>1. /\ c \in toasts_listeners /\ toasts_listeners' = toasts_listeners \ {c} /\ UNCHANGED toasts_rendered
        /\ toasts_state' = [toasts_state EXCEPT ![c] = <<>>]
        /\ toasts_missed' = [toasts_missed EXCEPT ![c] = FALSE]
    BY <1>5 DEF N!Unmount
  <2>2. ToastsTypes'
    BY <1>1, <1>2, <2>1 DEF ToastsInv, ToastsTypes
  <2>3. Copied'
    BY <1>1, <1>2, <2>1 DEF ToastsInv, Copied
  <2> QED
    BY <1>1, <2>2, <2>3 DEF ToastsInv, NewestShown, N!ClosedToastsAreRemoved
<1> QED
  BY <1>3, <1>4, <1>5

(* An empty store, and nobody subscribed.                                    *)
LEMMA ToastsInit == MCInit => ToastsInv
<1>1. N!Init => ToastsInv
  <2>1. SUFFICES ASSUME N!Init PROVE ToastsInv
    OBVIOUS
  <2>2. toasts_count \in 0..MaxToasts
    BY <2>1, PagesAssumption DEF N!Init, N!ConstantsOK
  <2>3. toasts_toasts \in Stores /\ toasts_state \in [Subscribers -> Stores]
        /\ toasts_missed \in [Subscribers -> BOOLEAN] /\ DOMAIN toasts_toasts = {}
    BY <2>1 DEF N!Init, Stores
  <2> QED
    BY <2>1, <2>2, <2>3 DEF N!Init, ToastsInv, ToastsTypes, NewestShown, Copied, N!ClosedToastsAreRemoved
<1> QED
  BY <1>1 DEF MCInit

(* Every action keeps ToastsInv.                                             *)
LEMMA ToastsStep == ToastsInv /\ [MCNext]_allVars => ToastsInv'
<1>1. SUFFICES ASSUME ToastsInv, [N!Next]_toastsVars PROVE ToastsInv'
  BY SceneStep
<1>2. CASE N!Show
  BY <1>1, <1>2, ShowStep, PagesAssumption
<1>3. CASE N!DismissAll
  <2>1. PICK ids : ids = {toasts_toasts[i].id : i \in DOMAIN toasts_toasts}
    OBVIOUS
  <2>2. /\ toasts_toastTimeouts' = N!Schedule(ids) /\ N!Dispatch(N!Dismissed(ids))
        /\ UNCHANGED <<toasts_count, toasts_listeners, toasts_rendered>>
    BY <1>3, <2>1 DEF N!DismissAll
  <2>3. ids \subseteq 1..toasts_count
    <3>1. ASSUME NEW i \in DOMAIN toasts_toasts PROVE toasts_toasts[i].id \in 1..toasts_count
      <4>1. toasts_toasts[i] \in N!Toast
        BY <1>1, StoreIs DEF ToastsInv, ToastsTypes
      <4>2. toasts_toasts[i].id \in 1..MaxToasts /\ toasts_toasts[i].id = toasts_count
        BY <1>1, <4>1 DEF ToastsInv, NewestShown, N!Toast, N!Ids
      <4> QED
        BY <4>2
    <3> QED
      BY <2>1, <3>1
  <2> QED
    BY <1>1, <2>2, <2>3, DismissStep
<1>4. ASSUME NEW id \in N!Ids, N!Dismiss(id) PROVE ToastsInv'
  <2>1. /\ toasts_toastTimeouts' = N!Schedule({id}) /\ N!Dispatch(N!Dismissed({id}))
        /\ UNCHANGED <<toasts_count, toasts_listeners, toasts_rendered>> /\ id <= toasts_count
    BY <1>4 DEF N!Dismiss
  <2>2. {id} \subseteq 1..toasts_count
    BY <1>1, <2>1 DEF N!Ids, ToastsInv, ToastsTypes
  <2> QED
    BY <1>1, <2>1, <2>2, DismissStep
<1>5. ASSUME NEW id, N!TimeoutFires(id) PROVE ToastsInv'
  BY <1>1, <1>5, TimeoutStep
<1>6. ASSUME NEW c \in Subscribers, N!Render(c) \/ N!Subscribe(c) \/ N!Unmount(c) PROVE ToastsInv'
  BY <1>1, <1>6, SubscriberStep
<1>7. CASE UNCHANGED toastsVars
  BY <1>1, <1>7 DEF toastsVars, ToastsInv, ToastsTypes, NewestShown, Copied, N!ClosedToastsAreRemoved
<1> QED
  BY <1>1, <1>2, <1>3, <1>4, <1>5, <1>6, <1>7 DEF N!Next

(* ToastsInv implies the properties.                                         *)
LEMMA ToastsGive == ToastsInv => N!TypeOK /\ SubscribersShowStore /\ ClosedToastsAreRemoved
<1>1. SUFFICES ASSUME ToastsInv PROVE N!TypeOK /\ SubscribersShowStore /\ ClosedToastsAreRemoved
  OBVIOUS
<1>2. N!TypeOK
  <2>1. Len(toasts_toasts) <= 1 /\ \A i \in DOMAIN toasts_toasts : toasts_toasts[i] \in N!Toast
    <3>1. toasts_toasts \in Seq(N!Toast) /\ Len(toasts_toasts) \in {0, 1}
      BY <1>1, StoreIs DEF ToastsInv, ToastsTypes
    <3>2. \A i \in DOMAIN toasts_toasts : toasts_toasts[i] \in N!Toast
      BY <3>1
    <3>3. \A n \in {0, 1} : n <= 1
      OBVIOUS
    <3> QED
      BY <3>1, <3>2, <3>3, Zenon
  <2>2. \A c \in Subscribers : \A i \in DOMAIN toasts_state[c] : toasts_state[c][i] \in N!Toast
    <3>1. ASSUME NEW c \in Subscribers PROVE \A i \in DOMAIN toasts_state[c] : toasts_state[c][i] \in N!Toast
      <4>1. toasts_state[c] \in Stores
        BY <1>1 DEF ToastsInv, ToastsTypes
      <4> QED
        BY <4>1, StoreIs
    <3> QED
      BY <3>1
  <2>3. toasts_toastTimeouts \subseteq N!Ids
    BY <1>1, PagesAssumption DEF ToastsInv, ToastsTypes, N!Ids, N!ConstantsOK
  <2> QED
    BY <1>1, <2>1, <2>2, <2>3 DEF N!TypeOK, N!TOAST_LIMIT, ToastsInv, ToastsTypes
<1>3. SubscribersShowStore
  <2>1. SUFFICES ASSUME NEW c \in toasts_listeners, ~toasts_missed[c]
                 PROVE  toasts_state[c] = toasts_toasts /\ \A id \in N!OnScreen(c) : id = toasts_count
    BY DEF SubscribersShowStore, N!SubscribersShowStore
  <2>2. toasts_state[c] = toasts_toasts
    BY <1>1, <2>1 DEF ToastsInv, Copied
  <2> QED
    BY <1>1, <2>2 DEF N!OnScreen, ToastsInv, NewestShown
<1> QED
  BY <1>1, <1>2, <1>3 DEF ClosedToastsAreRemoved, ToastsInv

(* use-toast.ts: subscribers show the store, for any components and toasts. *)
THEOREM PagesSubscribersShowStore == MCSpec => []SubscribersShowStore
<1>1. ToastsInv => SubscribersShowStore
  BY ToastsGive
<1> QED
  BY <1>1, ToastsInit, ToastsStep, PTL DEF MCSpec

(* use-toast.ts: what is closed is going to be removed.                     *)
THEOREM PagesClosedToastsAreRemoved == MCSpec => []ClosedToastsAreRemoved
<1>1. ToastsInv => ClosedToastsAreRemoved
  BY ToastsGive
<1> QED
  BY <1>1, ToastsInit, ToastsStep, PTL DEF MCSpec

-------------------------------------------------------------------------------
(* The spinners of the pages.                                               *)

(* Every page and dialog shows a spinner just as long as it waits: each path *)
(* of each handler ends it, and no other does.                              *)
THEOREM PagesSpinnersEnd == MCSpec => []SpinnersEnd
<1>1. Listing!IInv /\ ProfileInv /\ ClientInv => SpinnersEnd
  BY ListGives, ProfileGives, ClientGives DEF SpinnersEnd
<1>2. MCInit => Listing!IInv /\ ProfileInv /\ ClientInv
  BY ListInit, ProfileStarts, ClientInit DEF MCInit, ProfileInit
<1>3. Listing!IInv /\ ProfileInv /\ ClientInv /\ [MCNext]_allVars => (Listing!IInv /\ ProfileInv /\ ClientInv)'
  BY ListStep, SceneStep, ProfileStep, ClientStep
<1> QED
  BY <1>1, <1>2, <1>3, PTL DEF MCSpec

-------------------------------------------------------------------------------
(* The tokens.  The argument is about ends of validity.  An entry of the     *)
(* blacklist is kept for the lifetime of a refresh token (Kept); every token *)
(* the property is about ends before it (Outlived): one issued before the    *)
(* logout because no token lives longer than that, and one that a refresh    *)
(* under way issued after it because its handler began before the logout and *)
(* takes no longer than Slack (Pending).                                     *)

(* The lifetimes as numbers, and the largest delay of a handler. *)
LEMMA Lifetimes ==
    /\ AccessTTL \in Nat /\ RefreshTTL \in Nat /\ AccessTTL <= RefreshTTL
    /\ Slack \in Nat /\ Slack + AccessTTL = RefreshTTL
    /\ Never \notin Nat
BY TTLAssumption DEF TTLAssumption, Slack

(* A lookup and an addition keep the types of the store. *)
LEMMA StoreType ==
    ASSUME TypeOK, NEW w \in Workers, NEW s \in Sessions, NEW until \in Nat
    PROVE  /\ LookedUp(w, s) \in [Workers -> [Sessions -> Nat]]
           /\ Added(w, s, until) \in [Workers -> [Sessions -> Nat]]
BY DEF TypeOK, LookedUp, Added

(* Every step keeps the types of the tokens, the stores and the calls. *)
LEMMA TypeStep == TypeOK /\ [Next]_vars => TypeOK'
<1> SUFFICES ASSUME TypeOK, [Next]_vars PROVE TypeOK'
  OBVIOUS
<1> USE Lifetimes
<1>1. ASSUME NEW w \in Workers, NEW s \in Sessions, Login(w, s) PROVE TypeOK'
  <2>1. \A type \in Types, ttl \in Nat : Token(s, type, ttl, w) \in TokenSet
    BY DEF TypeOK, Token, TokenSet
  <2>2. tokens' \subseteq TokenSet
    BY <1>1, <2>1 DEF TypeOK, Login, Types
  <2> QED BY <1>1, <2>2 DEF TypeOK, Login
<1>2. ASSUME NEW w \in Workers, NEW tok \in tokens, Decode(w, tok) PROVE TypeOK'
  <2>1. tok.jti \in Sessions
    BY DEF TypeOK, TokenSet
  <2> QED BY <1>2, <2>1, StoreType DEF TypeOK, Decode
<1>3. ASSUME NEW w \in Workers, NEW tok \in tokens, Begin(w, tok) PROVE TypeOK'
  <2>1. tok.jti \in Sessions
    BY DEF TypeOK, TokenSet
  <2>2. calls' \subseteq CallSet
    BY <1>3, <2>1 DEF TypeOK, Begin, CallSet
  <2> QED BY <1>3, <2>1, <2>2, StoreType DEF TypeOK, Begin
<1>4. ASSUME NEW c \in calls, Refresh(c) PROVE TypeOK'
  <2>1. c.worker \in Workers /\ c.jti \in Sessions
    BY DEF TypeOK, CallSet
  <2>2. Token(c.jti, "access", AccessTTL, c.worker) \in TokenSet
    BY <2>1 DEF TypeOK, Token, TokenSet, Types
  <2> QED BY <1>4, <2>2 DEF TypeOK, Refresh
<1>5. ASSUME NEW c \in calls, Logout(c) PROVE TypeOK'
  <2>1. c.worker \in Workers /\ c.jti \in Sessions
    BY DEF TypeOK, CallSet
  <2>2. RevokedUntil \in Nat
    BY DEF TypeOK, RevokedUntil
  <2> QED BY <1>5, <2>1, <2>2, StoreType DEF TypeOK, Logout
<1>6. ASSUME NEW w \in Workers, Restart(w) PROVE TypeOK'
  BY <1>6 DEF TypeOK, Restart
<1>7. CASE Tick
  BY <1>7 DEF TypeOK, Tick
<1>8. CASE UNCHANGED vars
  BY <1>8 DEF TypeOK, vars
<1> QED BY <1>1, <1>2, <1>3, <1>4, <1>5, <1>6, <1>7, <1>8 DEF Next

(* Nothing has begun in the initial state. *)
LEMMA TypeInit == Init => TypeOK
BY DEF Init, TypeOK

(* Tokens, stores and calls keep their types, whatever handlers overlap     *)
(* and whichever workers restart.                                           *)
THEOREM TokenTypesCorrect == Spec => []TypeOK
BY TypeInit, TypeStep, PTL DEF Spec

-------------------------------------------------------------------------------
(* The inductive invariant.                                                 *)

(* A token ends a lifetime after it was issued, and belongs to a session    *)
(* that has begun.                                                          *)
Issued ==
    \A tok \in tokens : tok.jti \in started /\ tok.at <= now /\ tok.exp <= tok.at + RefreshTTL

(* No handler is older than Slack.                                          *)
InTime ==
    \A c \in calls : c.jti \in started /\ c.since <= now /\ now <= c.since + Slack

(* Only what has begun is revoked, and in the past; the entry is there      *)
(* until the lifetime of a refresh token is over.                           *)
Kept ==
    \A w \in Workers, s \in Sessions : revoked[w][s] # Never =>
        /\ s \in started /\ revoked[w][s] <= now
        /\ now < revoked[w][s] + RefreshTTL => store[w][s] = revoked[w][s] + RefreshTTL

(* A refresh under way began before the revocation. *)
Pending ==
    \A c \in calls : c.kind = "refresh" /\ revoked[c.worker][c.jti] # Never =>
        c.since <= revoked[c.worker][c.jti]

(* The tokens in question end before the entry does. *)
Covered(w, tok) ==
    revoked[w][tok.jti] # Never /\ (tok.type = "refresh" \/ tok.by = w \/ tok.at <= revoked[w][tok.jti])

Outlived ==
    \A w \in Workers, tok \in tokens : Covered(w, tok) => tok.exp <= revoked[w][tok.jti] + RefreshTTL

RevocationInv == TypeOK /\ Issued /\ InTime /\ Kept /\ Pending /\ Outlived

(* What the invariant says of a single token: none that is covered passes. *)
LEMMA CoveredIsRefused ==
    ASSUME RevocationInv, NEW w \in Workers, NEW tok \in tokens, Covered(w, tok)
    PROVE  ~Accepts(w, tok)
<1>1. tok.jti \in Sessions /\ tok.exp \in Nat
  BY DEF RevocationInv, TypeOK, TokenSet
<1>2. revoked[w][tok.jti] \in Nat /\ store[w][tok.jti] \in Nat /\ now \in Nat
  BY <1>1 DEF RevocationInv, TypeOK, Covered
<1>3. tok.exp <= revoked[w][tok.jti] + RefreshTTL
  BY DEF RevocationInv, Outlived
<1>4. now < revoked[w][tok.jti] + RefreshTTL => store[w][tok.jti] = revoked[w][tok.jti] + RefreshTTL
  BY <1>1 DEF RevocationInv, Kept, Covered
<1> QED BY <1>1, <1>2, <1>3, <1>4, Lifetimes DEF Accepts, Blacklisted

(* A lookup forgets nothing that is still needed. *)
LEMMA LookupKeeps ==
    ASSUME RevocationInv, NEW w \in Workers, NEW s \in Sessions,
           store' = LookedUp(w, s), UNCHANGED <<now, started, revoked>>
    PROVE  Kept'
<1> SUFFICES ASSUME NEW v \in Workers, NEW r \in Sessions, revoked[v][r] # Never
             PROVE  /\ r \in started /\ revoked[v][r] <= now
                    /\ now < revoked[v][r] + RefreshTTL => store'[v][r] = revoked[v][r] + RefreshTTL
  BY DEF Kept
<1>1. r \in started /\ revoked[v][r] <= now
  BY DEF RevocationInv, Kept
<1>2. ASSUME now < revoked[v][r] + RefreshTTL PROVE store'[v][r] = revoked[v][r] + RefreshTTL
  <2>1. store[v][r] = revoked[v][r] + RefreshTTL
    BY <1>2 DEF RevocationInv, Kept
  <2>2. CASE Blacklisted(w, s)
    BY <2>1, <2>2 DEF LookedUp
  <2>3. CASE ~Blacklisted(w, s)
    <3>1. ~(v = w /\ r = s)
      BY <1>2, <2>1, <2>3 DEF Blacklisted
    <3> QED BY <2>1, <2>3, <3>1 DEF LookedUp, RevocationInv, TypeOK
  <2> QED BY <2>2, <2>3
<1> QED BY <1>1, <1>2

-------------------------------------------------------------------------------
(* The steps, one by one.                                                   *)

(* login: the session is new, and nothing of it has been revoked. *)
LEMMA LoginStep ==
    ASSUME RevocationInv, NEW w \in Workers, NEW s \in Sessions, Login(w, s)
    PROVE  Issued' /\ InTime' /\ Kept' /\ Pending' /\ Outlived'
<1> USE Lifetimes
<1>1. /\ now \in Nat /\ UNCHANGED <<now, store, calls, revoked>>
      /\ started' = started \cup {s} /\ s \notin started
      /\ tokens' = tokens \cup {Token(s, "refresh", RefreshTTL, w), Token(s, "access", AccessTTL, w)}
  BY DEF RevocationInv, TypeOK, Login
<1>2. \A v \in Workers : revoked[v][s] = Never
  BY <1>1 DEF RevocationInv, Kept
<1>3. Issued'
  BY <1>1 DEF RevocationInv, Issued, Token
<1>4. InTime' /\ Kept' /\ Pending'
  BY <1>1 DEF RevocationInv, InTime, Kept, Pending
<1>5. Outlived'
  BY <1>1, <1>2 DEF RevocationInv, Outlived, Covered, Token
<1> QED BY <1>3, <1>4, <1>5

(* decode_token: what it forgets is over, and what it lets through has not  *)
(* been revoked here unless the token is not covered.                       *)
LEMMA BeginStep ==
    ASSUME RevocationInv, NEW w \in Workers, NEW tok \in tokens, Begin(w, tok)
    PROVE  Issued' /\ InTime' /\ Kept' /\ Pending' /\ Outlived'
<1> USE Lifetimes
<1> DEFINE call == [worker |-> w, kind |-> IF tok.type = "refresh" THEN "refresh" ELSE "logout",
                    jti |-> tok.jti, since |-> now]
<1>1. /\ now \in Nat /\ tok.jti \in Sessions
      /\ UNCHANGED <<now, started, tokens, revoked>> /\ calls' = calls \cup {call}
      /\ store' = LookedUp(w, tok.jti) /\ Accepts(w, tok)
  BY DEF RevocationInv, TypeOK, TokenSet, Begin
<1>2. Kept'
  BY <1>1, LookupKeeps
<1>3. tok.type = "refresh" => revoked[w][tok.jti] = Never
  BY <1>1, CoveredIsRefused DEF Covered
<1>4. Issued' /\ Outlived'
  BY <1>1 DEF RevocationInv, Issued, Outlived, Covered
<1>5. InTime'
  BY <1>1 DEF RevocationInv, InTime, Issued
<1>6. Pending'
  BY <1>1, <1>3 DEF RevocationInv, Pending
<1> QED BY <1>2, <1>4, <1>5, <1>6

(* refresh_token: whatever was revoked since it began outlives what it      *)
(* issues; what another worker revoked before covers it by its time only.   *)
LEMMA RefreshStep ==
    ASSUME RevocationInv, NEW c \in calls, Refresh(c)
    PROVE  Issued' /\ InTime' /\ Kept' /\ Pending' /\ Outlived'
<1> USE Lifetimes
<1> DEFINE tok == Token(c.jti, "access", AccessTTL, c.worker)
<1>1. /\ now \in Nat /\ c.worker \in Workers /\ c.jti \in Sessions /\ c.since \in Nat
      /\ UNCHANGED <<now, started, store, revoked>>
      /\ tokens' = tokens \cup {tok} /\ calls' = calls \ {c} /\ c.kind = "refresh"
  BY DEF RevocationInv, TypeOK, CallSet, Refresh
<1>2. c.jti \in started /\ now <= c.since + Slack
  BY DEF RevocationInv, InTime
<1>3. Issued'
  BY <1>1, <1>2 DEF RevocationInv, Issued, Token
<1>4. InTime' /\ Kept' /\ Pending'
  BY <1>1 DEF RevocationInv, InTime, Kept, Pending
<1>5. \A w \in Workers : Covered(w, tok) => tok.exp <= revoked[w][tok.jti] + RefreshTTL
  <2> SUFFICES ASSUME NEW w \in Workers, Covered(w, tok)
               PROVE  now + AccessTTL <= revoked[w][c.jti] + RefreshTTL
    BY DEF Token
  <2>1. revoked[w][c.jti] \in Nat
    BY <1>1 DEF RevocationInv, TypeOK, Covered, Token
  <2>2. CASE w = c.worker
    <3>1. c.since <= revoked[w][c.jti]
      BY <1>1, <2>2 DEF RevocationInv, Pending, Covered, Token
    <3> QED BY <1>1, <1>2, <2>1, <3>1
  <2>3. CASE w # c.worker
    <3>1. now <= revoked[w][c.jti]
      BY <2>3 DEF Covered, Token
    <3> QED BY <1>1, <2>1, <3>1
  <2> QED BY <2>2, <2>3
<1>6. Outlived'
  BY <1>1, <1>5 DEF RevocationInv, Outlived, Covered
<1> QED BY <1>3, <1>4, <1>6

(* logout: everything issued so far ends before the new entry. *)
LEMMA LogoutStep ==
    ASSUME RevocationInv, NEW c \in calls, Logout(c)
    PROVE  Issued' /\ InTime' /\ Kept' /\ Pending' /\ Outlived'
<1> USE Lifetimes
<1>1. /\ now \in Nat /\ c.worker \in Workers /\ c.jti \in Sessions
      /\ UNCHANGED <<now, started, tokens>> /\ calls' = calls \ {c}
      /\ store' = Added(c.worker, c.jti, now + RefreshTTL)
      /\ revoked' = [revoked EXCEPT ![c.worker][c.jti] = now]
      /\ store \in [Workers -> [Sessions -> Nat]]
      /\ revoked \in [Workers -> [Sessions -> Nat \cup {Never}]]
  BY DEF RevocationInv, TypeOK, CallSet, Logout, RevokedUntil
<1>2. /\ revoked'[c.worker][c.jti] = now
      /\ \A w \in Workers, s \in Sessions :
            ~(w = c.worker /\ s = c.jti) => revoked'[w][s] = revoked[w][s] /\ store'[w][s] = store[w][s]
      /\ RefreshTTL # 0 => store'[c.worker][c.jti] = now + RefreshTTL
  BY <1>1 DEF Added
<1>3. Issued' /\ InTime'
  BY <1>1 DEF RevocationInv, Issued, InTime
<1>4. Kept'
  <2>1. c.jti \in started
    BY DEF RevocationInv, InTime
  <2> SUFFICES ASSUME NEW w \in Workers, NEW s \in Sessions, revoked'[w][s] # Never
               PROVE  /\ s \in started /\ revoked'[w][s] <= now
                      /\ now < revoked'[w][s] + RefreshTTL => store'[w][s] = revoked'[w][s] + RefreshTTL
    BY <1>1 DEF Kept
  <2>2. CASE w = c.worker /\ s = c.jti
    BY <1>1, <1>2, <2>1, <2>2
  <2>3. CASE ~(w = c.worker /\ s = c.jti)
    BY <1>2, <2>3 DEF RevocationInv, Kept
  <2> QED BY <2>2, <2>3
<1>5. Pending'
  <2> SUFFICES ASSUME NEW d \in calls, d.kind = "refresh", revoked'[d.worker][d.jti] # Never
               PROVE  d.since <= revoked'[d.worker][d.jti]
    BY <1>1 DEF Pending
  <2>1. d.worker \in Workers /\ d.jti \in Sessions /\ d.since <= now
    BY DEF RevocationInv, TypeOK, CallSet, InTime
  <2> QED BY <1>2, <2>1 DEF RevocationInv, Pending
<1>6. Outlived'
  <2> SUFFICES ASSUME NEW w \in Workers, NEW tok \in tokens, Covered(w, tok)'
               PROVE  tok.exp <= revoked'[w][tok.jti] + RefreshTTL
    BY <1>1 DEF Outlived
  <2>1. tok.jti \in Sessions /\ tok.at \in Nat /\ tok.exp \in Nat
    BY DEF RevocationInv, TypeOK, TokenSet
  <2>2. CASE w = c.worker /\ tok.jti = c.jti
    <3>1. tok.at <= now /\ tok.exp <= tok.at + RefreshTTL
      BY DEF RevocationInv, Issued
    <3> QED BY <1>1, <1>2, <2>1, <2>2, <3>1
  <2>3. CASE ~(w = c.worker /\ tok.jti = c.jti)
    BY <1>2, <2>1, <2>3 DEF RevocationInv, Outlived, Covered
  <2> QED BY <2>2, <2>3
<1> QED BY <1>3, <1>4, <1>5, <1>6

(* A restart of a worker forgets what it has revoked, and its handlers. *)
LEMMA RestartStep ==
    ASSUME RevocationInv, NEW w \in Workers, Restart(w)
    PROVE  Issued' /\ InTime' /\ Kept' /\ Pending' /\ Outlived'
<1>1. /\ UNCHANGED <<now, started, tokens>> /\ calls' \subseteq calls
      /\ \A c \in calls' : c.worker # w
      /\ \A s \in Sessions : revoked'[w][s] = Never
      /\ \A v \in Workers : v # w => revoked'[v] = revoked[v] /\ store'[v] = store[v]
  BY DEF RevocationInv, TypeOK, Restart
<1>2. /\ \A tok \in tokens : tok.jti \in Sessions
      /\ \A c \in calls : c.worker \in Workers /\ c.jti \in Sessions
  BY DEF RevocationInv, TypeOK, TokenSet, CallSet
<1>3. Issued' /\ InTime'
  BY <1>1 DEF RevocationInv, Issued, InTime
<1>4. Kept'
  BY <1>1 DEF RevocationInv, Kept
<1>5. Pending'
  BY <1>1, <1>2 DEF RevocationInv, Pending
<1>6. Outlived'
  BY <1>1, <1>2 DEF RevocationInv, Outlived, Covered
<1> QED BY <1>3, <1>4, <1>5, <1>6

(* Time passes: what was kept until then stays or is over. *)
LEMMA TickStep ==
    ASSUME RevocationInv, Tick
    PROVE  Issued' /\ InTime' /\ Kept' /\ Pending' /\ Outlived'
<1> USE Lifetimes
<1>1. /\ now \in Nat /\ now' = now + 1 /\ UNCHANGED <<started, store, calls, revoked>>
      /\ tokens' \subseteq tokens /\ \A c \in calls : now < c.since + Slack
  BY DEF RevocationInv, TypeOK, Tick
<1>2. Issued'
  BY <1>1 DEF RevocationInv, TypeOK, TokenSet, Issued
<1>3. InTime'
  BY <1>1 DEF RevocationInv, TypeOK, CallSet, InTime
<1>4. Kept'
  BY <1>1 DEF RevocationInv, TypeOK, Kept
<1>5. Pending' /\ Outlived'
  BY <1>1 DEF RevocationInv, Pending, Outlived, Covered
<1> QED BY <1>2, <1>3, <1>4, <1>5

(* Every step keeps the invariant. *)
LEMMA RevocationStep == RevocationInv /\ [Next]_vars => RevocationInv'
<1> SUFFICES ASSUME RevocationInv, [Next]_vars PROVE RevocationInv'
  OBVIOUS
<1>1. TypeOK'
  BY TypeStep DEF RevocationInv
<1>2. Issued' /\ InTime' /\ Kept' /\ Pending' /\ Outlived'
  <2>1. ASSUME NEW w \in Workers, NEW tok \in tokens, Decode(w, tok)
        PROVE  Issued' /\ InTime' /\ Kept' /\ Pending' /\ Outlived'
    <3>1. tok.jti \in Sessions
      BY DEF RevocationInv, TypeOK, TokenSet
    <3>2. Kept'
      BY <2>1, <3>1, LookupKeeps DEF Decode
    <3> QED BY <2>1, <3>2 DEF RevocationInv, Decode, Issued, InTime, Pending, Outlived, Covered
  <2>2. CASE UNCHANGED vars
    BY <2>2 DEF RevocationInv, vars, Issued, InTime, Kept, Pending, Outlived, Covered
  <2> QED BY <2>1, <2>2, LoginStep, BeginStep, RefreshStep, LogoutStep, RestartStep, TickStep DEF Next
<1> QED BY <1>1, <1>2 DEF RevocationInv

(* It holds at the start, when there is no token. *)
LEMMA RevocationInit == Init => RevocationInv
BY TypeInit DEF Init, RevocationInv, Issued, InTime, Kept, Pending, Outlived, Covered

(* A worker that served the logout of a session refuses every token of it   *)
(* that was issued before, and every one that itself issues after, by a     *)
(* refresh under way, for as long as it is not restarted.                   *)
THEOREM RevocationCorrect == Spec => []RevokedStaysRefused
<1>1. RevocationInv => RevokedStaysRefused
  BY CoveredIsRefused DEF RevokedStaysRefused, Covered
<1> QED BY <1>1, RevocationInit, RevocationStep, PTL DEF Spec

(* The same among the other components.                                     *)
THEOREM PagesRevocation == MCSpec => []RevokedStaysRefused
<1>1. RevocationInv => RevokedStaysRefused
  BY CoveredIsRefused DEF RevokedStaysRefused, Covered
<1>2. MCInit => RevocationInv
  BY RevocationInit DEF MCInit
<1>3. RevocationInv /\ [MCNext]_allVars => RevocationInv'
  BY RevocationStep, SceneStep
<1> QED
  BY <1>1, <1>2, <1>3, PTL DEF MCSpec

-------------------------------------------------------------------------------
(* The charts.                                                              *)

(* They move here as they do alone, or rest.                                *)
LEMMA ChartsSceneStep == [MCNext]_allVars => [ChartsNext]_chartsVars
  BY DEF MCNext, Step, Rest, Scenes, ChartsScene, allVars

(* TriangleVisualization: as DrawnCorrect, in one of the scenes.            *)
THEOREM PagesDrawnOnScale == MCSpec => []DrawnOnScale
<1>1. MCInit => ChartsInv
  BY ChartsStart DEF MCInit
<1>2. ChartsInv /\ [MCNext]_allVars => ChartsInv'
  BY ChartsSceneStep, ChartsStep
<1> QED
  BY <1>1, <1>2, DrawnImplied, PTL DEF MCSpec

(* CentroidBarChart: as LinesCorrect, in one of the scenes.                 *)
THEOREM PagesLinesOnAxis == MCSpec => []LinesOnAxis
<1>1. MCInit => ChartsInv
  BY ChartsStart DEF MCInit
<1>2. ChartsInv /\ [MCNext]_allVars => ChartsInv'
  BY ChartsSceneStep, ChartsStep
<1> QED
  BY <1>1, <1>2, LinesImplied, PTL DEF MCSpec

-------------------------------------------------------------------------------
(* The types of the components.                                             *)

(* What is proved of each of them, and the scene.                           *)
PagesInv ==
    /\ scene \in Scenes
    /\ Listing!IInv /\ ProfileInv /\ ChartsInv /\ TutorialTypes /\ ClientInv /\ ToastsInv /\ PhotosInv
    /\ ResetInv /\ TypeOK

(* Each component starts in its invariant.                                  *)
LEMMA PagesStart == MCInit => PagesInv
<1>1. MCInit => /\ scene \in Scenes /\ Init /\ P!Init /\ ChartsInit /\ U!Init /\ C!Init /\ S!Init /\ W!Init
  BY DEF MCInit, ProfileInit
<1> QED
  BY <1>1, ListInit, ProfileStarts, ChartsStart, TutorialInit, ClientInit, ToastsInit, PhotosInit, ResetInit,
     TypeInit DEF PagesInv

(* Each component keeps it, and the scene does not change.                  *)
LEMMA PagesKeep == PagesInv /\ [MCNext]_allVars => PagesInv'
<1>1. SUFFICES ASSUME PagesInv, [MCNext]_allVars PROVE PagesInv'
  OBVIOUS
<1>2. UNCHANGED scene
  BY <1>1 DEF MCNext, allVars
<1>3. Listing!IInv' /\ ToastsInv'
  BY <1>1, ListStep, ToastsStep DEF PagesInv
<1>4. ProfileInv' /\ TutorialTypes' /\ ClientInv' /\ TypeOK'
  BY <1>1, SceneStep, ProfileStep, TutorialStep, ClientStep, TypeStep DEF PagesInv
<1>5. PhotosInv' /\ ResetInv'
  BY <1>1, SceneStep, PhotosStep, ResetStep DEF PagesInv
<1>6. ChartsInv'
  BY <1>1, ChartsSceneStep, ChartsStep DEF PagesInv
<1> QED
  BY <1>1, <1>2, <1>3, <1>4, <1>5, <1>6 DEF PagesInv

(* The types of the list of projects are those of the page alone.           *)
LEMMA ListTypes == Listing!IInv => L!TypeOK
<1>1. Listing!IInv => Listing!TypeOK
  BY Listing!IInvGives
<1>2. Listing!TypeOK => L!TypeOK
  BY DEF L!TypeOK, L!Relations, L!Dialogs, L!Kinds, Listing!TypeOK, Listing!Relations, Listing!Dialogs, Listing!Kinds
<1> QED
  BY <1>1, <1>2

(* The component that moves has its types.                                  *)
LEMMA SceneTypes == PagesInv => TypesOK
<1>1. SUFFICES ASSUME PagesInv PROVE TypesOK
  OBVIOUS
<1>2. L!TypeOK /\ P!TypeOK /\ U!TypeOK /\ C!TypeOK /\ N!TypeOK /\ S!TypeOK /\ W!TypeOK /\ TypeOK
  BY <1>1, ListTypes, ProfileGives, TutorialGives, ClientGives, ToastsGive, PhotosGive, ResetGives DEF PagesInv
<1>3. ChartsTypeOK
  BY <1>1, ChartsTypesImplied DEF PagesInv
<1>4. scene \in Scenes
  BY <1>1 DEF PagesInv
<1> QED
  BY <1>2, <1>3, <1>4 DEF TypesOK, Scenes

(* Every component keeps its types, for all values of the constants.        *)
THEOREM PagesTypes == MCSpec => []TypesOK
  BY PagesStart, PagesKeep, SceneTypes, PTL DEF MCSpec

===============================================================================
