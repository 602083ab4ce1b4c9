-------------------------------- MODULE Profile --------------------------------
(***************************************************************************)
(* The page of the account, pages/Profile.tsx: a form for the names, the    *)
(* photo, the password, the export and the deletion of the account.  Most   *)
(* handlers wait for the API and then for refreshUser of AuthContext, which *)
(* replaces the user that the page shows.  Each call is a request, and for  *)
(* some the GET of the user after it; another tab may change the account.   *)
(***************************************************************************)
EXTENDS Calls, FiniteSets

CONSTANTS
    Names,          \* names that isValidName takes
    Empty, Bad,     \* no name, a name that it refuses
    Nobody,
    MaxCalls,       \* bound: calls under way
    MaxChanges      \* bound: changes of the account

VARIABLES
    account,        \* what is stored: the names, the photo, 0 if there is none
    changes,
    user,           \* of AuthContext, Nobody away from the page
    first, last,    \* firstName and lastName, the fields
    passwords,      \* what the three password fields hold
    deleteModalOpen,
    busy,           \* isSavingProfile, isUploadingPhoto, isChangingPassword, isExporting, the dialog's isLoading
    calls,
    behind,         \* history: user may differ from the account
    edited,         \* history: the names changed, in the fields or elsewhere, since they agreed
    ended           \* history: why the page was left

form == <<first, last, passwords, deleteModalOpen, edited>>
vars == <<account, changes, user, form, busy, calls, behind, ended>>

WithSpinner == {"save", "upload", "password", "export", "delete_account"}
Kinds == WithSpinner \cup {"delete_photo"}
Refreshing == {"save", "upload", "delete_photo"}
Passwords == {"missing", "weak", "different", "right", "wrong"}

Photos == 0..(MaxChanges + 1)
Accounts == [first : Names, last : Names, photo : Photos, owns : BOOLEAN]
Fields == Names \cup {Empty, Bad}

(* What is assumed of the constants. *)
ConstantsOK ==
    /\ {Empty, Bad, Nobody} \cap Names = {} /\ Empty # Bad /\ Nobody \notin Accounts
    /\ MaxCalls \in Nat /\ MaxChanges \in Nat \ {0}

-------------------------------------------------------------------------------
(* What the page shows and offers.                                          *)

Loaded == user # Nobody

PhotoButtons(u) == {"upload"} \cup IF u.photo # 0 THEN {"delete_photo"} ELSE {}

Header(u) == [photo |-> u.photo, names |-> <<u.first, u.last>>, buttons |-> PhotoButtons(u)]

FieldError(name) == name = Bad

SaveEnabled == "save" \notin busy /\ first # Empty /\ ~FieldError(first) /\ ~FieldError(last)

(* The three fields are filled, and the new password has what it takes. *)
UpdateEnabled == "password" \notin busy /\ passwords \notin {"missing", "weak"}

ExportEnabled == "export" \notin busy

(* Mutant: only the last name is taken from the form. *)
SentLast == [first |-> user.first, last |-> last]

(* An empty last name is not sent: it cannot be removed. *)
Sent == [first |-> first, last |-> last]

-------------------------------------------------------------------------------
(* The API, routes/users.py.                                                *)

Accepts(c) ==
    /\ c.kind = "save" => c.arg.first \in Names /\ c.arg.last \in Names \cup {Empty}
    /\ c.kind = "password" => c.arg = "right"
    /\ c.kind = "delete_account" => ~account.owns

After(c) ==
    CASE c.kind = "save" -> [account EXCEPT !.first = c.arg.first,
                                            !.last = IF c.arg.last = Empty THEN @ ELSE c.arg.last]
      [] c.kind = "upload" -> [account EXCEPT !.photo = changes + 1]     \* a new key
      [] c.kind = "delete_photo" -> [account EXCEPT !.photo = 0]
      [] OTHER -> account

-------------------------------------------------------------------------------
(* Calls under way.                                                         *)

Send(kind, arg) ==
    /\ Len(calls) < MaxCalls
    /\ calls' = Append(calls, [kind |-> kind, arg |-> arg, stage |-> "sent", seen |-> {}, misses |-> FALSE,
                               overtaken |-> FALSE])

Change(a, foreign) ==
    /\ changes < MaxChanges
    /\ changes' = changes + 1
    /\ account' = a
    /\ behind' = (behind \/ foreign)

(* The refreshes under way see the account change. *)
Seeing(cs, a, foreign) ==
    [i \in DOMAIN cs |-> IF cs[i].stage = "refresh"
                         THEN [cs[i] EXCEPT !.seen = @ \cup {a}, !.misses = @ \/ foreign]
                         ELSE cs[i]]

Start(kind) == busy' = busy \cup ({kind} \cap WithSpinner)
Finish(kind) == busy' = busy \ {kind}

-------------------------------------------------------------------------------
(* Coming and going.  Bound: nobody returns while an old call is under way. *)

(* useState takes the names of the user at the first render. *)
Mount ==
    /\ ~Loaded /\ ended # "deleted" /\ calls = <<>>
    /\ user' = account /\ first' = account.first /\ last' = account.last
    /\ passwords' = "missing" /\ deleteModalOpen' = FALSE /\ busy' = {}
    /\ behind' = FALSE /\ edited' = FALSE /\ ended' = "open"
    /\ UNCHANGED <<account, changes, calls>>

Gone(why) ==
    /\ user' = Nobody /\ first' = Empty /\ last' = Empty
    /\ passwords' = "missing" /\ deleteModalOpen' = FALSE /\ busy' = {}
    /\ behind' = FALSE /\ edited' = FALSE /\ ended' = why /\ calls' = <<>>

Leave == Loaded /\ Gone("left") /\ UNCHANGED <<account, changes>>

-------------------------------------------------------------------------------
(* The handlers.                                                            *)

(* handleFirstNameChange, handleLastNameChange *)
TypeName(f, l) ==
    /\ Loaded /\ ~deleteModalOpen
    /\ (f = first) # (l = last)
    /\ first' = f /\ last' = l /\ edited' = TRUE
    /\ UNCHANGED <<account, changes, user, passwords, deleteModalOpen, busy, calls, behind, ended>>

TypePasswords(p) ==
    /\ Loaded /\ ~deleteModalOpen
    /\ passwords' = p
    /\ UNCHANGED <<account, changes, user, first, last, deleteModalOpen, busy, calls, behind, edited, ended>>

HandleSaveProfile ==
    /\ Loaded /\ ~deleteModalOpen /\ SaveEnabled
    /\ Start("save") /\ Send("save", Sent)
    /\ edited' = FALSE
    /\ UNCHANGED <<account, changes, user, first, last, passwords, deleteModalOpen, behind, ended>>

(* A file above MAX_FILE_SIZE ends in a toast. *)
HandlePhotoUpload ==
    /\ Loaded /\ ~deleteModalOpen /\ "upload" \notin busy
    /\ Start("upload") /\ Send("upload", "file")
    /\ UNCHANGED <<account, changes, user, form, behind, ended>>

(* Nothing disables the button while the photo is being deleted. *)
HandleDeletePhoto ==
    /\ Loaded /\ ~deleteModalOpen /\ "delete_photo" \in PhotoButtons(user)
    /\ Start("delete_photo") /\ Send("delete_photo", "photo")
    /\ UNCHANGED <<account, changes, user, form, behind, ended>>

(* Two different passwords end in a toast. *)
HandleChangePassword ==
    /\ Loaded /\ ~deleteModalOpen /\ UpdateEnabled /\ passwords # "different"
    /\ Start("password") /\ Send("password", passwords)
    /\ UNCHANGED <<account, changes, user, form, behind, ended>>

HandleExportData ==
    /\ Loaded /\ ~deleteModalOpen /\ ExportEnabled
    /\ Start("export") /\ Send("export", "data")
    /\ UNCHANGED <<account, changes, user, form, behind, ended>>

SetDeleteModalOpen(open) ==
    /\ Loaded /\ deleteModalOpen # open
    /\ deleteModalOpen' = open
    /\ UNCHANGED <<account, changes, user, first, last, passwords, edited, busy, calls, behind, ended>>

HandleDeleteAccount ==
    /\ Loaded /\ deleteModalOpen /\ "delete_account" \notin busy
    /\ Start("delete_account") /\ Send("delete_account", "account")
    /\ UNCHANGED <<account, changes, user, form, behind, ended>>

-------------------------------------------------------------------------------
(* Answers.                                                                 *)

ServerAccepts(i) ==
    LET c == calls[i]
    IN  /\ c.stage = "sent" /\ Accepts(c)
        /\ IF After(c) # account
           THEN /\ Change(After(c), FALSE)
                /\ calls' = Seeing([calls EXCEPT ![i].stage = "done"], After(c), FALSE)
           ELSE /\ calls' = [calls EXCEPT ![i].stage = "done"]
                /\ UNCHANGED <<account, changes, behind>>
        /\ UNCHANGED <<user, form, busy, ended>>

(* await refreshUser() *)
ThenRefresh(i) ==
    /\ calls[i].stage = "done" /\ calls[i].kind \in Refreshing
    /\ calls' = [calls EXCEPT ![i] = [@ EXCEPT !.stage = "refresh", !.seen = {account}]]
    /\ UNCHANGED <<account, changes, user, form, busy, behind, ended>>

(* Mutant: refreshUser keeps the photo it had. *)
PhotoKept(a) == [a EXCEPT !.photo = user.photo]

Received(a) == a

UserRefreshed(i) ==
    LET c == calls[i]
    IN  /\ c.stage = "refresh"
        /\ \E a \in c.seen : user' = Received(a)
        /\ behind' = (c.misses \/ c.overtaken)
        /\ Finish(c.kind)
        /\ calls' = RemoveAt([j \in DOMAIN calls |-> IF calls[j].stage = "refresh" /\ j # i
                                                     THEN [calls[j] EXCEPT !.overtaken = TRUE] ELSE calls[j]], i)
        /\ UNCHANGED <<account, changes, form, ended>>

(* Any error of getCurrentUser drops the token: ProtectedRoute goes away. *)
RefreshFailed(i) ==
    /\ calls[i].stage = "refresh"
    /\ Gone("session dropped")
    /\ UNCHANGED <<account, changes>>

Answered(i) ==
    LET c == calls[i]
    IN  /\ c.stage = "done" /\ c.kind \in {"password", "export"}
        /\ Finish(c.kind)
        /\ calls' = RemoveAt(calls, i)
        /\ passwords' = IF c.kind = "password" THEN "missing" ELSE passwords
        /\ UNCHANGED <<account, changes, user, first, last, deleteModalOpen, edited, behind, ended>>

AccountDeleted(i) ==
    /\ calls[i].stage = "done" /\ calls[i].kind = "delete_account"
    /\ Gone("deleted")
    /\ UNCHANGED <<account, changes>>

(* A wrong password is answered with 401, as is an expired token: request() *)
(* drops the token and loads /login.                                        *)
Unauthorized(i) ==
    /\ calls[i].stage = "sent" /\ calls[i].kind = "password" /\ ~Accepts(calls[i])
    /\ Gone("wrong password")
    /\ UNCHANGED <<account, changes>>

(* Refused otherwise, or the network failed: a toast. *)
RequestFailed(i) ==
    LET c == calls[i]
        lost == c.stage = "done" /\ c.kind \in Refreshing
    IN  /\ c.stage \in {"sent", "done"}
        /\ Finish(c.kind)
        /\ calls' = RemoveAt([j \in DOMAIN calls |-> IF calls[j].stage = "refresh"
                                                     THEN [calls[j] EXCEPT !.misses = @ \/ lost] ELSE calls[j]], i)
        /\ behind' = (behind \/ lost)
        /\ edited' = (edited \/ c.kind = "save")
        /\ UNCHANGED <<account, changes, user, first, last, passwords, deleteModalOpen, ended>>

(* Another tab. *)
OthersChange ==
    /\ \E a \in {[account EXCEPT !.first = n] : n \in Names} \cup {[account EXCEPT !.photo = p] : p \in {0, changes + 1}} :
          /\ a # account
          /\ Change(a, Loaded)
          /\ calls' = Seeing(calls, a, TRUE)
          /\ edited' = (edited \/ (Loaded /\ a.first # account.first))
    /\ UNCHANGED <<user, first, last, passwords, deleteModalOpen, busy, ended>>

-------------------------------------------------------------------------------

Init ==
    /\ account \in {a \in Accounts : a.photo \in {0, 1}}
    /\ changes = 1
    /\ user = Nobody /\ first = Empty /\ last = Empty
    /\ passwords = "missing" /\ deleteModalOpen = FALSE
    /\ busy = {} /\ calls = <<>> /\ behind = FALSE /\ edited = FALSE /\ ended = "new"

UserActs ==
    \/ Mount \/ Leave
    \/ \E f, l \in Fields : TypeName(f, l)
    \/ \E p \in Passwords : TypePasswords(p)
    \/ HandleSaveProfile \/ HandlePhotoUpload \/ HandleDeletePhoto
    \/ HandleChangePassword \/ HandleExportData
    \/ \E open \in BOOLEAN : SetDeleteModalOpen(open)
    \/ HandleDeleteAccount

CallProceeds(i) ==
    \/ ServerAccepts(i) \/ ThenRefresh(i) \/ UserRefreshed(i) \/ RefreshFailed(i)
    \/ Answered(i) \/ AccountDeleted(i) \/ Unauthorized(i) \/ RequestFailed(i)

Next == UserActs \/ OthersChange \/ \E i \in DOMAIN calls : CallProceeds(i)

Spec == Init /\ [][Next]_vars

-------------------------------------------------------------------------------
(* Properties.                                                              *)

(* Types of the account, the page and the calls. *)
TypeOK ==
    /\ account \in Accounts
    /\ changes \in 0..MaxChanges
    /\ user \in Accounts \cup {Nobody}
    /\ {first, last} \subseteq Fields /\ passwords \in Passwords
    /\ {deleteModalOpen, behind, edited} \subseteq BOOLEAN
    /\ busy \subseteq WithSpinner
    /\ \A i \in DOMAIN calls : calls[i].kind \in Kinds /\ calls[i].seen \subseteq Accounts

Settled == Loaded /\ calls = <<>>

(* Once nothing is under way, the page shows the account as stored, and the *)
(* photo can be deleted just when there is one, unless another tab changed  *)
(* it, an answer was lost or two refreshes overtook one another.            *)
ProfileIsFresh == Settled /\ ~behind => Header(user) = Header(account)

(* The names in the fields, once saved and changed nowhere since, are those *)
(* of the account, except that an emptied last name is not saved; saving    *)
(* them again changes nothing.                                              *)
SavedNamesShown ==
    Settled /\ ~behind /\ ~edited => first = account.first /\ last \in {account.last, Empty}

(* Each spinner, which disables its button, is there just as long as its    *)
(* call is under way: an overlap of calls leaves none behind.               *)
SpinnersEnd == Loaded => busy = {k \in WithSpinner : \E i \in DOMAIN calls : calls[i].kind = k}

(* A password that is refused leaves the page open, with a toast, as        *)
(* tests/pages/Profile.test.tsx:630 has it with an API that is mocked.      *)
RefusedStays == ended # "wrong password"

===============================================================================
