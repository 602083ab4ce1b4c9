----------------------------- MODULE PasswordReset -----------------------------
(***************************************************************************)
(* The way to a new password: the pages ForgotPassword and ResetPassword    *)
(* of one browser, and the two handlers of PasswordResetService behind      *)
(* them.  Each handler reads and commits later; the workers of the API let  *)
(* the handlers of several requests overlap.                                *)
(***************************************************************************)
EXTENDS Naturals

CONSTANTS
    Requests,       \* POST /auth/forgot-password; each names the token it makes
    Redemptions,    \* POST /auth/reset-password; each names the password it sets
    None,
    TTL,            \* password_reset_token_ttl_minutes
    MaxTime         \* bound: the clock

VARIABLES
    now,
    exists,         \* the row of the user
    tokens,         \* the token of each request, or None
    password,       \* the redemption that set it, or None
    stage,          \* where the handler of a request or a redemption is
    seen,           \* what a request read: the tokens outstanding
    presented,      \* the token that a redemption was sent with
    mailbox,        \* tokens that the user received
    page,           \* what the browser shows
    link,           \* ?token= of the address, or None
    waiting,        \* the call that the mounted form awaits (isLoading), or None
    newest,         \* history: the token made last
    overlapped,     \* history: two requests overlapped
    raced,          \* history: tokens of redemptions that overlapped
    changes         \* history: how often a token changed the password

database == <<exists, tokens, password>>
handlers == <<stage, seen, presented, mailbox>>
browser == <<page, link, waiting>>
history == <<newest, overlapped, raced, changes>>
vars == <<now, database, handlers, browser, history>>

Calls == Requests \cup Redemptions
Token == [expires : Nat, used : BOOLEAN]
Pages == {"forgot", "sent", "reset", "login"}

(* What is assumed of the constants. *)
ConstantsOK ==
    /\ Requests \cap Redemptions = {}
    /\ None \notin Calls /\ None \notin Token
    /\ {TTL, MaxTime} \subseteq Nat

-------------------------------------------------------------------------------
(* The pages.                                                               *)

(* ForgotPassword: the form, or the answer that is always the same.         *)
ForgotView(submitted) == IF submitted THEN {"to_login"} ELSE {"email", "submit", "to_login"}

(* ResetPassword: without a token there is only the link to the other page. *)
ResetView(token) == IF token = None THEN {"new_link"} ELSE {"password", "confirmation", "submit"}

Shown ==
    CASE page = "forgot" -> ForgotView(FALSE)
      [] page = "sent"   -> ForgotView(TRUE)
      [] page = "reset"  -> ResetView(link)
      [] page = "login"  -> {"to_forgot"}

(* Another page is mounted; a call goes on without the form that made it.   *)
Goto(p, token) ==
    /\ page' = p /\ link' = token /\ waiting' = None
    /\ UNCHANGED <<now, database, handlers, history>>

Visit ==
    \/ \E token \in mailbox \cup {None} : Goto("reset", token)
    \/ (page = "login" \/ "new_link" \in Shown) /\ Goto("forgot", None)
    \/ "to_login" \in Shown /\ Goto("login", None)

(* onSubmit of either form, with data that its schema takes. *)
Submit(c) ==
    /\ "submit" \in Shown /\ waiting = None /\ stage[c] = "new"
    /\ c \in IF page = "forgot" THEN Requests ELSE Redemptions
    /\ waiting' = c
    /\ stage' = [stage EXCEPT ![c] = "asked"]
    /\ presented' = [presented EXCEPT ![c] = link]
    /\ UNCHANGED <<now, database, seen, mailbox, page, link, history>>

(* ForgotPassword says the same whatever the answer is, or none. *)
ForgotAnswered ==
    /\ waiting \in Requests
    /\ page' = "sent" /\ waiting' = None
    /\ UNCHANGED <<now, database, handlers, link, history>>

ResetAnswered ==
    /\ waiting \in Redemptions /\ stage[waiting] = "done"
    /\ page' = "login" /\ link' = None /\ waiting' = None
    /\ UNCHANGED <<now, database, handlers, history>>

(* Any error, a lost answer too, is shown as an invalid link; the form stays. *)
ResetFailed ==
    /\ waiting \in Redemptions
    /\ waiting' = None
    /\ UNCHANGED <<now, database, handlers, page, link, history>>

-------------------------------------------------------------------------------
(* forgot_password and create_reset_token.                                  *)

Outstanding == {t \in Requests : tokens[t] # None /\ ~tokens[t].used}

(* get_settings().password_reset_token_ttl_minutes from now on. *)
NewToken == [expires |-> now + TTL, used |-> FALSE]

(* An address without an account gets the same answer, and no token. *)
ReadOutstanding(r) ==
    /\ stage[r] = "asked"
    /\ stage' = [stage EXCEPT ![r] = IF exists THEN "read" ELSE "done"]
    /\ seen' = [seen EXCEPT ![r] = Outstanding]
    /\ overlapped' = (overlapped \/ \E q \in Requests : stage[q] = "read")
    /\ UNCHANGED <<now, database, presented, mailbox, browser, newest, raced, changes>>

(* Mutant: the outstanding tokens are left as they are. *)
WithoutInvalidation(r) == [tokens EXCEPT ![r] = NewToken]

(* The commit: those that were read are used, and the new one is there. *)
Invalidated(r) ==
    [t \in Requests |->
        IF t = r THEN NewToken
        ELSE IF t \in seen[r] /\ tokens[t] # None THEN [tokens[t] EXCEPT !.used = TRUE]
        ELSE tokens[t]]

SaveToken(r) ==
    /\ stage[r] = "read" /\ exists
    /\ tokens' = Invalidated(r)
    /\ newest' = r
    /\ stage' = [stage EXCEPT ![r] = "saved"]
    /\ UNCHANGED <<now, exists, password, seen, presented, mailbox, browser, overlapped, raced, changes>>

(* The mail, after the commit; EmailSendError is logged, and the answer is the same. *)
SendMail(r) ==
    /\ stage[r] = "saved"
    /\ mailbox' \in {mailbox, mailbox \cup {r}}
    /\ stage' = [stage EXCEPT ![r] = "done"]
    /\ UNCHANGED <<now, database, seen, presented, browser, history>>

-------------------------------------------------------------------------------
(* reset_password.                                                          *)

Accepted(t) == t \in Outstanding /\ ~(tokens[t].expires < now)

ReadRecord(d) ==
    /\ stage[d] = "asked"
    /\ stage' = [stage EXCEPT ![d] = IF Accepted(presented[d]) THEN "read" ELSE "refused"]
    /\ raced' = raced \cup {presented[e] : e \in {e \in Redemptions : stage[e] = "read" /\ presented[e] = presented[d]}}
    /\ UNCHANGED <<now, database, seen, presented, mailbox, browser, newest, overlapped, changes>>

(* Mutant: the token stays as it is. *)
NotUsed(t) == tokens

MarkUsed(t) == [tokens EXCEPT ![t].used = TRUE]

(* The password is hashed meanwhile; nothing is checked again. *)
ChangePassword(d) ==
    /\ stage[d] = "read" /\ exists
    /\ password' = d
    /\ tokens' = MarkUsed(presented[d])
    /\ changes' = [changes EXCEPT ![presented[d]] = @ + 1]
    /\ stage' = [stage EXCEPT ![d] = "done"]
    /\ UNCHANGED <<now, exists, seen, presented, mailbox, browser, newest, overlapped, raced>>

(* The rows went with the account: the commit of either handler is refused. *)
CommitFails(c) ==
    /\ stage[c] = "read" /\ ~exists
    /\ stage' = [stage EXCEPT ![c] = "refused"]
    /\ UNCHANGED <<now, database, seen, presented, mailbox, browser, history>>

-------------------------------------------------------------------------------

(* ON DELETE CASCADE from the user to the tokens. *)
EraseAccount ==
    /\ exists
    /\ exists' = FALSE
    /\ tokens' = [t \in Requests |-> None]
    /\ UNCHANGED <<now, password, handlers, browser, history>>

Tick ==
    /\ now < MaxTime
    /\ now' = now + 1
    /\ UNCHANGED <<database, handlers, browser, history>>

Init ==
    /\ now = 0
    /\ exists = TRUE /\ tokens = [t \in Requests |-> None] /\ password = None
    /\ stage = [c \in Calls |-> "new"] /\ seen = [r \in Requests |-> {}]
    /\ presented = [c \in Calls |-> None] /\ mailbox = {}
    /\ page = "login" /\ link = None /\ waiting = None
    /\ newest = None /\ overlapped = FALSE /\ raced = {} /\ changes = [t \in Requests |-> 0]

Next ==
    \/ Visit \/ ForgotAnswered \/ ResetAnswered \/ ResetFailed
    \/ \E c \in Calls : Submit(c) \/ CommitFails(c)
    \/ \E r \in Requests : ReadOutstanding(r) \/ SaveToken(r) \/ SendMail(r)
    \/ \E d \in Redemptions : ReadRecord(d) \/ ChangePassword(d)
    \/ EraseAccount \/ Tick

Spec == Init /\ [][Next]_vars

-------------------------------------------------------------------------------
(* Properties.                                                              *)

(* Types of the tokens, the handlers and the browser. *)
TypeOK ==
    /\ now \in 0..MaxTime /\ {exists, overlapped} \subseteq BOOLEAN
    /\ tokens \in [Requests -> Token \cup {None}]
    /\ password \in Redemptions \cup {None} /\ waiting \in Calls \cup {None}
    /\ stage \in [Calls -> {"new", "asked", "read", "saved", "done", "refused"}]
    /\ seen \in [Requests -> SUBSET Requests]
    /\ presented \in [Calls -> Requests \cup {None}]
    /\ mailbox \subseteq Requests /\ page \in Pages
    /\ {link, newest} \subseteq Requests \cup {None}
    /\ raced \subseteq Requests /\ changes \in [Requests -> Nat]

(* "So only the newest link works" (create_reset_token): a token that would *)
(* be accepted is the last one made, in whatever order mails, redemptions   *)
(* and further requests came - unless two requests overlapped.              *)
OnlyNewestWorks == ~overlapped => \A t \in Requests : Accepted(t) => t = newest

(* A link changes the password at most once, also when it is sent again     *)
(* after an answer was lost - unless two redemptions of it overlapped.      *)
RedeemedOnce == \A t \in Requests \ raced : changes[t] <= 1

===============================================================================
