----------------------------- MODULE ClientSession -----------------------------
(***************************************************************************)
(* Who is logged in, as each tab of a browser sees it: lib/api.ts keeps the *)
(* token in memory and in localStorage, which the tabs share, and           *)
(* contexts/AuthContext.tsx keeps the user that GET /users/me answered to   *)
(* some token.  The pages of login and registration, the menu, the profile  *)
(* and every call that is answered with 401 change the one or the other.    *)
(***************************************************************************)
EXTENDS Calls, FiniteSets

CONSTANTS
    Tabs, Users,
    NoToken, NoUser,
    Registered,     \* the users that have an account at the start
    MaxTokens,      \* bound: logins
    MaxCalls        \* bound: calls under way

VARIABLES
    accounts,       \* the users that have an account
    refused,        \* tokens that have expired or were revoked
    issued,         \* counts the tokens
    localStorage,   \* the item become_token
    path,           \* public, login or protected, for each tab
    token,          \* ApiClient.token
    user,           \* of AuthContext, with isLoading
    isLoading,
    submitting,     \* isLoading of useAuthSubmit, in the form that is mounted
    pending,        \* calls under way
    late            \* history: the user is the answer to a token that the tab had dropped

server == <<accounts, refused, issued>>
tab == <<path, token, user, isLoading, submitting, pending, late>>
vars == <<server, localStorage, tab>>

Paths == {"public", "login", "protected"}
Tokens == [owner : Users, n : 1..MaxTokens]
Kinds == {"me", "login", "register", "api", "delete_account"}

(* What is assumed of the constants. *)
ConstantsOK ==
    /\ Registered \subseteq Users /\ IsFiniteSet(Tabs)
    /\ NoUser \notin Users /\ NoToken \notin Tokens
    /\ {MaxTokens, MaxCalls} \subseteq Nat

-------------------------------------------------------------------------------

(* get_current_user takes the token. *)
Valid(tok) == tok # NoToken /\ tok \notin refused /\ tok.owner \in accounts

(* ProtectedRoute: a spinner while loading, then the page or /login. *)
Routed(p, u, loading) == IF p = "protected" /\ ~loading /\ u = NoUser THEN "login" ELSE p

ShowsPage(t) == path[t] = "protected" /\ ~isLoading[t] /\ user[t] # NoUser

(* The links of the menu: Sign in and Get started, or the pages and Sign out. *)
MenuLinks(t) ==
    {"public"} \cup IF user[t] # NoUser THEN {"protected"} ELSE IF path[t] # "login" THEN {"login"} ELSE {}

(* The forms of login and registration link to one another, which is still  *)
(* "login" for the model; a submission disables the button, and so does     *)
(* what the schema of Register does not take.                               *)
LoginForm(t) == [links |-> {"login"}, button |-> ~submitting[t]]
RegisterForm(t, isValid) == [links |-> {"login"}, button |-> ~submitting[t] /\ isValid]

Call(kind, tok, who, form) ==
    [kind |-> kind, token |-> tok, who |-> who, form |-> form, ok |-> Valid(tok), mounted |-> form]

(* The calls of the other tabs. *)
Elsewhere(t) == {call \in Tabs \X (1..MaxCalls) : call[1] # t /\ call[2] \in DOMAIN pending[call[1]]}

(* Bound: with k calls in this tab there are at most MaxCalls. *)
Room(t, k) == k + Cardinality(Elsewhere(t)) <= MaxCalls

(* refreshUser asks with the token of the moment, if there is one. *)
Send(t, c) ==
    /\ Room(t, Len(pending[t]) + 1)
    /\ pending' = [pending EXCEPT ![t] = Append(@, c)]

(* A document is loaded at p: all of the tab's memory is new, and the first *)
(* effect of AuthProvider calls refreshUser, which is done without a token. *)
Document(t, p, item) ==
    /\ token' = [token EXCEPT ![t] = item]
    /\ user' = [user EXCEPT ![t] = NoUser]
    /\ isLoading' = [isLoading EXCEPT ![t] = item # NoToken]
    /\ path' = [path EXCEPT ![t] = Routed(p, NoUser, item # NoToken)]
    /\ submitting' = [submitting EXCEPT ![t] = FALSE]
    /\ pending' = [pending EXCEPT ![t] = IF item = NoToken THEN <<>> ELSE <<Call("me", item, NoUser, FALSE)>>]
    /\ late' = [late EXCEPT ![t] = FALSE]

-------------------------------------------------------------------------------
(* The visitor.                                                             *)

(* A tab is opened or loaded again, at any address. *)
Reload(t, p) ==
    /\ Room(t, IF localStorage = NoToken THEN 0 ELSE 1)
    /\ Document(t, p, localStorage)
    /\ UNCHANGED <<server, localStorage>>

(* A link or the history: the router changes the page, nothing else.  The   *)
(* form of a page that is left is gone, its handler runs on.                *)
Navigate(t, p) ==
    /\ IF path[t] = p THEN p \in LoginForm(t).links ELSE p \in MenuLinks(t) \cup {"login"}
    /\ path' = [path EXCEPT ![t] = Routed(p, user[t], isLoading[t])]
    /\ submitting' = [submitting EXCEPT ![t] = FALSE]
    /\ pending' = [pending EXCEPT ![t] = [i \in DOMAIN @ |-> [@[i] EXCEPT !.mounted = FALSE]]]
    /\ UNCHANGED <<server, localStorage, token, user, isLoading, late>>

(* onSubmit of Login and Register, with data that their schemas take. *)
Submit(t, kind, who) ==
    /\ path[t] = "login"
    /\ IF kind = "login" THEN LoginForm(t).button ELSE RegisterForm(t, TRUE).button
    /\ submitting' = [submitting EXCEPT ![t] = TRUE]
    /\ Send(t, Call(kind, NoToken, who, TRUE))
    /\ UNCHANGED <<server, localStorage, path, token, user, isLoading, late>>

(* Any call of a protected page. *)
ApiCall(t) ==
    /\ ShowsPage(t) /\ Send(t, Call("api", token[t], NoUser, FALSE))
    /\ UNCHANGED <<server, localStorage, path, token, user, isLoading, submitting, late>>

(* await refreshUser() of the profile; without a token it only forgets the user. *)
RefreshUser(t) ==
    /\ ShowsPage(t) /\ token[t] # NoToken
    /\ Send(t, Call("me", token[t], NoUser, FALSE))
    /\ UNCHANGED <<server, localStorage, path, token, user, isLoading, submitting, late>>

DeleteAccount(t) ==
    /\ ShowsPage(t) /\ Send(t, Call("delete_account", token[t], user[t], FALSE))
    /\ UNCHANGED <<server, localStorage, path, token, user, isLoading, submitting, late>>

(* handleLogout of the menu: the document of / is loaded. *)
HandleLogout(t) ==
    /\ user[t] # NoUser
    /\ localStorage' = NoToken
    /\ Document(t, "public", NoToken)
    /\ UNCHANGED server

-------------------------------------------------------------------------------
(* Answers, to the i-th call of a tab.                                      *)

Done(t, i) == pending' = [pending EXCEPT ![t] = RemoveAt(@, i)]

(* The end of execute of useAuthSubmit: navigate("/projects") after success. *)
FormEnds(t, c) ==
    submitting' = IF c.mounted THEN [submitting EXCEPT ![t] = FALSE] ELSE submitting

(* Mutant: the token is kept and the user is left as it was. *)
LoginKeepsUser(t, i) ==
    LET c == pending[t][i]
        new == [owner |-> c.who, n |-> issued + 1]
    IN  /\ c.kind = "login" /\ c.who \in accounts /\ issued < MaxTokens
        /\ issued' = issued + 1
        /\ localStorage' = new
        /\ token' = [token EXCEPT ![t] = new]
        /\ Done(t, i)
        /\ FormEnds(t, c)
        /\ UNCHANGED <<accounts, refused, path, user, isLoading, late>>

(* login: setToken, then refreshUser. *)
LoginAnswered(t, i) ==
    LET c == pending[t][i]
        new == [owner |-> c.who, n |-> issued + 1]
    IN  /\ c.kind = "login" /\ c.who \in accounts /\ issued < MaxTokens
        /\ issued' = issued + 1
        /\ localStorage' = new
        /\ token' = [token EXCEPT ![t] = new]
        /\ pending' = [pending EXCEPT ![t][i] = [Call("me", new, NoUser, TRUE) EXCEPT !.mounted = c.mounted]]
        /\ UNCHANGED <<accounts, refused, path, user, isLoading, submitting, late>>

(* register: the account, and then the login. *)
RegisterAnswered(t, i) ==
    LET c == pending[t][i]
    IN  /\ c.kind = "register" /\ c.who \notin accounts
        /\ accounts' = accounts \cup {c.who}
        /\ pending' = [pending EXCEPT ![t][i].kind = "login"]
        /\ UNCHANGED <<refused, issued, localStorage, path, token, user, isLoading, submitting, late>>

(* The account is there, the answer is not. *)
RegisterLost(t, i) ==
    LET c == pending[t][i]
    IN  /\ c.kind = "register" /\ c.who \notin accounts
        /\ accounts' = accounts \cup {c.who}
        /\ Done(t, i) /\ FormEnds(t, c)
        /\ UNCHANGED <<refused, issued, localStorage, path, token, user, isLoading, late>>

UserAnswered(t, i) ==
    LET c == pending[t][i]
    IN  /\ c.kind = "me" /\ c.ok
        /\ user' = [user EXCEPT ![t] = c.token.owner]
        /\ isLoading' = [isLoading EXCEPT ![t] = FALSE]
        /\ path' = [path EXCEPT ![t] = IF c.form THEN "protected" ELSE @]
        /\ late' = [late EXCEPT ![t] = c.token # token[t]]
        /\ Done(t, i) /\ FormEnds(t, c)
        /\ UNCHANGED <<server, localStorage, token>>

(* api.logout() *)
DropToken(t) == localStorage' = NoToken /\ token' = [token EXCEPT ![t] = NoToken]

NoLongerLoading(t) == [isLoading EXCEPT ![t] = FALSE]

(* Any error but 401 drops the token too, also one that is not of the call. *)
(* refreshUser does not throw: a login goes on to /projects, and so /login. *)
UserFailed(t, i) ==
    LET c == pending[t][i]
    IN  /\ c.kind = "me"
        /\ DropToken(t)
        /\ user' = [user EXCEPT ![t] = NoUser]
        /\ isLoading' = NoLongerLoading(t)
        /\ path' = [path EXCEPT ![t] = IF c.form THEN "login" ELSE Routed(@, NoUser, FALSE)]
        /\ late' = [late EXCEPT ![t] = FALSE]
        /\ Done(t, i) /\ FormEnds(t, c)
        /\ UNCHANGED server

ApiAnswered(t, i) ==
    /\ pending[t][i].kind = "api" /\ pending[t][i].ok
    /\ Done(t, i)
    /\ UNCHANGED <<server, localStorage, path, token, user, isLoading, submitting, late>>

(* 401: the token of the moment is dropped, whatever the call's was, and    *)
(* the document of /login is loaded.                                        *)
Unauthorized(t, i) ==
    /\ pending[t][i].kind \in {"me", "api", "delete_account"} /\ ~Valid(pending[t][i].token)
    /\ localStorage' = NoToken
    /\ Document(t, "login", NoToken)
    /\ UNCHANGED server

(* logout() and navigate("/"), in the same document; the projects went first. *)
AccountDeleted(t, i) ==
    LET c == pending[t][i]
    IN  /\ c.kind = "delete_account" /\ Valid(c.token)
        /\ accounts' = accounts \ {c.token.owner}
        /\ DropToken(t)
        /\ user' = [user EXCEPT ![t] = NoUser]
        /\ path' = [path EXCEPT ![t] = "public"]
        /\ late' = [late EXCEPT ![t] = FALSE]
        /\ Done(t, i)
        /\ UNCHANGED <<refused, issued, isLoading, submitting>>

(* An error of the network, or a refusal of the login: a toast. *)
CallFailed(t, i) ==
    LET c == pending[t][i]
    IN  /\ c.kind # "me"
        /\ Done(t, i) /\ FormEnds(t, c)
        /\ UNCHANGED <<server, localStorage, path, token, user, isLoading, late>>

(* A token expires, or its password is changed elsewhere, or it is revoked. *)
Expire(tok) ==
    /\ tok \notin refused
    /\ \/ localStorage = tok
       \/ \E t \in Tabs : token[t] = tok
    /\ refused' = refused \cup {tok}
    /\ UNCHANGED <<accounts, issued, localStorage, tab>>

-------------------------------------------------------------------------------

Init ==
    /\ accounts = Registered /\ refused = {} /\ issued = 0
    /\ localStorage = NoToken
    /\ path = [t \in Tabs |-> "public"]
    /\ token = [t \in Tabs |-> NoToken] /\ user = [t \in Tabs |-> NoUser]
    /\ isLoading = [t \in Tabs |-> FALSE] /\ submitting = [t \in Tabs |-> FALSE]
    /\ pending = [t \in Tabs |-> <<>>] /\ late = [t \in Tabs |-> FALSE]

Visits(t) ==
    \/ \E p \in Paths : Reload(t, p) \/ Navigate(t, p)
    \/ \E kind \in {"login", "register"}, who \in Users : Submit(t, kind, who)
    \/ ApiCall(t) \/ RefreshUser(t) \/ DeleteAccount(t) \/ HandleLogout(t)

CallEnds(t, i) ==
    \/ LoginAnswered(t, i) \/ RegisterAnswered(t, i) \/ RegisterLost(t, i)
    \/ UserAnswered(t, i) \/ UserFailed(t, i) \/ ApiAnswered(t, i)
    \/ Unauthorized(t, i) \/ AccountDeleted(t, i) \/ CallFailed(t, i)

Next ==
    \/ \E t \in Tabs : Visits(t) \/ \E i \in DOMAIN pending[t] : CallEnds(t, i)
    \/ \E tok \in Tokens : Expire(tok)

Spec == Init /\ [][Next]_vars

-------------------------------------------------------------------------------
(* Properties.                                                              *)

(* Types of the accounts, the storage and the tabs. *)
TypeOK ==
    /\ accounts \subseteq Users /\ refused \subseteq Tokens /\ issued \in 0..MaxTokens
    /\ localStorage \in Tokens \cup {NoToken}
    /\ path \in [Tabs -> Paths]
    /\ token \in [Tabs -> Tokens \cup {NoToken}] /\ user \in [Tabs -> Users \cup {NoUser}]
    /\ {isLoading, submitting, late} \subseteq [Tabs -> BOOLEAN]
    /\ \A t \in Tabs : Len(pending[t]) <= MaxCalls /\ \A i \in DOMAIN pending[t] : pending[t][i].kind \in Kinds

Refreshing(t) == \E i \in DOMAIN pending[t] : pending[t][i].kind = "me"

(* The user that a tab shows is the owner of the token it sends, and there  *)
(* is a user when there is a token, once refreshUser is done; unless an     *)
(* answer for a token that was dropped meanwhile came later.                *)
ShownUserOwnsToken ==
    \A t \in Tabs :
        ~Refreshing(t) /\ ~late[t] =>
            IF token[t] = NoToken THEN user[t] = NoUser ELSE user[t] = token[t].owner

(* A spinner, of the protected pages or of a form, is there just as long as *)
(* the call that it waits for: each path through refreshUser and            *)
(* useAuthSubmit reaches its finally, and a form that was left leaves none. *)
SpinnersHaveCalls ==
    \A t \in Tabs :
        /\ isLoading[t] => Refreshing(t)
        /\ submitting[t] <=> \E i \in DOMAIN pending[t] : pending[t][i].mounted

===============================================================================
