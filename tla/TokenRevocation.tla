---------------------------- MODULE TokenRevocation ----------------------------
(***************************************************************************)
(* The tokens of a login and their revocation (api/auth/jwt.py, the         *)
(* handlers of api/routes/auth.py and TokenBlacklist).  The access and the  *)
(* refresh tokens of one login share an identifier; a logout puts it into   *)
(* the blacklist of the worker that served it, until a time it computes,    *)
(* and other workers know nothing of it.                                    *)
(***************************************************************************)
EXTENDS Naturals

CONSTANTS
    Workers,
    Sessions,       \* identifiers, one for each login (jti)
    AccessTTL,      \* access_token_expire_minutes
    RefreshTTL,     \* refresh_token_expire_days, in the same unit
    Never,
    MaxTime         \* bound: the clock

VARIABLES
    now,
    started,        \* sessions that have begun
    tokens,         \* the tokens that have not expired
    store,          \* _memory_store of each worker: until when; 0 when absent
    calls,          \* handlers that have decoded their token and not yet ended
    revoked         \* history: when the process of the worker last revoked the session

vars == <<now, started, tokens, store, calls, revoked>>

Types == {"access", "refresh"}
TokenSet == [jti : Sessions, type : Types, at : Nat, exp : Nat, by : Workers]
CallSet == [worker : Workers, kind : {"refresh", "logout"}, jti : Sessions, since : Nat]

(* An access token lives no longer than a refresh token: 15 minutes, 7 days. *)
ASSUME TTLAssumption ==
    /\ AccessTTL \in Nat \ {0} /\ RefreshTTL \in Nat /\ AccessTTL <= RefreshTTL
    /\ MaxTime \in Nat
    /\ Never \notin Nat

(* A handler takes no longer than this from decoding its token to its end.  *)
Slack == RefreshTTL - AccessTTL

-------------------------------------------------------------------------------
(* TokenBlacklist.                                                          *)

(* is_blacklisted *)
Blacklisted(w, jti) == now < store[w][jti]

(* and what it leaves behind: an entry whose time is over is deleted. *)
LookedUp(w, jti) == IF Blacklisted(w, jti) THEN store ELSE [store EXCEPT ![w][jti] = 0]

(* add; a time that is over would not be stored. *)
Added(w, jti, until) == IF until <= now THEN store ELSE [store EXCEPT ![w][jti] = until]

-------------------------------------------------------------------------------
(* decode_token at a worker: signature, expiry, type, identifier, blacklist. *)

Accepts(w, tok) == now < tok.exp /\ ~Blacklisted(w, tok.jti)

Token(jti, type, ttl, w) == [jti |-> jti, type |-> type, at |-> now, exp |-> now + ttl, by |-> w]

(* create_token_pair *)
Login(w, s) ==
    /\ s \notin started
    /\ started' = started \cup {s}
    /\ tokens' = tokens \cup {Token(s, "refresh", RefreshTTL, w), Token(s, "access", AccessTTL, w)}
    /\ UNCHANGED <<now, store, calls, revoked>>

(* decode_token for any other call, or for one that is refused: only the    *)
(* lookup shows.  An expired token never gets as far as the blacklist.      *)
Decode(w, tok) ==
    /\ now < tok.exp
    /\ store' = LookedUp(w, tok.jti)
    /\ UNCHANGED <<now, started, tokens, calls, revoked>>

(* The token is decoded for /auth/refresh or /auth/logout. *)
Begin(w, tok) ==
    /\ Accepts(w, tok)
    /\ store' = LookedUp(w, tok.jti)
    /\ calls' = calls \cup {[worker |-> w, kind |-> IF tok.type = "refresh" THEN "refresh" ELSE "logout",
                             jti |-> tok.jti, since |-> now]}
    /\ UNCHANGED <<now, started, tokens, revoked>>

(* refresh_token: a new access token with the identifier of the old. *)
Refresh(c) ==
    /\ c.kind = "refresh"
    /\ tokens' = tokens \cup {Token(c.jti, "access", AccessTTL, c.worker)}
    /\ calls' = calls \ {c}
    /\ UNCHANGED <<now, started, store, revoked>>

(* Mutant: the lifetime of an access token. *)
UntilAccessExpires == now + AccessTTL

(* revoke_token: "for the full refresh token lifetime". *)
RevokedUntil == now + RefreshTTL

Logout(c) ==
    /\ c.kind = "logout"
    /\ store' = Added(c.worker, c.jti, RevokedUntil)
    /\ revoked' = [revoked EXCEPT ![c.worker][c.jti] = now]
    /\ calls' = calls \ {c}
    /\ UNCHANGED <<now, started, tokens>>

(* The process of a worker ends and a new one begins. *)
Restart(w) ==
    /\ store' = [store EXCEPT ![w] = [s \in Sessions |-> 0]]
    /\ calls' = {c \in calls : c.worker # w}
    /\ revoked' = [revoked EXCEPT ![w] = [s \in Sessions |-> Never]]
    /\ UNCHANGED <<now, started, tokens>>

Tick ==
    /\ now < MaxTime
    /\ \A c \in calls : now < c.since + Slack
    /\ now' = now + 1
    /\ tokens' = {tok \in tokens : now' < tok.exp}
    /\ UNCHANGED <<started, store, calls, revoked>>

-------------------------------------------------------------------------------

Init ==
    /\ now = 0 /\ started = {} /\ tokens = {} /\ calls = {}
    /\ store = [w \in Workers |-> [s \in Sessions |-> 0]]
    /\ revoked = [w \in Workers |-> [s \in Sessions |-> Never]]

Next ==
    \/ \E w \in Workers, s \in Sessions : Login(w, s)
    \/ \E w \in Workers, tok \in tokens : Decode(w, tok) \/ Begin(w, tok)
    \/ \E c \in calls : Refresh(c) \/ Logout(c)
    \/ \E w \in Workers : Restart(w)
    \/ Tick

Spec == Init /\ [][Next]_vars

-------------------------------------------------------------------------------
(* Properties.                                                              *)

(* Types of the tokens, the stores and the calls. *)
TypeOK ==
    /\ now \in Nat
    /\ started \subseteq Sessions
    /\ tokens \subseteq TokenSet
    /\ calls \subseteq CallSet
    /\ store \in [Workers -> [Sessions -> Nat]]
    /\ revoked \in [Workers -> [Sessions -> Nat \cup {Never}]]

(* A worker that has served the logout of a session, and was not restarted, *)
(* refuses every token of the session that is left: every refresh token,    *)
(* and every access token that was issued before the logout or by itself,   *)
(* also by a refresh that was under way; the entry is never forgotten too   *)
(* early.  (Access tokens that another worker issues after the logout are   *)
(* not covered: they may outlive the entry.)                                *)
RevokedStaysRefused ==
    \A w \in Workers, tok \in tokens :
        /\ revoked[w][tok.jti] # Never
        /\ tok.type = "refresh" \/ tok.by = w \/ tok.at <= revoked[w][tok.jti]
        => ~Accepts(w, tok)

===============================================================================
