------------------------------ MODULE Account_proofs ------------------------------
(***************************************************************************)
(* Proofs about the session, the profile page, the photo, the tour and the  *)
(* way to a new password, for any users, tabs, tokens, calls and requests.  *)
(***************************************************************************)
EXTENDS Account, Calls, FiniteSetTheorems, TLAPS

-------------------------------------------------------------------------------
(* The sequences of calls under way.                                        *)

(* One call ends: those after it move up.                                   *)
LEMMA RemoveAtEntries ==
    ASSUME NEW E, NEW q \in Seq(E), NEW i \in DOMAIN q
    PROVE  /\ RemoveAt(q, i) \in Seq(E)
           /\ Len(RemoveAt(q, i)) = Len(q) - 1
           /\ \A k \in 1..(Len(q) - 1) : RemoveAt(q, i)[k] = IF k < i THEN q[k] ELSE q[k + 1]
<1> DEFINE a == SubSeq(q, 1, i - 1)
           b == SubSeq(q, i + 1, Len(q))
<1>1. a \in Seq(E) /\ Len(a) = i - 1 /\ \A k \in 1..(i - 1) : a[k] = q[k]
  OBVIOUS
<1>2. b \in Seq(E) /\ Len(b) = Len(q) - i /\ \A k \in 1..(Len(q) - i) : b[k] = q[i + k]
  OBVIOUS
<1>3. RemoveAt(q, i) = a \o b
  BY DEF RemoveAt
<1> HIDE DEF a, b
<1>4. a \o b \in Seq(E) /\ Len(a \o b) = Len(q) - 1
  BY <1>1, <1>2
<1>5. ASSUME NEW k \in 1..(Len(q) - 1), k < i PROVE (a \o b)[k] = q[k]
  BY <1>1, <1>2, <1>5
<1>6. ASSUME NEW k \in 1..(Len(q) - 1), ~(k < i) PROVE (a \o b)[k] = q[k + 1]
  <2>1. k - (i - 1) \in 1..(Len(q) - i) /\ i + (k - (i - 1)) = k + 1
    BY <1>6
  <2>2. (a \o b)[k] = b[k - (i - 1)]
    BY <1>1, <1>2, <1>6
  <2> QED
    BY <1>2, <2>1, <2>2
<1> QED
  BY <1>3, <1>4, <1>5, <1>6

-------------------------------------------------------------------------------
(* The session in the tabs of a browser.                                    *)

(* A call under way: who asks for the user has a token, who logs in a name, *)
(* and only the forms of login and registration wait for one.               *)
ClientCall ==
    {c \in [kind : C!Kinds, token : C!Tokens \cup {Nothing}, who : Users \cup {Nobody},
            form : BOOLEAN, ok : BOOLEAN, mounted : BOOLEAN] :
        /\ c.kind = "me" => c.token \in C!Tokens
        /\ c.kind \in {"login", "register"} => c.who \in Users
        /\ c.kind \in {"api", "delete_account"} => ~c.mounted}

(* refreshUser is among the calls q; a form waits for one of them.          *)
Asking(q) == \E i \in DOMAIN q : q[i].kind = "me"
FormWaits(q) == \E i \in DOMAIN q : q[i].mounted
OneForm(q) == \A i, j \in DOMAIN q : q[i].mounted /\ q[j].mounted => i = j

(* What holds of one tab: where it is, its token, user and spinners, its    *)
(* calls, and whether the user is a late answer.  The user belongs to the   *)
(* token, the spinners to calls, and one form waits at a time.              *)
TabTypes(p, tok, u, loading, waits, q, l) ==
    /\ p \in C!Paths /\ tok \in C!Tokens \cup {Nothing} /\ u \in Users \cup {Nobody}
    /\ loading \in BOOLEAN /\ waits \in BOOLEAN /\ l \in BOOLEAN
    /\ q \in Seq(ClientCall) /\ Len(q) <= ClientCalls

OwnsToken(tok, u, q, l) ==
    ~Asking(q) /\ ~l => (tok = Nothing => u = Nobody) /\ (tok # Nothing => u = tok.owner)

SpinnersOfCalls(loading, waits, q) ==
    /\ loading => Asking(q)
    /\ waits <=> FormWaits(q)
    /\ OneForm(q)

TabInv(p, tok, u, loading, waits, q, l) ==
    /\ TabTypes(p, tok, u, loading, waits, q, l)
    /\ OwnsToken(tok, u, q, l)
    /\ SpinnersOfCalls(loading, waits, q)

TabNow(t) ==
    TabInv(client_path[t], client_token[t], client_user[t], client_isLoading[t], client_submitting[t],
           client_pending[t], client_late[t])

BrowserTypes ==
    /\ client_accounts \subseteq Users /\ client_refused \subseteq C!Tokens
    /\ client_issued \in 0..ClientTokens
    /\ client_localStorage \in C!Tokens \cup {Nothing}

(* Each part of a tab's state is kept by tab.                               *)
TabDomains ==
    /\ client_path = [t \in ClientTabs |-> client_path[t]]
    /\ client_token = [t \in ClientTabs |-> client_token[t]]
    /\ client_user = [t \in ClientTabs |-> client_user[t]]
    /\ client_isLoading = [t \in ClientTabs |-> client_isLoading[t]]
    /\ client_submitting = [t \in ClientTabs |-> client_submitting[t]]
    /\ client_pending = [t \in ClientTabs |-> client_pending[t]]
    /\ client_late = [t \in ClientTabs |-> client_late[t]]

ClientInv == BrowserTypes /\ TabDomains /\ \A t \in ClientTabs : TabNow(t)

(* A step in one tab.                                                       *)
OnlyTab(t) ==
    /\ client_path' = [client_path EXCEPT ![t] = client_path'[t]]
    /\ client_token' = [client_token EXCEPT ![t] = client_token'[t]]
    /\ client_user' = [client_user EXCEPT ![t] = client_user'[t]]
    /\ client_isLoading' = [client_isLoading EXCEPT ![t] = client_isLoading'[t]]
    /\ client_submitting' = [client_submitting EXCEPT ![t] = client_submitting'[t]]
    /\ client_pending' = [client_pending EXCEPT ![t] = client_pending'[t]]
    /\ client_late' = [client_late EXCEPT ![t] = client_late'[t]]

(* No token stands for none, and calls are counted.                         *)
LEMMA ClientConstants ==
    /\ Nothing \notin C!Tokens /\ Nobody \notin Users
    /\ ClientTokens \in Nat /\ ClientCalls \in Nat /\ IsFiniteSet(ClientTabs)
<1>1. C!IsFiniteSet(ClientTabs) => IsFiniteSet(ClientTabs)
  BY Zenon DEF C!IsFiniteSet, IsFiniteSet
<1> QED
  BY <1>1, AccountAssumption DEF C!ConstantsOK

(* There are not fewer than no calls in the other tabs.                     *)
LEMMA RoomIs == ASSUME NEW t, NEW k \in Nat, C!Room(t, k) PROVE k <= ClientCalls
<1>1. C!Cardinality(C!Elsewhere(t)) = Cardinality(C!Elsewhere(t))
  BY Zenon DEF C!Cardinality, Cardinality
<1>2. C!Elsewhere(t) \subseteq ClientTabs \X (1..ClientCalls)
  BY DEF C!Elsewhere
<1>3. IsFiniteSet(ClientTabs \X (1..ClientCalls))
  <2>1. 1 \in Int /\ ClientCalls \in Int
    BY ClientConstants
  <2>2. IsFiniteSet(1..ClientCalls)
    BY <2>1, FS_Interval
  <2> QED
    BY <2>2, ClientConstants, FS_Product
<1>4. Cardinality(C!Elsewhere(t)) \in Nat
  BY <1>2, <1>3, FS_Subset, FS_CardinalityType
<1> QED
  BY <1>1, <1>4, ClientConstants DEF C!Room

(* A step of one tab leaves the others as they are.                          *)
LEMMA TabStep ==
    ASSUME ClientInv, NEW t \in ClientTabs, OnlyTab(t), BrowserTypes', TabNow(t)'
    PROVE  ClientInv'
<1>1. TabDomains'
  BY DEF ClientInv, TabDomains, OnlyTab
<1>2. ASSUME NEW s \in ClientTabs PROVE TabNow(s)'
  <2>1. CASE s = t
    BY <2>1
  <2>2. CASE s # t
    <3>1. /\ client_path'[s] = client_path[s] /\ client_token'[s] = client_token[s]
          /\ client_user'[s] = client_user[s] /\ client_isLoading'[s] = client_isLoading[s]
          /\ client_submitting'[s] = client_submitting[s] /\ client_pending'[s] = client_pending[s]
          /\ client_late'[s] = client_late[s]
      BY <2>2 DEF ClientInv, TabDomains, OnlyTab
    <3>2. TabNow(s)
      BY DEF ClientInv
    <3> QED
      BY <3>1, <3>2 DEF TabNow
  <2> QED
    BY <2>1, <2>2
<1> QED
  BY <1>1, <1>2 DEF ClientInv

(* A call is sent.                                                          *)
LEMMA CallSent ==
    ASSUME NEW q \in Seq(ClientCall), NEW c \in ClientCall
    PROVE  /\ Append(q, c) \in Seq(ClientCall) /\ Len(Append(q, c)) = Len(q) + 1
           /\ Asking(Append(q, c)) <=> Asking(q) \/ c.kind = "me"
           /\ FormWaits(Append(q, c)) <=> FormWaits(q) \/ c.mounted
           /\ OneForm(q) /\ (c.mounted => ~FormWaits(q)) => OneForm(Append(q, c))
<1>1. PICK r : r = Append(q, c)
  OBVIOUS
<1>2. /\ r \in Seq(ClientCall) /\ Len(r) = Len(q) + 1
      /\ DOMAIN r = DOMAIN q \cup {Len(q) + 1}
      /\ \A i \in DOMAIN q : r[i] = q[i]
      /\ r[Len(q) + 1] = c
  BY <1>1
<1>3. Asking(r) <=> Asking(q) \/ c.kind = "me"
  BY <1>2 DEF Asking
<1>4. FormWaits(r) <=> FormWaits(q) \/ c.mounted
  BY <1>2 DEF FormWaits
<1>5. OneForm(q) /\ (c.mounted => ~FormWaits(q)) => OneForm(r)
  BY <1>2 DEF OneForm, FormWaits
<1> QED
  BY <1>1, <1>2, <1>3, <1>4, <1>5

(* A call becomes another one.                                              *)
LEMMA CallReplaced ==
    ASSUME NEW q \in Seq(ClientCall), NEW i \in DOMAIN q, NEW c \in ClientCall, c.mounted = q[i].mounted
    PROVE  /\ [q EXCEPT ![i] = c] \in Seq(ClientCall) /\ Len([q EXCEPT ![i] = c]) = Len(q)
           /\ c.kind = "me" => Asking([q EXCEPT ![i] = c])
           /\ q[i].kind # "me" /\ Asking(q) => Asking([q EXCEPT ![i] = c])
           /\ c.kind # "me" /\ ~Asking(q) => ~Asking([q EXCEPT ![i] = c])
           /\ FormWaits([q EXCEPT ![i] = c]) <=> FormWaits(q)
           /\ OneForm(q) => OneForm([q EXCEPT ![i] = c])
<1>1. PICK r : r = [q EXCEPT ![i] = c]
  OBVIOUS
<1>2. /\ r \in Seq(ClientCall) /\ Len(r) = Len(q) /\ DOMAIN r = DOMAIN q
      /\ \A j \in DOMAIN q : r[j] = IF j = i THEN c ELSE q[j]
  BY <1>1
<1>3. c.kind = "me" => Asking(r)
  BY <1>2 DEF Asking
<1>4. q[i].kind # "me" /\ Asking(q) => Asking(r)
  BY <1>2 DEF Asking
<1>5. c.kind # "me" /\ ~Asking(q) => ~Asking(r)
  BY <1>2 DEF Asking
<1>6. \A j \in DOMAIN q : r[j].mounted = q[j].mounted
  BY <1>2
<1>7. (FormWaits(r) <=> FormWaits(q)) /\ (OneForm(q) => OneForm(r))
  BY <1>2, <1>6 DEF FormWaits, OneForm
<1> QED
  BY <1>1, <1>2, <1>3, <1>4, <1>5, <1>7

(* A call ends; the form that waited for it waits for no other.             *)
LEMMA CallOver ==
    ASSUME NEW q \in Seq(ClientCall), NEW i \in DOMAIN q
    PROVE  /\ C!RemoveAt(q, i) \in Seq(ClientCall) /\ Len(C!RemoveAt(q, i)) = Len(q) - 1
           /\ Asking(C!RemoveAt(q, i)) => Asking(q)
           /\ q[i].kind # "me" /\ Asking(q) => Asking(C!RemoveAt(q, i))
           /\ OneForm(q) => OneForm(C!RemoveAt(q, i))
           /\ OneForm(q) => (FormWaits(C!RemoveAt(q, i)) <=> FormWaits(q) /\ ~q[i].mounted)
<1>1. C!RemoveAt(q, i) = RemoveAt(q, i)
  BY DEF C!RemoveAt, RemoveAt
<1>2. PICK r : r = C!RemoveAt(q, i)
  OBVIOUS
<1>3. /\ r \in Seq(ClientCall) /\ Len(r) = Len(q) - 1
      /\ \A k \in 1..(Len(q) - 1) : r[k] = IF k < i THEN q[k] ELSE q[k + 1]
  BY <1>1, <1>2, RemoveAtEntries
<1>4. PICK m : m = Len(q)
  OBVIOUS
<1>5. m \in Nat /\ DOMAIN q = 1..m /\ DOMAIN r = 1..(m - 1) /\ i \in 1..m
  BY <1>3, <1>4
<1>6. ASSUME NEW k \in DOMAIN r
      PROVE  \E j \in DOMAIN q : j # i /\ j = (IF k < i THEN k ELSE k + 1) /\ r[k] = q[j]
  BY <1>3, <1>4, <1>5
<1>7. ASSUME NEW j \in DOMAIN q, j # i
      PROVE  \E k \in DOMAIN r : r[k] = q[j]
  <2>1. CASE j < i
    BY <1>3, <1>4, <1>5, <2>1
  <2>2. CASE i < j
    <3>1. j - 1 \in 1..(m - 1) /\ ~(j - 1 < i) /\ (j - 1) + 1 = j
      BY <1>5, <2>2
    <3>2. r[j - 1] = q[j]
      BY <1>3, <1>4, <3>1
    <3> QED
      BY <1>5, <3>1, <3>2
  <2> QED
    BY <1>5, <1>7, <2>1, <2>2
<1>8. Asking(r) => Asking(q)
  BY <1>6 DEF Asking
<1>9. q[i].kind # "me" /\ Asking(q) => Asking(r)
  BY <1>7 DEF Asking
<1>10. OneForm(q) => OneForm(r)
  <2>1. SUFFICES ASSUME OneForm(q), NEW k \in DOMAIN r, NEW n \in DOMAIN r, r[k].mounted, r[n].mounted
                 PROVE  k = n
    BY DEF OneForm
  <2>2. PICK j \in DOMAIN q : j = (IF k < i THEN k ELSE k + 1) /\ r[k] = q[j]
    BY <1>6
  <2>3. PICK h \in DOMAIN q : h = (IF n < i THEN n ELSE n + 1) /\ r[n] = q[h]
    BY <1>6
  <2>4. j = h
    BY <2>1, <2>2, <2>3 DEF OneForm
  <2> QED
    BY <1>5, <2>2, <2>3, <2>4
<1>11. OneForm(q) => (FormWaits(r) <=> FormWaits(q) /\ ~q[i].mounted)
  BY <1>6, <1>7 DEF OneForm, FormWaits
<1> QED
  BY <1>2, <1>3, <1>8, <1>9, <1>10, <1>11

(* A page is left: no form waits.                                           *)
LEMMA FormLeft ==
    ASSUME NEW q \in Seq(ClientCall), NEW r, r = [i \in DOMAIN q |-> [q[i] EXCEPT !.mounted = FALSE]]
    PROVE  /\ r \in Seq(ClientCall) /\ Len(r) = Len(q)
           /\ Asking(r) <=> Asking(q)
           /\ ~FormWaits(r) /\ OneForm(r)
<1>1. ASSUME NEW c \in ClientCall
      PROVE  /\ [c EXCEPT !.mounted = FALSE] \in ClientCall /\ [c EXCEPT !.mounted = FALSE].kind = c.kind
             /\ ~[c EXCEPT !.mounted = FALSE].mounted
  BY DEF ClientCall
<1>2. \A i \in DOMAIN q : q[i] \in ClientCall
  OBVIOUS
<1>3. DOMAIN r = DOMAIN q /\ \A i \in DOMAIN q : r[i] \in ClientCall /\ r[i].kind = q[i].kind /\ ~r[i].mounted
  BY <1>1, <1>2
<1>4. r \in Seq(ClientCall) /\ Len(r) = Len(q)
  <2>1. DOMAIN r = 1..Len(q) /\ Len(q) \in Nat
    BY <1>3
  <2>2. r \in [1..Len(q) -> ClientCall]
    BY <1>3, <2>1
  <2> QED
    BY <2>1, <2>2
<1> QED
  BY <1>3, <1>4 DEF Asking, FormWaits, OneForm

(* The calls that are sent.                                                 *)
LEMMA CallIs ==
    ASSUME NEW kind \in C!Kinds, NEW tok \in C!Tokens \cup {Nothing}, NEW who \in Users \cup {Nobody},
           NEW form \in BOOLEAN,
           kind = "me" => tok \in C!Tokens, kind \in {"login", "register"} => who \in Users,
           kind \in {"api", "delete_account"} => ~form
    PROVE  /\ C!Call(kind, tok, who, form) \in ClientCall
           /\ C!Call(kind, tok, who, form).kind = kind
           /\ C!Call(kind, tok, who, form).mounted = form
<1>1. PICK b \in BOOLEAN : b = C!Valid(tok)
  BY DEF C!Valid
<1> QED
  BY <1>1 DEF C!Call, ClientCall

(* What holds of each tab.                                                  *)
LEMMA TabFacts ==
    ASSUME ClientInv, NEW t \in ClientTabs
    PROVE  /\ TabDomains /\ BrowserTypes
           /\ TabTypes(client_path[t], client_token[t], client_user[t], client_isLoading[t],
                       client_submitting[t], client_pending[t], client_late[t])
           /\ OwnsToken(client_token[t], client_user[t], client_pending[t], client_late[t])
           /\ SpinnersOfCalls(client_isLoading[t], client_submitting[t], client_pending[t])
  BY DEF ClientInv, TabNow, TabInv

(* A document is loaded: it has no user yet, and asks for one if there is a *)
(* token.                                                                   *)
LEMMA DocumentIs ==
    ASSUME ClientInv, NEW t \in ClientTabs, NEW p \in C!Paths, NEW item \in C!Tokens \cup {Nothing},
           item # Nothing => 1 <= ClientCalls, C!Document(t, p, item)
    PROVE  OnlyTab(t) /\ TabNow(t)'
<1>1. TabDomains
  BY TabFacts
<1>2. PICK b \in BOOLEAN : b = (item # Nothing)
  OBVIOUS
<1>3. /\ OnlyTab(t)
      /\ client_token'[t] = item /\ client_user'[t] = Nobody
      /\ client_isLoading'[t] = b /\ client_submitting'[t] = FALSE /\ client_late'[t] = FALSE
      /\ client_path'[t] = C!Routed(p, Nobody, b)
      /\ {client_isLoading'[t], client_submitting'[t], client_late'[t]} \subseteq BOOLEAN
  BY <1>1, <1>2 DEF TabDomains, C!Document, OnlyTab
<1>4. client_pending'[t] = IF item = Nothing THEN <<>> ELSE <<C!Call("me", item, Nobody, FALSE)>>
  BY <1>1 DEF TabDomains, C!Document
<1>5. C!Routed(p, Nobody, b) \in C!Paths
  BY DEF C!Routed, C!Paths
<1>6. CASE item = Nothing
  <2>1. /\ client_pending'[t] = <<>>
        /\ client_pending'[t] \in Seq(ClientCall) /\ Len(client_pending'[t]) = 0
    BY <1>4, <1>6
  <2>2. ~Asking(client_pending'[t]) /\ ~FormWaits(client_pending'[t]) /\ OneForm(client_pending'[t])
    BY <2>1 DEF Asking, FormWaits, OneForm
  <2>3. TabTypes(client_path'[t], client_token'[t], client_user'[t], client_isLoading'[t],
                 client_submitting'[t], client_pending'[t], client_late'[t])
    BY <1>3, <1>5, <2>1, ClientConstants DEF TabTypes
  <2>4. OwnsToken(client_token'[t], client_user'[t], client_pending'[t], client_late'[t])
    BY <1>3, <1>6 DEF OwnsToken
  <2>5. SpinnersOfCalls(client_isLoading'[t], client_submitting'[t], client_pending'[t])
    BY <1>2, <1>3, <1>6, <2>2 DEF SpinnersOfCalls
  <2>6. TabNow(t)'
    BY <2>3, <2>4, <2>5 DEF TabNow, TabInv
  <2> QED
    BY <1>3, <2>6
<1>7. CASE item # Nothing
  <2>1. PICK c \in ClientCall : c = C!Call("me", item, Nobody, FALSE) /\ c.kind = "me" /\ ~c.mounted
    BY <1>7, CallIs DEF C!Kinds
  <2>2. /\ client_pending'[t] \in Seq(ClientCall) /\ Len(client_pending'[t]) = 1
        /\ DOMAIN client_pending'[t] = {1} /\ client_pending'[t][1] = c
    <3>1. client_pending'[t] = <<c>>
      BY <1>4, <1>7, <2>1
    <3> QED
      BY <3>1
  <2>3. Asking(client_pending'[t]) /\ ~FormWaits(client_pending'[t]) /\ OneForm(client_pending'[t])
    BY <2>1, <2>2 DEF Asking, FormWaits, OneForm
  <2>4. TabTypes(client_path'[t], client_token'[t], client_user'[t], client_isLoading'[t],
                 client_submitting'[t], client_pending'[t], client_late'[t])
    BY <1>3, <1>5, <1>7, <2>2, ClientConstants DEF TabTypes
  <2>5. OwnsToken(client_token'[t], client_user'[t], client_pending'[t], client_late'[t])
    BY <2>3 DEF OwnsToken
  <2>6. SpinnersOfCalls(client_isLoading'[t], client_submitting'[t], client_pending'[t])
    BY <1>3, <2>3 DEF SpinnersOfCalls
  <2>7. TabNow(t)'
    BY <2>4, <2>5, <2>6 DEF TabNow, TabInv
  <2> QED
    BY <1>3, <2>7
<1> QED
  BY <1>3, <1>6, <1>7

(* A call ends, and the form that waits for it, if there is one.            *)
LEMMA EndIs ==
    ASSUME ClientInv, NEW t \in ClientTabs, NEW i \in DOMAIN client_pending[t],
           C!Done(t, i), C!FormEnds(t, client_pending[t][i])
    PROVE  /\ client_pending[t][i] \in ClientCall
           /\ client_pending' = [client_pending EXCEPT ![t] = client_pending'[t]]
           /\ client_submitting' = [client_submitting EXCEPT ![t] = client_submitting'[t]]
           /\ client_pending'[t] \in Seq(ClientCall) /\ Len(client_pending'[t]) <= ClientCalls
           /\ client_submitting'[t] \in BOOLEAN
           /\ client_submitting'[t] <=> FormWaits(client_pending'[t])
           /\ OneForm(client_pending'[t])
           /\ client_pending[t][i].kind # "me" => (Asking(client_pending'[t]) <=> Asking(client_pending[t]))
<1>1. /\ TabDomains
      /\ client_pending[t] \in Seq(ClientCall) /\ Len(client_pending[t]) <= ClientCalls
      /\ client_submitting[t] \in BOOLEAN
      /\ client_submitting[t] <=> FormWaits(client_pending[t])
      /\ OneForm(client_pending[t])
  BY TabFacts DEF TabTypes, SpinnersOfCalls
<1>2. client_pending[t][i] \in ClientCall
  BY <1>1
<1>3. /\ client_pending'[t] = C!RemoveAt(client_pending[t], i)
      /\ client_pending' = [client_pending EXCEPT ![t] = client_pending'[t]]
  BY <1>1 DEF TabDomains, C!Done
<1>4. /\ client_submitting' = [client_submitting EXCEPT ![t] = client_submitting'[t]]
      /\ client_submitting'[t] = IF client_pending[t][i].mounted THEN FALSE ELSE client_submitting[t]
  BY <1>1 DEF TabDomains, C!FormEnds
<1>5. /\ C!RemoveAt(client_pending[t], i) \in Seq(ClientCall)
      /\ Len(C!RemoveAt(client_pending[t], i)) <= ClientCalls
      /\ OneForm(C!RemoveAt(client_pending[t], i))
      /\ FormWaits(C!RemoveAt(client_pending[t], i)) <=> FormWaits(client_pending[t]) /\ ~client_pending[t][i].mounted
      /\ client_pending[t][i].kind # "me" =>
            (Asking(C!RemoveAt(client_pending[t], i)) <=> Asking(client_pending[t]))
  BY <1>1, ClientConstants, CallOver
<1> QED
  BY <1>1, <1>2, <1>3, <1>4, <1>5

(* The browser loads the page again: the document starts anew.               *)
LEMMA ReloadStep ==
    ASSUME ClientInv, NEW t \in ClientTabs, NEW p \in C!Paths, C!Reload(t, p)
    PROVE  ClientInv'
<1>1. client_localStorage \in C!Tokens \cup {Nothing} /\ C!Document(t, p, client_localStorage)
  BY TabFacts DEF BrowserTypes, C!Reload
<1>2. client_localStorage # Nothing => 1 <= ClientCalls
  BY RoomIs DEF C!Reload
<1>3. OnlyTab(t) /\ TabNow(t)'
  BY <1>1, <1>2, DocumentIs
<1>4. BrowserTypes'
  BY TabFacts DEF BrowserTypes, C!Reload, C!server
<1> QED
  BY <1>3, <1>4, TabStep

(* After a logout, and after a 401.                                         *)
LEMMA LoggedOutStep ==
    ASSUME ClientInv, NEW t \in ClientTabs, NEW p \in C!Paths,
           C!Document(t, p, Nothing), client_localStorage' = Nothing, UNCHANGED C!server
    PROVE  ClientInv'
<1>1. OnlyTab(t) /\ TabNow(t)'
  BY DocumentIs
<1>2. BrowserTypes'
  BY TabFacts DEF BrowserTypes, C!server
<1> QED
  BY <1>1, <1>2, TabStep

(* The router shows another page in the same document.                       *)
LEMMA NavigateStep ==
    ASSUME ClientInv, NEW t \in ClientTabs, NEW p \in C!Paths, C!Navigate(t, p)
    PROVE  ClientInv'
<1> DEFINE q == client_pending[t]
<1>1. /\ TabDomains
      /\ TabTypes(client_path[t], client_token[t], client_user[t], client_isLoading[t],
                  client_submitting[t], client_pending[t], client_late[t])
  BY TabFacts
<1>2. C!Routed(p, client_user[t], client_isLoading[t]) \in C!Paths
  BY DEF C!Routed, C!Paths
<1>3. client_pending'[t] = [i \in DOMAIN q |-> [q[i] EXCEPT !.mounted = FALSE]]
  BY <1>1 DEF TabDomains, C!Navigate
<1>4. /\ OnlyTab(t)
      /\ client_path'[t] \in C!Paths /\ client_submitting'[t] = FALSE
      /\ client_token'[t] = client_token[t] /\ client_user'[t] = client_user[t]
      /\ client_isLoading'[t] = client_isLoading[t] /\ client_late'[t] = client_late[t]
  BY <1>1, <1>2 DEF TabDomains, C!Navigate, OnlyTab
<1>5. /\ client_pending'[t] \in Seq(ClientCall) /\ Len(client_pending'[t]) = Len(q)
      /\ Asking(client_pending'[t]) <=> Asking(q)
      /\ ~FormWaits(client_pending'[t]) /\ OneForm(client_pending'[t])
  BY <1>1, <1>3, FormLeft DEF TabTypes
<1>6. TabTypes(client_path'[t], client_token'[t], client_user'[t], client_isLoading'[t],
               client_submitting'[t], client_pending'[t], client_late'[t])
  BY <1>1, <1>4, <1>5 DEF TabTypes
<1>7. OwnsToken(client_token'[t], client_user'[t], client_pending'[t], client_late'[t])
  BY <1>4, <1>5, TabFacts DEF OwnsToken
<1>8. SpinnersOfCalls(client_isLoading'[t], client_submitting'[t], client_pending'[t])
  BY <1>4, <1>5, TabFacts DEF SpinnersOfCalls
<1>9. BrowserTypes'
  BY TabFacts DEF BrowserTypes, C!Navigate, C!server
<1> QED
  BY <1>4, <1>6, <1>7, <1>8, <1>9, TabStep DEF TabNow, TabInv

(* A call is sent that no form waits for.                                   *)
LEMMA SendStep ==
    ASSUME ClientInv, NEW t \in ClientTabs, NEW c \in ClientCall, ~c.mounted, C!Send(t, c),
           UNCHANGED <<client_accounts, client_refused, client_issued, client_localStorage, client_path,
                       client_token, client_user, client_isLoading, client_submitting, client_late>>
    PROVE  ClientInv'
<1>1. /\ TabDomains
      /\ TabTypes(client_path[t], client_token[t], client_user[t], client_isLoading[t],
                  client_submitting[t], client_pending[t], client_late[t])
  BY TabFacts
<1>2. client_pending'[t] = Append(client_pending[t], c) /\ Len(client_pending[t]) + 1 <= ClientCalls
  BY <1>1, RoomIs DEF TabDomains, TabTypes, C!Send
<1>3. OnlyTab(t)
  BY <1>1 DEF TabDomains, C!Send, OnlyTab
<1>4. /\ client_pending'[t] \in Seq(ClientCall) /\ Len(client_pending'[t]) <= ClientCalls
      /\ Asking(client_pending[t]) => Asking(client_pending'[t])
      /\ FormWaits(client_pending'[t]) <=> FormWaits(client_pending[t])
      /\ OneForm(client_pending[t]) => OneForm(client_pending'[t])
  BY <1>1, <1>2, CallSent DEF TabTypes
<1>5. TabTypes(client_path'[t], client_token'[t], client_user'[t], client_isLoading'[t],
               client_submitting'[t], client_pending'[t], client_late'[t])
  BY <1>1, <1>4 DEF TabTypes
<1>6. OwnsToken(client_token'[t], client_user'[t], client_pending'[t], client_late'[t])
  BY <1>4, TabFacts DEF OwnsToken
<1>7. SpinnersOfCalls(client_isLoading'[t], client_submitting'[t], client_pending'[t])
  BY <1>4, TabFacts DEF SpinnersOfCalls
<1>8. BrowserTypes'
  BY TabFacts DEF BrowserTypes
<1> QED
  BY <1>3, <1>5, <1>6, <1>7, <1>8, TabStep DEF TabNow, TabInv

(* Login and registration: no other form waits, for the button is enabled.  *)
LEMMA FormSubmitStep ==
    ASSUME ClientInv, NEW t \in ClientTabs, NEW kind \in {"login", "register"}, NEW who \in Users,
           C!Submit(t, kind, who)
    PROVE  ClientInv'
<1>1. /\ TabDomains
      /\ TabTypes(client_path[t], client_token[t], client_user[t], client_isLoading[t],
                  client_submitting[t], client_pending[t], client_late[t])
  BY TabFacts
<1>2. ~client_submitting[t]
  BY DEF C!Submit, C!LoginForm, C!RegisterForm
<1>3. PICK c \in ClientCall : c = C!Call(kind, Nothing, who, TRUE) /\ c.kind = kind /\ c.mounted
  BY CallIs, Zenon DEF C!Kinds
<1>4. client_pending'[t] = Append(client_pending[t], c) /\ Len(client_pending[t]) + 1 <= ClientCalls
  <2>1. C!Send(t, c)
    BY <1>3 DEF C!Submit
  <2> QED
    BY <1>1, <2>1, RoomIs DEF TabDomains, TabTypes, C!Send
<1>5. OnlyTab(t) /\ client_submitting'[t] = TRUE
  BY <1>1 DEF TabDomains, C!Submit, C!Send, OnlyTab
<1>6. ~FormWaits(client_pending[t]) /\ OneForm(client_pending[t])
  BY <1>2, TabFacts DEF SpinnersOfCalls
<1>7. /\ client_pending'[t] \in Seq(ClientCall) /\ Len(client_pending'[t]) <= ClientCalls
      /\ Asking(client_pending[t]) => Asking(client_pending'[t])
      /\ FormWaits(client_pending'[t]) /\ OneForm(client_pending'[t])
  BY <1>1, <1>3, <1>4, <1>6, CallSent DEF TabTypes
<1>8. TabTypes(client_path'[t], client_token'[t], client_user'[t], client_isLoading'[t],
               client_submitting'[t], client_pending'[t], client_late'[t])
  BY <1>1, <1>5, <1>7 DEF TabTypes, C!Submit
<1>9. OwnsToken(client_token'[t], client_user'[t], client_pending'[t], client_late'[t])
  BY <1>7, TabFacts DEF OwnsToken, C!Submit
<1>10. SpinnersOfCalls(client_isLoading'[t], client_submitting'[t], client_pending'[t])
  BY <1>5, <1>7, TabFacts DEF SpinnersOfCalls, C!Submit
<1>11. BrowserTypes'
  BY TabFacts DEF BrowserTypes, C!Submit, C!server
<1> QED
  BY <1>5, <1>8, <1>9, <1>10, <1>11, TabStep DEF TabNow, TabInv

(* A call ends that is not for the user, and the session stays as it is.    *)
LEMMA QuietEndStep ==
    ASSUME ClientInv, NEW t \in ClientTabs, NEW i \in DOMAIN client_pending[t],
           client_pending[t][i].kind # "me", C!Done(t, i), C!FormEnds(t, client_pending[t][i]),
           BrowserTypes',
           UNCHANGED <<client_path, client_token, client_user, client_isLoading, client_late>>
    PROVE  ClientInv'
<1>1. /\ TabDomains
      /\ TabTypes(client_path[t], client_token[t], client_user[t], client_isLoading[t],
                  client_submitting[t], client_pending[t], client_late[t])
  BY TabFacts
<1>2. /\ client_pending' = [client_pending EXCEPT ![t] = client_pending'[t]]
      /\ client_submitting' = [client_submitting EXCEPT ![t] = client_submitting'[t]]
      /\ client_pending'[t] \in Seq(ClientCall) /\ Len(client_pending'[t]) <= ClientCalls
      /\ client_submitting'[t] \in BOOLEAN
      /\ client_submitting'[t] <=> FormWaits(client_pending'[t])
      /\ OneForm(client_pending'[t])
      /\ Asking(client_pending'[t]) <=> Asking(client_pending[t])
  BY EndIs
<1>3. OnlyTab(t)
  BY <1>1, <1>2 DEF TabDomains, OnlyTab
<1>4. TabTypes(client_path'[t], client_token'[t], client_user'[t], client_isLoading'[t],
               client_submitting'[t], client_pending'[t], client_late'[t])
  BY <1>1, <1>2 DEF TabTypes
<1>5. OwnsToken(client_token'[t], client_user'[t], client_pending'[t], client_late'[t])
  BY <1>2, TabFacts DEF OwnsToken
<1>6. SpinnersOfCalls(client_isLoading'[t], client_submitting'[t], client_pending'[t])
  BY <1>2, TabFacts DEF SpinnersOfCalls
<1> QED
  BY <1>3, <1>4, <1>5, <1>6, TabStep DEF TabNow, TabInv

(* login: the token is set, and the user asked for.                         *)
LEMMA LoginAnsweredStep ==
    ASSUME ClientInv, NEW t \in ClientTabs, NEW i \in DOMAIN client_pending[t], C!LoginAnswered(t, i)
    PROVE  ClientInv'
<1> DEFINE q == client_pending[t]
           new == [owner |-> q[i].who, n |-> client_issued + 1]
           asked == [C!Call("me", new, Nobody, TRUE) EXCEPT !.mounted = q[i].mounted]
<1>1. /\ TabDomains /\ BrowserTypes
      /\ TabTypes(client_path[t], client_token[t], client_user[t], client_isLoading[t],
                  client_submitting[t], client_pending[t], client_late[t])
      /\ SpinnersOfCalls(client_isLoading[t], client_submitting[t], client_pending[t])
  BY TabFacts
<1>2. /\ q[i].who \in client_accounts /\ client_issued < ClientTokens
      /\ client_issued' = client_issued + 1
      /\ client_localStorage' = new
      /\ client_token' = [client_token EXCEPT ![t] = new]
      /\ client_pending' = [client_pending EXCEPT ![t][i] = asked]
      /\ UNCHANGED <<client_accounts, client_refused, client_path, client_user, client_isLoading,
                     client_submitting, client_late>>
  BY DEF C!LoginAnswered
<1>3. new \in C!Tokens
  BY <1>1, <1>2, ClientConstants DEF BrowserTypes, C!Tokens
<1>4. q[i] \in ClientCall /\ q[i].mounted \in BOOLEAN
  BY <1>1 DEF TabTypes, ClientCall
<1>5. asked \in ClientCall /\ asked.kind = "me" /\ asked.mounted = q[i].mounted
  <2>0. /\ C!Call("me", new, Nobody, TRUE) \in ClientCall
        /\ C!Call("me", new, Nobody, TRUE).kind = "me"
    <3>1. PICK tok : tok = new /\ tok \in C!Tokens
      BY <1>3
    <3>2. C!Call("me", tok, Nobody, TRUE) \in ClientCall /\ C!Call("me", tok, Nobody, TRUE).kind = "me"
      <4>1. "me" \in C!Kinds
        BY DEF C!Kinds
      <4> HIDE DEF new, asked
      <4> QED
        BY <3>1, <4>1, CallIs
    <3> QED
      BY <3>1, <3>2
  <2>1. PICK c \in ClientCall : c = C!Call("me", new, Nobody, TRUE) /\ c.kind = "me"
    BY <2>0
  <2>2. [c EXCEPT !.mounted = q[i].mounted] \in ClientCall
    BY <1>4, <2>1 DEF ClientCall
  <2> QED
    BY <1>4, <2>1, <2>2 DEF ClientCall
<1> HIDE DEF asked, new
<1>6. client_pending'[t] = [q EXCEPT ![i] = asked]
  BY <1>1, <1>2 DEF TabDomains
<1>7. OnlyTab(t) /\ client_token'[t] = new
  BY <1>1, <1>2 DEF TabDomains, OnlyTab
<1>8. /\ client_pending'[t] \in Seq(ClientCall) /\ Len(client_pending'[t]) <= ClientCalls
      /\ Asking(client_pending'[t])
      /\ FormWaits(client_pending'[t]) <=> FormWaits(q)
      /\ OneForm(q) => OneForm(client_pending'[t])
  BY <1>1, <1>5, <1>6, CallReplaced DEF TabTypes
<1>9. TabTypes(client_path'[t], client_token'[t], client_user'[t], client_isLoading'[t],
               client_submitting'[t], client_pending'[t], client_late'[t])
  BY <1>1, <1>2, <1>3, <1>7, <1>8 DEF TabTypes
<1>10. OwnsToken(client_token'[t], client_user'[t], client_pending'[t], client_late'[t])
  BY <1>8 DEF OwnsToken
<1>11. SpinnersOfCalls(client_isLoading'[t], client_submitting'[t], client_pending'[t])
  BY <1>1, <1>2, <1>8 DEF SpinnersOfCalls
<1>12. BrowserTypes'
  BY <1>1, <1>2, <1>3, ClientConstants DEF BrowserTypes
<1> QED
  BY <1>7, <1>9, <1>10, <1>11, <1>12, TabStep DEF TabNow, TabInv

(* register: the login of the new account is next.                          *)
LEMMA RegisterAnsweredStep ==
    ASSUME ClientInv, NEW t \in ClientTabs, NEW i \in DOMAIN client_pending[t], C!RegisterAnswered(t, i)
    PROVE  ClientInv'
<1> DEFINE q == client_pending[t]
           next == [q[i] EXCEPT !.kind = "login"]
<1>1. /\ TabDomains /\ BrowserTypes
      /\ TabTypes(client_path[t], client_token[t], client_user[t], client_isLoading[t],
                  client_submitting[t], client_pending[t], client_late[t])
      /\ OwnsToken(client_token[t], client_user[t], client_pending[t], client_late[t])
      /\ SpinnersOfCalls(client_isLoading[t], client_submitting[t], client_pending[t])
  BY TabFacts
<1>2. q[i].kind = "register" /\ q[i].who \notin client_accounts
  BY DEF C!RegisterAnswered
<1>3. q[i] \in ClientCall
  BY <1>1 DEF TabTypes
<1>4. next \in ClientCall /\ next.kind = "login" /\ next.mounted = q[i].mounted
  BY <1>2, <1>3 DEF ClientCall, C!Kinds
<1>5. client_pending'[t] = [q EXCEPT ![i] = next]
  BY <1>1 DEF TabDomains, C!RegisterAnswered
<1>6. OnlyTab(t)
  BY <1>1 DEF TabDomains, OnlyTab, C!RegisterAnswered
<1> HIDE DEF next
<1>7. /\ client_pending'[t] \in Seq(ClientCall) /\ Len(client_pending'[t]) <= ClientCalls
      /\ Asking(client_pending'[t]) <=> Asking(q)
      /\ FormWaits(client_pending'[t]) <=> FormWaits(q)
      /\ OneForm(q) => OneForm(client_pending'[t])
  <2>1. PICK c \in ClientCall : c = next
    BY <1>4
  <2>2. q \in Seq(ClientCall) /\ i \in DOMAIN q /\ c.mounted = q[i].mounted
    BY <1>1, <1>4, <2>1 DEF TabTypes
  <2>3. q[i].kind # "me" /\ c.kind # "me"
    BY <1>2, <1>4, <2>1
  <2>4. client_pending'[t] = [q EXCEPT ![i] = c]
    BY <1>5, <2>1
  <2> HIDE DEF q
  <2>5. /\ [q EXCEPT ![i] = c] \in Seq(ClientCall) /\ Len([q EXCEPT ![i] = c]) = Len(q)
        /\ Asking([q EXCEPT ![i] = c]) <=> Asking(q)
        /\ FormWaits([q EXCEPT ![i] = c]) <=> FormWaits(q)
        /\ OneForm(q) => OneForm([q EXCEPT ![i] = c])
    BY <2>2, <2>3, CallReplaced
  <2>6. Len(q) <= ClientCalls
    BY <1>1 DEF TabTypes, q
  <2> QED
    BY <2>4, <2>5, <2>6
<1>8. TabTypes(client_path'[t], client_token'[t], client_user'[t], client_isLoading'[t],
               client_submitting'[t], client_pending'[t], client_late'[t])
  BY <1>1, <1>7 DEF TabTypes, C!RegisterAnswered
<1>9. OwnsToken(client_token'[t], client_user'[t], client_pending'[t], client_late'[t])
  BY <1>1, <1>7 DEF OwnsToken, C!RegisterAnswered
<1>10. SpinnersOfCalls(client_isLoading'[t], client_submitting'[t], client_pending'[t])
  BY <1>1, <1>7 DEF SpinnersOfCalls, C!RegisterAnswered
<1>11. BrowserTypes'
  <2>1. q[i].who \in Users
    BY <1>2, <1>3 DEF ClientCall
  <2> QED
    BY <1>1, <2>1 DEF BrowserTypes, C!RegisterAnswered
<1> QED
  BY <1>6, <1>8, <1>9, <1>10, <1>11, TabStep DEF TabNow, TabInv

(* The answer to a request for the user.                                    *)
LEMMA UserAnsweredStep ==
    ASSUME ClientInv, NEW t \in ClientTabs, NEW i \in DOMAIN client_pending[t], C!UserAnswered(t, i)
    PROVE  ClientInv'
<1> DEFINE q == client_pending[t]
<1>1. /\ TabDomains
      /\ TabTypes(client_path[t], client_token[t], client_user[t], client_isLoading[t],
                  client_submitting[t], client_pending[t], client_late[t])
  BY TabFacts
<1>2. /\ q[i].kind = "me" /\ C!Done(t, i) /\ C!FormEnds(t, q[i])
      /\ client_user' = [client_user EXCEPT ![t] = q[i].token.owner]
      /\ client_isLoading' = [client_isLoading EXCEPT ![t] = FALSE]
      /\ client_path' = [client_path EXCEPT ![t] = IF q[i].form THEN "protected" ELSE @]
      /\ client_late' = [client_late EXCEPT ![t] = q[i].token # client_token[t]]
      /\ UNCHANGED <<C!server, client_localStorage, client_token>>
  BY DEF C!UserAnswered
<1>3. /\ q[i] \in ClientCall
      /\ client_pending' = [client_pending EXCEPT ![t] = client_pending'[t]]
      /\ client_submitting' = [client_submitting EXCEPT ![t] = client_submitting'[t]]
      /\ client_pending'[t] \in Seq(ClientCall) /\ Len(client_pending'[t]) <= ClientCalls
      /\ client_submitting'[t] \in BOOLEAN
      /\ client_submitting'[t] <=> FormWaits(client_pending'[t])
      /\ OneForm(client_pending'[t])
  BY <1>2, EndIs
<1>4. q[i].token \in C!Tokens /\ q[i].token.owner \in Users /\ q[i].token # Nothing
  BY <1>2, <1>3, ClientConstants DEF ClientCall, C!Tokens
<1>5. /\ OnlyTab(t)
      /\ client_user'[t] = q[i].token.owner /\ client_isLoading'[t] = FALSE
      /\ client_path'[t] \in C!Paths
      /\ client_token'[t] = client_token[t]
      /\ client_late'[t] \in BOOLEAN /\ (client_late'[t] <=> q[i].token # client_token[t])
  BY <1>1, <1>2, <1>3 DEF TabDomains, OnlyTab, TabTypes, C!Paths
<1>6. TabTypes(client_path'[t], client_token'[t], client_user'[t], client_isLoading'[t],
               client_submitting'[t], client_pending'[t], client_late'[t])
  BY <1>1, <1>3, <1>4, <1>5 DEF TabTypes
<1>7. OwnsToken(client_token'[t], client_user'[t], client_pending'[t], client_late'[t])
  BY <1>4, <1>5 DEF OwnsToken
<1>8. SpinnersOfCalls(client_isLoading'[t], client_submitting'[t], client_pending'[t])
  BY <1>3, <1>5 DEF SpinnersOfCalls
<1>9. BrowserTypes'
  BY <1>2, TabFacts DEF BrowserTypes, C!server
<1> QED
  BY <1>5, <1>6, <1>7, <1>8, <1>9, TabStep DEF TabNow, TabInv

(* Nobody is logged in any more, in the same document.                      *)
LEMMA DroppedStep ==
    ASSUME ClientInv, NEW t \in ClientTabs, NEW i \in DOMAIN client_pending[t],
           C!Done(t, i), C!FormEnds(t, client_pending[t][i]), C!DropToken(t), BrowserTypes',
           client_user' = [client_user EXCEPT ![t] = Nobody],
           client_late' = [client_late EXCEPT ![t] = FALSE],
           NEW p \in C!Paths, client_path' = [client_path EXCEPT ![t] = p],
           \/ client_isLoading' = [client_isLoading EXCEPT ![t] = FALSE]
           \/ client_isLoading' = client_isLoading /\ client_pending[t][i].kind # "me"
    PROVE  ClientInv'
<1>1. /\ TabDomains
      /\ TabTypes(client_path[t], client_token[t], client_user[t], client_isLoading[t],
                  client_submitting[t], client_pending[t], client_late[t])
  BY TabFacts
<1>2. /\ client_pending' = [client_pending EXCEPT ![t] = client_pending'[t]]
      /\ client_submitting' = [client_submitting EXCEPT ![t] = client_submitting'[t]]
      /\ client_pending'[t] \in Seq(ClientCall) /\ Len(client_pending'[t]) <= ClientCalls
      /\ client_submitting'[t] \in BOOLEAN
      /\ client_submitting'[t] <=> FormWaits(client_pending'[t])
      /\ OneForm(client_pending'[t])
      /\ client_pending[t][i].kind # "me" => (Asking(client_pending'[t]) <=> Asking(client_pending[t]))
  BY EndIs
<1>3. /\ OnlyTab(t)
      /\ client_user'[t] = Nobody /\ client_path'[t] = p /\ client_late'[t] = FALSE
      /\ client_token'[t] = Nothing
      /\ client_isLoading'[t] \in BOOLEAN
      /\ client_isLoading'[t] => client_isLoading[t] /\ client_pending[t][i].kind # "me"
  BY <1>1, <1>2 DEF TabDomains, OnlyTab, TabTypes, C!DropToken
<1>4. TabTypes(client_path'[t], client_token'[t], client_user'[t], client_isLoading'[t],
               client_submitting'[t], client_pending'[t], client_late'[t])
  BY <1>2, <1>3 DEF TabTypes
<1>5. OwnsToken(client_token'[t], client_user'[t], client_pending'[t], client_late'[t])
  BY <1>3 DEF OwnsToken
<1>6. SpinnersOfCalls(client_isLoading'[t], client_submitting'[t], client_pending'[t])
  BY <1>2, <1>3, TabFacts DEF SpinnersOfCalls
<1> QED
  BY <1>3, <1>4, <1>5, <1>6, TabStep DEF TabNow, TabInv

(* getCurrentUser fails: the token is dropped.                               *)
LEMMA UserFailedStep ==
    ASSUME ClientInv, NEW t \in ClientTabs, NEW i \in DOMAIN client_pending[t], C!UserFailed(t, i)
    PROVE  ClientInv'
<1>1. BrowserTypes'
  BY TabFacts DEF BrowserTypes, C!UserFailed, C!DropToken, C!server
<1>2. PICK p : p = IF client_pending[t][i].form THEN "login" ELSE C!Routed(client_path[t], Nobody, FALSE)
  OBVIOUS
<1>3. p \in C!Paths
  BY <1>2, TabFacts DEF TabTypes, C!Routed, C!Paths
<1>4. client_path' = [client_path EXCEPT ![t] = p]
  BY <1>2, TabFacts DEF TabDomains, C!UserFailed
<1> QED
  BY <1>1, <1>3, <1>4, DroppedStep DEF C!UserFailed, C!NoLongerLoading

(* The account is deleted: this tab logs out.                                *)
LEMMA AccountDeletedStep ==
    ASSUME ClientInv, NEW t \in ClientTabs, NEW i \in DOMAIN client_pending[t], C!AccountDeleted(t, i)
    PROVE  ClientInv'
<1>1. BrowserTypes'
  BY TabFacts DEF BrowserTypes, C!AccountDeleted, C!DropToken
<1>2. client_pending[t][i].kind = "delete_account" /\ client_pending[t][i] \in ClientCall
  BY TabFacts DEF TabTypes, C!AccountDeleted
<1>3. C!FormEnds(t, client_pending[t][i])
  BY <1>2 DEF ClientCall, C!FormEnds, C!AccountDeleted
<1>4. "public" \in C!Paths
  BY DEF C!Paths
<1> QED
  BY <1>1, <1>2, <1>3, <1>4, DroppedStep DEF C!AccountDeleted

(* The visitor.                                                             *)
LEMMA VisitsStep ==
    ASSUME ClientInv, NEW t \in ClientTabs, C!Visits(t)
    PROVE  ClientInv'
<1>1. ASSUME NEW p \in C!Paths, C!Reload(t, p) \/ C!Navigate(t, p) PROVE ClientInv'
  BY <1>1, ReloadStep, NavigateStep
<1>2. ASSUME NEW kind \in {"login", "register"}, NEW who \in Users, C!Submit(t, kind, who) PROVE ClientInv'
  BY <1>2, FormSubmitStep
<1>3. client_token[t] \in C!Tokens \cup {Nothing} /\ client_user[t] \in Users \cup {Nobody}
  BY TabFacts DEF TabTypes
<1>4. CASE C!ApiCall(t)
  <2>1. PICK c \in ClientCall : c = C!Call("api", client_token[t], Nobody, FALSE) /\ ~c.mounted
    BY <1>3, CallIs, Zenon DEF C!Kinds
  <2> QED
    BY <1>4, <2>1, SendStep DEF C!ApiCall, C!server
<1>5. CASE C!RefreshUser(t)
  <2>1. PICK c \in ClientCall : c = C!Call("me", client_token[t], Nobody, FALSE) /\ ~c.mounted
    BY <1>3, <1>5, CallIs DEF C!RefreshUser, C!Kinds
  <2> QED
    BY <1>5, <2>1, SendStep DEF C!RefreshUser, C!server
<1>6. CASE C!DeleteAccount(t)
  <2>1. PICK c \in ClientCall : c = C!Call("delete_account", client_token[t], client_user[t], FALSE) /\ ~c.mounted
    BY <1>3, CallIs, Zenon DEF C!Kinds
  <2> QED
    BY <1>6, <2>1, SendStep DEF C!DeleteAccount, C!server
<1>7. CASE C!HandleLogout(t)
  BY <1>7, LoggedOutStep DEF C!HandleLogout, C!Paths
<1> QED
  BY <1>1, <1>2, <1>4, <1>5, <1>6, <1>7 DEF C!Visits

(* The answers.                                                             *)
LEMMA CallEndsStep ==
    ASSUME ClientInv, NEW t \in ClientTabs, NEW i \in DOMAIN client_pending[t], C!CallEnds(t, i)
    PROVE  ClientInv'
<1>1. client_pending[t][i] \in ClientCall
  BY TabFacts DEF TabTypes
<1>2. CASE C!RegisterLost(t, i)
  <2>1. client_pending[t][i].kind = "register" /\ client_pending[t][i].who \in Users
    BY <1>1, <1>2 DEF ClientCall, C!RegisterLost
  <2>2. BrowserTypes'
    BY <1>2, <2>1, TabFacts DEF BrowserTypes, C!RegisterLost
  <2> QED
    BY <1>2, <2>1, <2>2, QuietEndStep DEF C!RegisterLost
<1>3. CASE C!ApiAnswered(t, i)
  <2>1. client_pending[t][i].kind = "api" /\ C!FormEnds(t, client_pending[t][i])
    BY <1>1, <1>3 DEF ClientCall, C!ApiAnswered, C!FormEnds
  <2>2. BrowserTypes'
    BY <1>3, TabFacts DEF BrowserTypes, C!ApiAnswered, C!server
  <2> QED
    BY <1>3, <2>1, <2>2, QuietEndStep DEF C!ApiAnswered
<1>4. CASE C!CallFailed(t, i)
  <2>1. BrowserTypes'
    BY <1>4, TabFacts DEF BrowserTypes, C!CallFailed, C!server
  <2> QED
    BY <1>4, <2>1, QuietEndStep DEF C!CallFailed
<1>5. CASE C!Unauthorized(t, i)
  BY <1>5, LoggedOutStep DEF C!Unauthorized, C!Paths
<1> QED
  BY <1>2, <1>3, <1>4, <1>5, LoginAnsweredStep, RegisterAnsweredStep, UserAnsweredStep, UserFailedStep,
     AccountDeletedStep
  DEF C!CallEnds

(* No tab has a token, a user or a call.                                     *)
LEMMA ClientInit == C!Init => ClientInv
<1> SUFFICES ASSUME C!Init PROVE ClientInv
  OBVIOUS
<1>1. BrowserTypes
  BY ClientConstants, AccountAssumption DEF C!Init, C!ConstantsOK, BrowserTypes
<1>2. TabDomains
  BY DEF C!Init, TabDomains
<1>3. ASSUME NEW t \in ClientTabs PROVE TabNow(t)
  <2>1. /\ client_path[t] = "public" /\ client_token[t] = Nothing /\ client_user[t] = Nobody
        /\ client_isLoading[t] = FALSE /\ client_submitting[t] = FALSE /\ client_late[t] = FALSE
        /\ client_pending[t] = <<>>
    BY DEF C!Init
  <2>2. ~Asking(client_pending[t]) /\ ~FormWaits(client_pending[t]) /\ OneForm(client_pending[t])
    BY <2>1 DEF Asking, FormWaits, OneForm
  <2>3. TabTypes(client_path[t], client_token[t], client_user[t], client_isLoading[t],
                 client_submitting[t], client_pending[t], client_late[t])
    <3>1. client_pending[t] \in Seq(ClientCall) /\ Len(client_pending[t]) = 0
      BY <2>1
    <3>2. {client_isLoading[t], client_submitting[t], client_late[t]} \subseteq BOOLEAN
      BY <2>1
    <3> QED
      BY <2>1, <3>1, <3>2, ClientConstants DEF TabTypes, C!Paths
  <2> QED
    BY <2>1, <2>2, <2>3 DEF TabNow, TabInv, OwnsToken, SpinnersOfCalls
<1> QED
  BY <1>1, <1>2, <1>3 DEF ClientInv

(* Every action keeps ClientInv.                                             *)
LEMMA ClientStep == ClientInv /\ [C!Next]_clientVars => ClientInv'
<1> SUFFICES ASSUME ClientInv, [C!Next]_clientVars PROVE ClientInv'
  OBVIOUS
<1>1. ASSUME NEW tok \in C!Tokens, C!Expire(tok) PROVE ClientInv'
  <2>1. BrowserTypes'
    BY <1>1, TabFacts DEF ClientInv, BrowserTypes, C!Expire
  <2>2. UNCHANGED <<client_path, client_token, client_user, client_isLoading, client_submitting,
                    client_pending, client_late>>
    BY <1>1 DEF C!Expire, C!tab
  <2>3. TabDomains'
    BY <2>2 DEF ClientInv, TabDomains
  <2>4. ASSUME NEW t \in ClientTabs PROVE TabNow(t)'
    BY <2>2 DEF ClientInv, TabNow
  <2> QED
    BY <2>1, <2>3, <2>4 DEF ClientInv
<1>2. CASE UNCHANGED clientVars
  BY <1>2 DEF clientVars, ClientInv, BrowserTypes, TabDomains, TabNow
<1> QED
  BY <1>1, <1>2, VisitsStep, CallEndsStep DEF C!Next

(* ClientInv implies the properties.                                         *)
LEMMA ClientGives == ClientInv => C!TypeOK /\ ShownUserOwnsToken /\ C!SpinnersHaveCalls
<1> SUFFICES ASSUME ClientInv PROVE C!TypeOK /\ ShownUserOwnsToken /\ C!SpinnersHaveCalls
  OBVIOUS
<1>1. \A t \in ClientTabs : C!Refreshing(t) <=> Asking(client_pending[t])
  BY DEF C!Refreshing, Asking
<1>2. ShownUserOwnsToken
  BY <1>1, TabFacts DEF ShownUserOwnsToken, C!ShownUserOwnsToken, OwnsToken
<1>3. C!SpinnersHaveCalls
  BY <1>1, TabFacts DEF C!SpinnersHaveCalls, SpinnersOfCalls, FormWaits
<1>4. C!TypeOK
  <2>1. BrowserTypes /\ TabDomains
    BY DEF ClientInv
  <2>2. /\ client_path \in [ClientTabs -> C!Paths]
        /\ client_token \in [ClientTabs -> C!Tokens \cup {Nothing}]
        /\ client_user \in [ClientTabs -> Users \cup {Nobody}]
    BY <2>1, TabFacts DEF TabTypes, TabDomains
  <2>3. {client_isLoading, client_submitting, client_late} \subseteq [ClientTabs -> BOOLEAN]
    BY <2>1, TabFacts DEF TabTypes, TabDomains
  <2>4. ASSUME NEW t \in ClientTabs
        PROVE  Len(client_pending[t]) <= ClientCalls
               /\ \A i \in DOMAIN client_pending[t] : client_pending[t][i].kind \in C!Kinds
    <3>1. client_pending[t] \in Seq(ClientCall) /\ Len(client_pending[t]) <= ClientCalls
      BY TabFacts DEF TabTypes
    <3>2. \A i \in DOMAIN client_pending[t] : client_pending[t][i] \in ClientCall
      BY <3>1
    <3> QED
      BY <3>1, <3>2 DEF ClientCall
  <2> QED
    BY <2>1, <2>2, <2>3, <2>4 DEF C!TypeOK, BrowserTypes
<1> QED
  BY <1>2, <1>3, <1>4

(* AuthContext: the user shown is the owner of the token that is sent, for  *)
(* any tabs, logins and calls.                                              *)
THEOREM SessionCorrect == C!Spec => []ShownUserOwnsToken
<1>1. ClientInv => ShownUserOwnsToken
  BY ClientGives
<1>2. ClientInv /\ [C!Next]_(C!vars) => ClientInv'
  BY ClientStep DEF C!vars, C!server, C!tab, clientVars
<1> QED
  BY <1>1, <1>2, ClientInit, PTL DEF C!Spec

-------------------------------------------------------------------------------
(* The tour.                                                                *)

TrialValues == U!Values \cup {30, 50, 70}

TutorialTypes ==
    /\ tutorial_currentStep \in 0..5 /\ tutorial_direction \in -1..1
    /\ tutorial_open \in BOOLEAN /\ tutorial_focus \in BOOLEAN
    /\ tutorial_fields \in [lower : TrialValues, peak : TrialValues, upper : TrialValues]

(* The tour starts closed, with the first values.                            *)
LEMMA TutorialInit == U!Init => TutorialTypes
<1>1. U!Initial \in [lower : TrialValues, peak : TrialValues, upper : TrialValues]
  BY DEF U!Initial, TrialValues
<1>2. U!Init => tutorial_open \in BOOLEAN /\ tutorial_focus \in BOOLEAN
  BY Zenon DEF U!Init
<1>3. U!Init => tutorial_currentStep = 0 /\ tutorial_direction = 0 /\ tutorial_fields = U!Initial
  BY Zenon DEF U!Init
<1> QED
  BY <1>1, <1>2, <1>3 DEF TutorialTypes

(* Any step may be shown, with the fields as they are or as at first.       *)
LEMMA ShownStep ==
    ASSUME TutorialTypes, NEW step \in 0..5, NEW dir \in -1..1, U!Show(step, dir)
    PROVE  TutorialTypes'
<1>1. U!Initial \in [lower : TrialValues, peak : TrialValues, upper : TrialValues]
  BY DEF U!Initial, TrialValues
<1> QED
  BY <1>1 DEF U!Show, TutorialTypes

(* Every action keeps TutorialTypes.                                         *)
LEMMA TutorialStep == TutorialTypes /\ [U!Next]_tutorialVars => TutorialTypes'
<1> SUFFICES ASSUME TutorialTypes, [U!Next]_tutorialVars PROVE TutorialTypes'
  OBVIOUS
<1>1. CASE U!GoToNext
  <2>1. tutorial_currentStep + 1 \in 0..5 /\ U!Show(tutorial_currentStep + 1, 1) /\ 1 \in -1..1
    BY <1>1 DEF U!GoToNext, U!totalSteps, TutorialTypes
  <2> QED
    BY <2>1, ShownStep
<1>2. CASE U!GoToPrevious
  <2>1. tutorial_currentStep - 1 \in 0..5 /\ U!Show(tutorial_currentStep - 1, -1) /\ -1 \in -1..1
    BY <1>2 DEF U!GoToPrevious, TutorialTypes
  <2> QED
    BY <2>1, ShownStep
<1>3. CASE U!Exit
  BY <1>3 DEF U!Exit, TutorialTypes
<1>4. ASSUME NEW button \in {"next", "previous", "finish", "dots"}, U!Press(button) PROVE TutorialTypes'
  <2>1. CASE button = "dots"
    <3>1. PICK step \in 0..5 : U!Show(step, IF step > tutorial_currentStep THEN 1 ELSE -1)
      BY <1>4, <2>1 DEF U!Press, U!totalSteps
    <3>2. (IF step > tutorial_currentStep THEN 1 ELSE -1) \in -1..1
      OBVIOUS
    <3> QED
      BY <3>1, <3>2, ShownStep
  <2> QED
    BY <1>1, <1>2, <1>3, <1>4, <2>1 DEF U!Press
<1>5. ASSUME NEW key \in {"ArrowRight", "ArrowLeft", "Escape"}, U!Key(key) PROVE TutorialTypes'
  BY <1>1, <1>2, <1>3, <1>5 DEF U!Key
<1>6. CASE U!Skip \/ U!Start \/ U!Focus
  <2>1. CASE U!Start
    <3>1. U!Initial \in [lower : TrialValues, peak : TrialValues, upper : TrialValues]
      BY DEF U!Initial, TrialValues
    <3>2. tutorial_open' \in BOOLEAN /\ tutorial_focus' \in BOOLEAN
      BY <2>1, Zenon DEF U!Start
    <3>3. tutorial_currentStep' = 0 /\ tutorial_direction' = 0 /\ tutorial_fields' = U!Initial
      BY <2>1, Zenon DEF U!Start
    <3> QED
      BY <3>1, <3>2, <3>3 DEF TutorialTypes
  <2>2. CASE U!Focus
    <3>1. tutorial_focus' \in BOOLEAN
      BY <2>2, Zenon DEF U!Focus
    <3> QED
      BY <2>2, <3>1 DEF U!Focus, TutorialTypes
  <2> QED
    BY <1>3, <1>6, <2>1, <2>2 DEF U!Skip
<1>7. ASSUME NEW field \in DOMAIN tutorial_fields, NEW text \in U!Values, U!Type(field, text) PROVE TutorialTypes'
  <2>1. field \in {"lower", "peak", "upper"} /\ text \in TrialValues
    BY DEF TutorialTypes, TrialValues
  <2>2. [tutorial_fields EXCEPT ![field] = text] \in [lower : TrialValues, peak : TrialValues, upper : TrialValues]
    <3>1. CASE field = "lower"
      BY <2>1, <3>1 DEF TutorialTypes
    <3>2. CASE field = "peak"
      BY <2>1, <3>2 DEF TutorialTypes
    <3>3. CASE field = "upper"
      BY <2>1, <3>3 DEF TutorialTypes
    <3> QED
      BY <2>1, <3>1, <3>2, <3>3
  <2> QED
    BY <1>7, <2>2 DEF U!Type, TutorialTypes
<1>8. CASE UNCHANGED tutorialVars
  BY <1>8 DEF tutorialVars, TutorialTypes
<1> QED
  BY <1>4, <1>5, <1>6, <1>7, <1>8 DEF U!Next

(* TutorialTypes implies the properties.                                     *)
LEMMA TutorialGives == TutorialTypes => U!TypeOK /\ TrialIsLikeTheForm
<1> SUFFICES ASSUME TutorialTypes PROVE U!TypeOK /\ TrialIsLikeTheForm
  OBVIOUS
<1>1. U!TypeOK
  BY DEF TutorialTypes, TrialValues, U!TypeOK, U!totalSteps
<1>2. TrialValues \subseteq (0..100) \cup {Nothing} /\ Nothing \notin 0..100
  <2>1. TrialNumbers \subseteq 0..100 /\ Nothing \notin 0..100
    BY AccountAssumption DEF U!ConstantsOK
  <2>2. ASSUME NEW v \in TrialValues PROVE v \in (0..100) \cup {Nothing}
    <3>1. v \in TrialNumbers \/ v = Nothing \/ v = 30 \/ v = 50 \/ v = 70
      BY DEF TrialValues, U!Values
    <3>2. v \in TrialNumbers => v \in 0..100
      BY <2>1, Zenon
    <3>3. 30 \in 0..100 /\ 50 \in 0..100 /\ 70 \in 0..100
      OBVIOUS
    <3> QED
      BY <3>1, <3>2, <3>3, Zenon
  <2> QED
    BY <2>1, <2>2, Zenon
<1>3. TrialIsLikeTheForm
  <2> SUFFICES ASSUME \A field \in DOMAIN tutorial_fields : tutorial_fields[field] # Nothing,
                      tutorial_fields.peak # 0, tutorial_fields.upper # 0
               PROVE  U!TrianglePreview(tutorial_fields) =
                        IF tutorial_fields.lower <= tutorial_fields.peak
                           /\ tutorial_fields.peak <= tutorial_fields.upper
                        THEN tutorial_fields ELSE Nothing
    BY DEF TrialIsLikeTheForm, U!TrialIsLikeTheForm
  <2>1. U!Numbers(tutorial_fields) = tutorial_fields
    BY <1>2 DEF U!Numbers, U!OrElse, TutorialTypes
  <2> QED
    BY <2>1 DEF U!TrianglePreview, U!IsValid
<1> QED
  BY <1>1, <1>3

(* StepEnterOpinion: the trial judges as the form of a project does, for    *)
(* any numbers that are typed.                                              *)
THEOREM TrialCorrect == U!Spec => []TrialIsLikeTheForm
<1>1. TutorialTypes => TrialIsLikeTheForm
  BY TutorialGives
<1>2. TutorialTypes /\ [U!Next]_(U!vars) => TutorialTypes'
  BY TutorialStep DEF U!vars, tutorialVars
<1> QED
  BY <1>1, <1>2, TutorialInit, PTL DEF U!Spec

-------------------------------------------------------------------------------
(* The account.                                                             *)

(* A call under way, with the fields for the names if it saves them.        *)
NameFields == [first : P!Fields, last : P!Fields]

ProfileCall ==
    {c \in [kind : P!Kinds, arg : NameFields \cup P!Passwords \cup {"file", "photo", "data", "account"},
            stage : {"sent", "done", "refresh"}, seen : SUBSET P!Accounts, misses : BOOLEAN,
            overtaken : BOOLEAN] :
        c.kind = "save" => c.arg \in NameFields}

ProfileTypes ==
    /\ profile_account \in P!Accounts /\ profile_changes \in 0..ProfileChanges
    /\ profile_user \in P!Accounts \cup {Nothing}
    /\ profile_first \in P!Fields /\ profile_last \in P!Fields /\ profile_passwords \in P!Passwords
    /\ profile_deleteModalOpen \in BOOLEAN /\ profile_behind \in BOOLEAN /\ profile_edited \in BOOLEAN
    /\ profile_busy \subseteq P!WithSpinner
    /\ profile_calls \in Seq(ProfileCall)
    /\ profile_calls # <<>> => P!Loaded

(* Something stored by a call of this page is going to be fetched.          *)
ToFetch(c) == c.stage = "done" /\ c.kind \in P!Refreshing
Fetching(q) == \E i \in DOMAIN q : ToFetch(q[i]) \/ q[i].stage = "refresh"

(* The only refresh under way brings the account, unless it misses a        *)
(* change, was overtaken or another one follows.                            *)
RefreshFollows(q, a) ==
    \A i \in DOMAIN q :
        /\ q[i].stage = "refresh" /\ ~q[i].misses /\ ~q[i].overtaken
        /\ \A j \in DOMAIN q : ~ToFetch(q[j]) /\ (q[j].stage = "refresh" => j = i)
        => q[i].seen = {a}

UserFollows == P!Loaded /\ ~profile_behind /\ ~Fetching(profile_calls) => profile_user = profile_account

(* A call of a kind with a spinner is the only one of it.                   *)
OneOfEachKind(q) ==
    \A i, j \in DOMAIN q : q[i].kind = q[j].kind /\ q[i].kind \in P!WithSpinner => i = j

KindsOf(q) == {q[i].kind : i \in DOMAIN q}

(* Names that nobody edited are on their way to be saved or are those of    *)
(* the account.                                                             *)
Saving(q) == \E i \in DOMAIN q : q[i].kind = "save" /\ q[i].stage = "sent"

NamesFollow(q, f, l, a) ==
    /\ \A i \in DOMAIN q : q[i].kind = "save" /\ q[i].stage = "sent" => q[i].arg = [first |-> f, last |-> l]
    /\ ~Saving(q) => f = a.first /\ (l = a.last \/ l = NoName)

SpinnersFollow == P!Loaded => profile_busy = P!WithSpinner \cap KindsOf(profile_calls)

FieldsFollow ==
    P!Loaded /\ ~profile_edited => NamesFollow(profile_calls, profile_first, profile_last, profile_account)

ProfileInv ==
    /\ ProfileTypes
    /\ RefreshFollows(profile_calls, profile_account)
    /\ UserFollows
    /\ OneOfEachKind(profile_calls)
    /\ SpinnersFollow
    /\ FieldsFollow

(* The marks are not names or accounts, and there are bounds.               *)
LEMMA ProfileConstants ==
    /\ NoName \notin Users /\ BadName \notin Users /\ Nothing \notin P!Accounts
    /\ ProfileCalls \in Nat /\ ProfileChanges \in Nat /\ ProfileChanges >= 1
<1>1. P!ConstantsOK
  BY AccountAssumption
<1>2. /\ {NoName, BadName, Nothing} \cap Users = {} /\ Nothing \notin P!Accounts
      /\ ProfileCalls \in Nat /\ ProfileChanges \in Nat \ {0}
  BY <1>1 DEF P!ConstantsOK
<1>3. NoName \notin Users /\ BadName \notin Users
  BY <1>2
<1>4. ProfileChanges \in Nat /\ ProfileChanges >= 1
  BY <1>2
<1> QED
  BY <1>2, <1>3, <1>4

NewCall(kind, arg) ==
    [kind |-> kind, arg |-> arg, stage |-> "sent", seen |-> {}, misses |-> FALSE, overtaken |-> FALSE]

(* A call is sent: nothing is fetched for it yet.                           *)
LEMMA ProfileSent ==
    ASSUME NEW q \in Seq(ProfileCall), NEW kind \in P!Kinds,
           NEW arg \in NameFields \cup P!Passwords \cup {"file", "photo", "data", "account"},
           kind = "save" => arg \in NameFields,
           NEW r, r = Append(q, NewCall(kind, arg))
    PROVE  /\ r \in Seq(ProfileCall)
           /\ Fetching(r) <=> Fetching(q)
           /\ \A a : RefreshFollows(q, a) => RefreshFollows(r, a)
           /\ OneOfEachKind(q) /\ (kind \in P!WithSpinner => kind \notin KindsOf(q)) => OneOfEachKind(r)
           /\ KindsOf(r) = KindsOf(q) \cup {kind}
           /\ Saving(r) <=> Saving(q) \/ kind = "save"
           /\ \A f, l, a : kind # "save" /\ NamesFollow(q, f, l, a) => NamesFollow(r, f, l, a)
           /\ \A f, l, a : kind = "save" /\ "save" \notin KindsOf(q) /\ arg = [first |-> f, last |-> l]
                             => NamesFollow(r, f, l, a)
<1>1. PICK c : c = NewCall(kind, arg)
  OBVIOUS
<1>2. c \in ProfileCall /\ c.kind = kind /\ c.arg = arg /\ c.stage = "sent"
  BY <1>1 DEF NewCall, ProfileCall
<1>3. /\ r \in Seq(ProfileCall) /\ Len(r) = Len(q) + 1
      /\ DOMAIN r = DOMAIN q \cup {Len(q) + 1}
      /\ \A i \in DOMAIN q : r[i] = q[i]
      /\ r[Len(q) + 1] = c
      /\ Len(q) + 1 \notin DOMAIN q
  <2>1. r = Append(q, c)
    BY <1>1
  <2> QED
    BY <1>2, <2>1
<1> DEFINE n == Len(q) + 1
<1> HIDE DEF n
<1>4. DOMAIN r = DOMAIN q \cup {n} /\ n \notin DOMAIN q /\ (\A i \in DOMAIN q : r[i] = q[i]) /\ r[n] = c
  BY <1>3 DEF n
<1>5. ~ToFetch(c) /\ c.stage # "refresh"
  BY <1>2 DEF ToFetch
<1>6. Fetching(r) <=> Fetching(q)
  BY <1>4, <1>5 DEF Fetching
<1>7. ASSUME NEW a, RefreshFollows(q, a) PROVE RefreshFollows(r, a)
  <2>1. SUFFICES ASSUME NEW i \in DOMAIN r,
                        r[i].stage = "refresh", ~r[i].misses, ~r[i].overtaken,
                        \A j \in DOMAIN r : ~ToFetch(r[j]) /\ (r[j].stage = "refresh" => j = i)
                 PROVE  r[i].seen = {a}
    BY DEF RefreshFollows
  <2>2. i \in DOMAIN q /\ r[i] = q[i]
    BY <1>4, <1>5, <2>1
  <2>3. \A j \in DOMAIN q : ~ToFetch(q[j]) /\ (q[j].stage = "refresh" => j = i)
    BY <1>4, <2>1
  <2> QED
    BY <1>7, <2>1, <2>2, <2>3 DEF RefreshFollows
<1>8. OneOfEachKind(q) /\ (kind \in P!WithSpinner => kind \notin KindsOf(q)) => OneOfEachKind(r)
  BY <1>2, <1>4 DEF OneOfEachKind, KindsOf
<1>9. KindsOf(r) = KindsOf(q) \cup {kind}
  BY <1>2, <1>4 DEF KindsOf
<1>10. Saving(r) <=> Saving(q) \/ kind = "save"
  BY <1>2, <1>4 DEF Saving
<1>11. ASSUME NEW f, NEW l, NEW a, kind # "save", NamesFollow(q, f, l, a) PROVE NamesFollow(r, f, l, a)
  <2>1. \A i \in DOMAIN r : r[i].kind = "save" /\ r[i].stage = "sent" => r[i].arg = [first |-> f, last |-> l]
    BY <1>2, <1>4, <1>11 DEF NamesFollow
  <2>2. ~Saving(r) => f = a.first /\ (l = a.last \/ l = NoName)
    BY <1>10, <1>11, Zenon DEF NamesFollow
  <2> QED
    BY <2>1, <2>2, Zenon DEF NamesFollow
<1>12. ASSUME NEW f, NEW l, NEW a, kind = "save", "save" \notin KindsOf(q), arg = [first |-> f, last |-> l]
       PROVE  NamesFollow(r, f, l, a)
  BY <1>2, <1>4, <1>10, <1>12 DEF NamesFollow, KindsOf
<1> QED
  BY <1>3, <1>6, <1>7, <1>8, <1>9, <1>10, <1>11, <1>12

(* Calls under way go on as they are, but for what their refreshes see.     *)
SameCalls(q, r) ==
    /\ r \in Seq(ProfileCall) /\ DOMAIN r = DOMAIN q
    /\ \A i \in DOMAIN q : r[i].kind = q[i].kind /\ r[i].arg = q[i].arg /\ r[i].stage = q[i].stage

(* All but the refreshes is the same of such calls.                          *)
LEMMA SameCallsSame ==
    ASSUME NEW q, NEW r, SameCalls(q, r)
    PROVE  /\ KindsOf(r) = KindsOf(q)
           /\ OneOfEachKind(q) => OneOfEachKind(r)
           /\ Fetching(r) <=> Fetching(q)
           /\ Saving(r) <=> Saving(q)
           /\ \A f, l, a : NamesFollow(q, f, l, a) => NamesFollow(r, f, l, a)
<1>1. KindsOf(r) = KindsOf(q)
  BY DEF SameCalls, KindsOf
<1>2. OneOfEachKind(q) => OneOfEachKind(r)
  BY DEF SameCalls, OneOfEachKind
<1>3. Fetching(r) <=> Fetching(q)
  BY DEF SameCalls, Fetching, ToFetch
<1>4. Saving(r) <=> Saving(q)
  BY DEF SameCalls, Saving
<1>5. ASSUME NEW f, NEW l, NEW a, NamesFollow(q, f, l, a) PROVE NamesFollow(r, f, l, a)
  <2>1. \A i \in DOMAIN r : r[i].kind = "save" /\ r[i].stage = "sent" => r[i].arg = [first |-> f, last |-> l]
    BY <1>5 DEF NamesFollow, SameCalls
  <2>2. ~Saving(r) => f = a.first /\ (l = a.last \/ l = NoName)
    BY <1>4, <1>5, Zenon DEF NamesFollow
  <2> QED
    BY <2>1, <2>2, Zenon DEF NamesFollow
<1> QED
  BY <1>1, <1>2, <1>3, <1>4, <1>5

(* The refreshes under way see the account change.                          *)
LEMMA SeeingIs ==
    ASSUME NEW q \in Seq(ProfileCall), NEW a \in P!Accounts, NEW foreign \in BOOLEAN
    PROVE  /\ SameCalls(q, P!Seeing(q, a, foreign))
           /\ \A i \in DOMAIN q : q[i].stage = "refresh" /\ foreign => P!Seeing(q, a, foreign)[i].misses
           /\ \A i \in DOMAIN q : q[i].stage # "refresh" => P!Seeing(q, a, foreign)[i] = q[i]
<1> DEFINE looked(c) == [c EXCEPT !.seen = @ \cup {a}, !.misses = @ \/ foreign]
<1>1. ASSUME NEW c \in ProfileCall
      PROVE  /\ looked(c) \in ProfileCall
             /\ looked(c).kind = c.kind /\ looked(c).arg = c.arg /\ looked(c).stage = c.stage
             /\ foreign => looked(c).misses
  <2>1. PICK b \in BOOLEAN : b = (c.misses \/ foreign)
    BY DEF ProfileCall
  <2>2. PICK d : d = [c EXCEPT !.seen = @ \cup {a}, !.misses = b]
    OBVIOUS
  <2>3. d = looked(c)
    BY <2>1, <2>2, Zenon
  <2>4. d \in ProfileCall /\ d.kind = c.kind /\ d.arg = c.arg /\ d.stage = c.stage /\ d.misses = b
    BY <2>2 DEF ProfileCall
  <2>5. foreign => d.misses
    BY <2>1, <2>4
  <2> QED
    BY <2>3, <2>4, <2>5, Zenon
<1>2. PICK r : r = P!Seeing(q, a, foreign)
  OBVIOUS
<1>3. r = [i \in DOMAIN q |-> IF q[i].stage = "refresh" THEN looked(q[i]) ELSE q[i]]
  BY <1>2, Zenon DEF P!Seeing
<1> HIDE DEF looked
<1>4. ASSUME NEW i \in DOMAIN q
      PROVE  /\ r[i] \in ProfileCall
             /\ r[i].kind = q[i].kind /\ r[i].arg = q[i].arg /\ r[i].stage = q[i].stage
             /\ q[i].stage = "refresh" /\ foreign => r[i].misses
             /\ q[i].stage # "refresh" => r[i] = q[i]
  <2>1. q[i] \in ProfileCall
    OBVIOUS
  <2> QED
    BY <1>1, <1>3, <2>1
<1>5. DOMAIN r = DOMAIN q /\ r \in Seq(ProfileCall)
  <2>1. DOMAIN q = 1..Len(q) /\ Len(q) \in Nat
    OBVIOUS
  <2>2. r \in [1..Len(q) -> ProfileCall]
    BY <1>3, <1>4, <2>1
  <2> QED
    BY <1>3, <2>1, <2>2
<1> QED
  BY <1>2, <1>4, <1>5 DEF SameCalls

(* A call ends: where those after it were before.                           *)
Up(i, k) == IF k < i THEN k ELSE k + 1

(* Without the i-th call the others are as they were.                        *)
LEMMA ProfileOver ==
    ASSUME NEW q \in Seq(ProfileCall), NEW i \in DOMAIN q, NEW r, r = P!RemoveAt(q, i)
    PROVE  /\ r \in Seq(ProfileCall)
           /\ \A k \in DOMAIN r : Up(i, k) \in DOMAIN q /\ Up(i, k) # i /\ r[k] = q[Up(i, k)]
           /\ \A j \in DOMAIN q : j # i => \E k \in DOMAIN r : Up(i, k) = j
           /\ \A k, n \in DOMAIN r : Up(i, k) = Up(i, n) => k = n
<1>1. r = RemoveAt(q, i)
  BY DEF P!RemoveAt, RemoveAt
<1>2. /\ r \in Seq(ProfileCall) /\ Len(r) = Len(q) - 1
      /\ \A k \in 1..(Len(q) - 1) : r[k] = IF k < i THEN q[k] ELSE q[k + 1]
  BY <1>1, RemoveAtEntries
<1>3. PICK m : m = Len(q)
  OBVIOUS
<1>4. m \in Nat /\ DOMAIN q = 1..m /\ DOMAIN r = 1..(m - 1) /\ i \in 1..m
  BY <1>2, <1>3
<1>5. \A k \in DOMAIN r : Up(i, k) \in DOMAIN q /\ Up(i, k) # i /\ r[k] = q[Up(i, k)]
  BY <1>2, <1>3, <1>4 DEF Up
<1>6. ASSUME NEW j \in DOMAIN q, j # i
      PROVE  \E k \in DOMAIN r : Up(i, k) = j
  <2>1. CASE j < i
    BY <1>4, <2>1 DEF Up
  <2>2. CASE i < j
    <3>1. j - 1 \in 1..(m - 1) /\ ~(j - 1 < i) /\ (j - 1) + 1 = j
      BY <1>4, <2>2
    <3> QED
      BY <1>4, <3>1 DEF Up
  <2> QED
    BY <1>4, <1>6, <2>1, <2>2
<1>7. \A k, n \in DOMAIN r : Up(i, k) = Up(i, n) => k = n
  BY <1>4 DEF Up
<1> QED
  BY <1>2, <1>5, <1>6, <1>7

(* When a call ends, no call of its kind is left, if it has a spinner.       *)
LEMMA KindsOver ==
    ASSUME NEW q \in Seq(ProfileCall), NEW i \in DOMAIN q, NEW r, r = P!RemoveAt(q, i), OneOfEachKind(q)
    PROVE  /\ OneOfEachKind(r)
           /\ P!WithSpinner \cap KindsOf(r) = (P!WithSpinner \cap KindsOf(q)) \ {q[i].kind}
<1>1. \A k \in DOMAIN r : Up(i, k) \in DOMAIN q /\ Up(i, k) # i /\ r[k] = q[Up(i, k)]
  BY ProfileOver
<1>2. \A j \in DOMAIN q : j # i => \E k \in DOMAIN r : Up(i, k) = j
  BY ProfileOver
<1>3. \A k, n \in DOMAIN r : Up(i, k) = Up(i, n) => k = n
  BY ProfileOver
<1>4. OneOfEachKind(r)
  <2>1. SUFFICES ASSUME NEW k \in DOMAIN r, NEW n \in DOMAIN r, r[k].kind = r[n].kind, r[k].kind \in P!WithSpinner
                 PROVE  Up(i, k) = Up(i, n)
    BY <1>3 DEF OneOfEachKind
  <2> QED
    BY <1>1, <2>1 DEF OneOfEachKind
<1>5. ASSUME NEW kind \in P!WithSpinner
      PROVE  kind \in KindsOf(r) <=> kind \in KindsOf(q) /\ kind # q[i].kind
  <2>1. ASSUME kind \in KindsOf(r) PROVE kind \in KindsOf(q) /\ kind # q[i].kind
    <3>1. PICK k \in DOMAIN r : r[k].kind = kind
      BY <2>1 DEF KindsOf
    <3> QED
      BY <1>1, <3>1 DEF KindsOf, OneOfEachKind
  <2>2. ASSUME kind \in KindsOf(q), kind # q[i].kind PROVE kind \in KindsOf(r)
    <3>1. PICK j \in DOMAIN q : q[j].kind = kind /\ j # i
      BY <2>2 DEF KindsOf
    <3>2. PICK k \in DOMAIN r : r[k] = q[j]
      BY <1>1, <1>2, <3>1
    <3> QED
      BY <3>1, <3>2 DEF KindsOf
  <2> QED
    BY <2>1, <2>2
<1> QED
  BY <1>4, <1>5

(* What ends is neither a refresh nor to be followed by one.                *)
LEMMA QuietlyOver ==
    ASSUME NEW q \in Seq(ProfileCall), NEW i \in DOMAIN q, NEW r, r = P!RemoveAt(q, i),
           ~ToFetch(q[i]), q[i].stage # "refresh"
    PROVE  /\ Fetching(r) <=> Fetching(q)
           /\ \A a : RefreshFollows(q, a) => RefreshFollows(r, a)
<1>1. \A k \in DOMAIN r : Up(i, k) \in DOMAIN q /\ Up(i, k) # i /\ r[k] = q[Up(i, k)]
  BY ProfileOver
<1>2. \A j \in DOMAIN q : j # i => \E k \in DOMAIN r : Up(i, k) = j
  BY ProfileOver
<1>3. Fetching(r) <=> Fetching(q)
  BY <1>1, <1>2 DEF Fetching
<1>4. ASSUME NEW a, RefreshFollows(q, a), NEW k \in DOMAIN r,
             r[k].stage = "refresh", ~r[k].misses, ~r[k].overtaken,
             \A n \in DOMAIN r : ~ToFetch(r[n]) /\ (r[n].stage = "refresh" => n = k)
      PROVE  r[k].seen = {a}
  <2>1. ASSUME NEW h \in DOMAIN q PROVE ~ToFetch(q[h]) /\ (q[h].stage = "refresh" => h = Up(i, k))
    BY <1>1, <1>2, <1>4
  <2> QED
    BY <1>1, <1>4, <2>1 DEF RefreshFollows
<1>5. \A a : RefreshFollows(q, a) => RefreshFollows(r, a)
  BY <1>4 DEF RefreshFollows
<1> QED
  BY <1>3, <1>5

(* What ends does not save names that have not arrived.                     *)
LEMMA NamesOver ==
    ASSUME NEW q \in Seq(ProfileCall), NEW i \in DOMAIN q, NEW r, r = P!RemoveAt(q, i),
           q[i].kind # "save" \/ q[i].stage # "sent", NEW f, NEW l, NEW a, NamesFollow(q, f, l, a)
    PROVE  NamesFollow(r, f, l, a)
<1>1. \A k \in DOMAIN r : Up(i, k) \in DOMAIN q /\ Up(i, k) # i /\ r[k] = q[Up(i, k)]
  BY ProfileOver
<1>2. \A j \in DOMAIN q : j # i => \E k \in DOMAIN r : Up(i, k) = j
  BY ProfileOver
<1>3. Saving(q) => Saving(r)
  BY <1>1, <1>2 DEF Saving
<1>4. \A k \in DOMAIN r : r[k].kind = "save" /\ r[k].stage = "sent" => r[k].arg = [first |-> f, last |-> l]
  BY <1>1 DEF NamesFollow
<1>5. ~Saving(r) => f = a.first /\ (l = a.last \/ l = NoName)
  BY <1>3, Zenon DEF NamesFollow
<1> QED
  BY <1>4, <1>5, Zenon DEF NamesFollow

(* The other refreshes are overtaken by the i-th one.                       *)
LEMMA OvertakingIs ==
    ASSUME NEW q \in Seq(ProfileCall), NEW i \in DOMAIN q, NEW r,
           r = [j \in DOMAIN q |-> IF q[j].stage = "refresh" /\ j # i
                                   THEN [q[j] EXCEPT !.overtaken = TRUE] ELSE q[j]]
    PROVE  /\ SameCalls(q, r)
           /\ \A j \in DOMAIN q : q[j].stage = "refresh" /\ j # i => r[j].overtaken
<1> DEFINE over(c) == [c EXCEPT !.overtaken = TRUE]
<1>1. ASSUME NEW c \in ProfileCall
      PROVE  /\ over(c) \in ProfileCall /\ over(c).overtaken
             /\ over(c).kind = c.kind /\ over(c).arg = c.arg /\ over(c).stage = c.stage
  BY DEF ProfileCall
<1>2. r = [j \in DOMAIN q |-> IF q[j].stage = "refresh" /\ j # i THEN over(q[j]) ELSE q[j]]
  BY Zenon
<1> HIDE DEF over
<1>3. ASSUME NEW j \in DOMAIN q
      PROVE  /\ r[j] \in ProfileCall
             /\ r[j].kind = q[j].kind /\ r[j].arg = q[j].arg /\ r[j].stage = q[j].stage
             /\ q[j].stage = "refresh" /\ j # i => r[j].overtaken
  <2>1. q[j] \in ProfileCall
    OBVIOUS
  <2> QED
    BY <1>1, <1>2, <2>1
<1>4. DOMAIN r = DOMAIN q /\ r \in Seq(ProfileCall)
  <2>1. DOMAIN q = 1..Len(q) /\ Len(q) \in Nat
    OBVIOUS
  <2>2. r \in [1..Len(q) -> ProfileCall]
    BY <1>2, <1>3, <2>1
  <2> QED
    BY <1>2, <2>1, <2>2
<1> QED
  BY <1>3, <1>4 DEF SameCalls

(* The refreshes under way miss what was lost.                              *)
LEMMA MissingIs ==
    ASSUME NEW q \in Seq(ProfileCall), NEW lost \in BOOLEAN, NEW r,
           r = [j \in DOMAIN q |-> IF q[j].stage = "refresh" THEN [q[j] EXCEPT !.misses = @ \/ lost] ELSE q[j]]
    PROVE  /\ SameCalls(q, r)
           /\ \A j \in DOMAIN q : q[j].stage = "refresh" /\ lost => r[j].misses
           /\ \A a : ~lost /\ RefreshFollows(q, a) => RefreshFollows(r, a)
<1> DEFINE missing(c) == [c EXCEPT !.misses = @ \/ lost]
<1>1. ASSUME NEW c \in ProfileCall
      PROVE  /\ missing(c) \in ProfileCall
             /\ missing(c).kind = c.kind /\ missing(c).arg = c.arg /\ missing(c).stage = c.stage
             /\ missing(c).overtaken = c.overtaken /\ missing(c).seen = c.seen
             /\ missing(c).misses <=> c.misses \/ lost
  <2>1. PICK b \in BOOLEAN : b = (c.misses \/ lost)
    BY DEF ProfileCall
  <2>2. PICK d : d = [c EXCEPT !.misses = b]
    OBVIOUS
  <2>3. d = missing(c)
    BY <2>1, <2>2, Zenon
  <2>4. /\ d \in ProfileCall /\ d.kind = c.kind /\ d.arg = c.arg /\ d.stage = c.stage
        /\ d.overtaken = c.overtaken /\ d.seen = c.seen /\ d.misses = b
    BY <2>2 DEF ProfileCall
  <2>5. d.misses <=> c.misses \/ lost
    BY <2>1, <2>4
  <2> QED
    BY <2>3, <2>4, <2>5, Zenon
<1>2. r = [j \in DOMAIN q |-> IF q[j].stage = "refresh" THEN missing(q[j]) ELSE q[j]]
  BY Zenon
<1> HIDE DEF missing
<1>3. ASSUME NEW j \in DOMAIN q
      PROVE  /\ r[j] \in ProfileCall
             /\ r[j].kind = q[j].kind /\ r[j].arg = q[j].arg /\ r[j].stage = q[j].stage
             /\ r[j].overtaken = q[j].overtaken /\ r[j].seen = q[j].seen
             /\ q[j].stage = "refresh" => (r[j].misses <=> q[j].misses \/ lost)
  <2>1. q[j] \in ProfileCall
    OBVIOUS
  <2>2. CASE q[j].stage = "refresh"
    <3>1. PICK d : d = missing(q[j])
      OBVIOUS
    <3>2. r[j] = d
      BY <1>2, <2>2, <3>1
    <3>3. /\ d \in ProfileCall
          /\ d.kind = q[j].kind /\ d.arg = q[j].arg /\ d.stage = q[j].stage
          /\ d.overtaken = q[j].overtaken /\ d.seen = q[j].seen
          /\ d.misses <=> q[j].misses \/ lost
      BY <1>1, <2>1, <3>1, Zenon
    <3> QED
      BY <3>2, <3>3, Zenon
  <2>3. CASE q[j].stage # "refresh"
    <3>1. r[j] = q[j]
      BY <1>2, <2>3
    <3> QED
      BY <2>1, <2>3, <3>1, Zenon
  <2> QED
    BY <2>2, <2>3, Zenon
<1>4. DOMAIN r = DOMAIN q /\ r \in Seq(ProfileCall)
  <2>1. DOMAIN q = 1..Len(q) /\ Len(q) \in Nat
    OBVIOUS
  <2>2. r \in [1..Len(q) -> ProfileCall]
    BY <1>2, <1>3, <2>1
  <2> QED
    BY <1>2, <2>1, <2>2
<1>5. ASSUME NEW a, ~lost, RefreshFollows(q, a) PROVE RefreshFollows(r, a)
  BY <1>3, <1>4, <1>5 DEF RefreshFollows, ToFetch
<1> QED
  BY <1>3, <1>4, <1>5 DEF SameCalls

(* The server has accepted the i-th call, and changed nothing but it yet.   *)
AcceptedAt(q, i) == [q EXCEPT ![i].stage = "done"]

(* The stage of the i-th call is what changes.                               *)
LEMMA AcceptedIs ==
    ASSUME NEW q \in Seq(ProfileCall), NEW i \in DOMAIN q, q[i].stage = "sent",
           NEW r, r = AcceptedAt(q, i)
    PROVE  /\ r \in Seq(ProfileCall) /\ DOMAIN r = DOMAIN q
           /\ KindsOf(r) = KindsOf(q)
           /\ OneOfEachKind(q) => OneOfEachKind(r)
           /\ q[i].kind \in P!Refreshing => ToFetch(r[i])
           /\ q[i].kind \notin P!Refreshing => (Fetching(r) <=> Fetching(q))
           /\ \A a : q[i].kind \notin P!Refreshing /\ RefreshFollows(q, a) => RefreshFollows(r, a)
           /\ \A f, l, a : q[i].kind # "save" /\ NamesFollow(q, f, l, a) => NamesFollow(r, f, l, a)
           /\ OneOfEachKind(q) /\ q[i].kind = "save" => ~Saving(r)
<1>1. PICK c : c = [q[i] EXCEPT !.stage = "done"]
  OBVIOUS
<1>2. q[i] \in ProfileCall
  OBVIOUS
<1>3. /\ c \in ProfileCall /\ c.kind = q[i].kind /\ c.arg = q[i].arg /\ c.stage = "done"
  BY <1>1, <1>2 DEF ProfileCall
<1>4. r = [q EXCEPT ![i] = c]
  BY <1>1, Zenon DEF AcceptedAt
<1>5. r \in Seq(ProfileCall) /\ DOMAIN r = DOMAIN q /\ r[i] = c /\ \A j \in DOMAIN q : j # i => r[j] = q[j]
  BY <1>3, <1>4
<1>6. KindsOf(r) = KindsOf(q)
  BY <1>3, <1>5 DEF KindsOf
<1>7. OneOfEachKind(q) => OneOfEachKind(r)
  BY <1>3, <1>5 DEF OneOfEachKind
<1>8. q[i].kind \in P!Refreshing => ToFetch(r[i])
  BY <1>3, <1>5 DEF ToFetch
<1>9. ASSUME q[i].kind \notin P!Refreshing
      PROVE  /\ Fetching(r) <=> Fetching(q)
             /\ \A a : RefreshFollows(q, a) => RefreshFollows(r, a)
  <2>1. \A j \in DOMAIN q : (ToFetch(r[j]) <=> ToFetch(q[j])) /\ (r[j].stage = "refresh" <=> q[j].stage = "refresh")
    BY <1>3, <1>5, <1>9 DEF ToFetch
  <2>2. \A j \in DOMAIN q : r[j].stage = "refresh" => r[j] = q[j]
    BY <1>3, <1>5
  <2>3. Fetching(r) <=> Fetching(q)
    BY <1>5, <2>1 DEF Fetching
  <2>4. ASSUME NEW a, RefreshFollows(q, a) PROVE RefreshFollows(r, a)
    <3>1. SUFFICES ASSUME NEW k \in DOMAIN r,
                          r[k].stage = "refresh", ~r[k].misses, ~r[k].overtaken,
                          \A j \in DOMAIN r : ~ToFetch(r[j]) /\ (r[j].stage = "refresh" => j = k)
                   PROVE  r[k].seen = {a}
      BY DEF RefreshFollows
    <3>2. k \in DOMAIN q /\ r[k] = q[k]
      BY <1>5, <2>2, <3>1
    <3>3. \A j \in DOMAIN q : ~ToFetch(q[j]) /\ (q[j].stage = "refresh" => j = k)
      BY <1>5, <2>1, <3>1
    <3> QED
      BY <2>4, <3>1, <3>2, <3>3 DEF RefreshFollows
  <2> QED
    BY <2>3, <2>4
<1>10. ASSUME NEW f, NEW l, NEW a, q[i].kind # "save", NamesFollow(q, f, l, a)
       PROVE  NamesFollow(r, f, l, a)
  <2>1. Saving(r) <=> Saving(q)
    BY <1>3, <1>5, <1>10 DEF Saving
  <2>2. \A k \in DOMAIN r : r[k].kind = "save" /\ r[k].stage = "sent" => r[k].arg = [first |-> f, last |-> l]
    BY <1>3, <1>5, <1>10 DEF NamesFollow
  <2>3. ~Saving(r) => f = a.first /\ (l = a.last \/ l = NoName)
    BY <1>10, <2>1, Zenon DEF NamesFollow
  <2> QED
    BY <2>2, <2>3, Zenon DEF NamesFollow
<1>11. ASSUME OneOfEachKind(q), q[i].kind = "save" PROVE ~Saving(r)
  BY <1>3, <1>5, <1>11 DEF OneOfEachKind, Saving, P!WithSpinner
<1> QED
  BY <1>5, <1>6, <1>7, <1>8, <1>9, <1>10, <1>11

Fetched(c, a) == [c EXCEPT !.stage = "refresh", !.seen = {a}]
FetchedFor(q, i, a) == [q EXCEPT ![i] = Fetched(@, a)]

(* The user is fetched for the i-th call, and the account is a now.         *)
LEMMA FetchIs ==
    ASSUME NEW q \in Seq(ProfileCall), NEW i \in DOMAIN q, q[i].stage = "done", NEW a \in P!Accounts,
           NEW r, r = FetchedFor(q, i, a)
    PROVE  /\ r \in Seq(ProfileCall) /\ DOMAIN r = DOMAIN q
           /\ KindsOf(r) = KindsOf(q)
           /\ OneOfEachKind(q) => OneOfEachKind(r)
           /\ Fetching(r)
           /\ RefreshFollows(r, a)
           /\ \A f, l, b : NamesFollow(q, f, l, b) => NamesFollow(r, f, l, b)
<1>1. PICK c : c = Fetched(q[i], a)
  OBVIOUS
<1>2. q[i] \in ProfileCall
  OBVIOUS
<1>3. /\ c \in ProfileCall /\ c.kind = q[i].kind /\ c.arg = q[i].arg /\ c.stage = "refresh" /\ c.seen = {a}
  BY <1>1, <1>2 DEF Fetched, ProfileCall
<1>4. r = [q EXCEPT ![i] = c]
  BY <1>1, Zenon DEF FetchedFor
<1>5. r \in Seq(ProfileCall) /\ DOMAIN r = DOMAIN q /\ r[i] = c /\ \A j \in DOMAIN q : j # i => r[j] = q[j]
  BY <1>3, <1>4
<1>6. KindsOf(r) = KindsOf(q)
  BY <1>3, <1>5 DEF KindsOf
<1>7. OneOfEachKind(q) => OneOfEachKind(r)
  BY <1>3, <1>5 DEF OneOfEachKind
<1>8. Fetching(r)
  BY <1>3, <1>5 DEF Fetching
<1>9. RefreshFollows(r, a)
  <2>1. r[i].stage = "refresh" /\ r[i].seen = {a} /\ i \in DOMAIN r
    BY <1>3, <1>5
  <2> QED
    BY <2>1 DEF RefreshFollows
<1>10. ASSUME NEW f, NEW l, NEW b, NamesFollow(q, f, l, b) PROVE NamesFollow(r, f, l, b)
  <2>1. Saving(r) <=> Saving(q)
    BY <1>3, <1>5 DEF Saving
  <2>2. \A k \in DOMAIN r : r[k].kind = "save" /\ r[k].stage = "sent" => r[k].arg = [first |-> f, last |-> l]
    BY <1>3, <1>5, <1>10 DEF NamesFollow
  <2>3. ~Saving(r) => f = b.first /\ (l = b.last \/ l = NoName)
    BY <1>10, <2>1, Zenon DEF NamesFollow
  <2> QED
    BY <2>2, <2>3, Zenon DEF NamesFollow
<1> QED
  BY <1>5, <1>6, <1>7, <1>8, <1>9, <1>10

(* What is to be fetched excuses the refreshes under way.                   *)
LEMMA FollowedIs ==
    ASSUME NEW q, NEW r, SameCalls(q, r), NEW i \in DOMAIN q, ToFetch(q[i]), NEW a
    PROVE  RefreshFollows(r, a) /\ Fetching(r)
<1>1. i \in DOMAIN r /\ ToFetch(r[i])
  BY DEF SameCalls, ToFetch
<1>2. RefreshFollows(r, a)
  BY <1>1 DEF RefreshFollows
<1> QED
  BY <1>1, <1>2 DEF Fetching

(* Only the names of the account matter to the fields.                       *)
LEMMA NamesSame ==
    ASSUME NEW q, NEW f, NEW l, NEW a, NEW b, a.first = b.first, a.last = b.last, NamesFollow(q, f, l, a)
    PROVE  NamesFollow(q, f, l, b)
BY Zenon DEF NamesFollow

(* The page is left: no user, no call and nothing to follow.                *)
LEMMA GoneStep ==
    ASSUME ProfileInv, NEW why, P!Gone(why), UNCHANGED <<profile_account, profile_changes>>
    PROVE  ProfileInv'
<1>1. /\ profile_user' = Nothing /\ profile_first' = NoName /\ profile_last' = NoName
      /\ profile_passwords' = "missing" /\ profile_deleteModalOpen' = FALSE /\ profile_busy' = {}
      /\ profile_behind' = FALSE /\ profile_edited' = FALSE /\ profile_calls' = <<>>
  BY DEF P!Gone
<1>2. ~(P!Loaded)'
  BY <1>1 DEF P!Loaded
<1>3. ProfileTypes'
  <2>1. profile_deleteModalOpen' \in BOOLEAN /\ profile_behind' \in BOOLEAN /\ profile_edited' \in BOOLEAN
    BY <1>1, Zenon
  <2>2. profile_passwords' \in P!Passwords /\ NoName \in P!Fields
    BY <1>1 DEF P!Passwords, P!Fields
  <2>3. profile_calls' = <<>> /\ profile_calls' \in Seq(ProfileCall) /\ profile_busy' \subseteq P!WithSpinner
    BY <1>1
  <2>4. profile_account' \in P!Accounts /\ profile_changes' \in 0..ProfileChanges
    BY DEF ProfileTypes, ProfileInv
  <2> QED
    BY <1>1, <2>1, <2>2, <2>3, <2>4 DEF ProfileTypes
<1>4. RefreshFollows(profile_calls, profile_account)' /\ OneOfEachKind(profile_calls)'
  BY <1>1 DEF RefreshFollows, OneOfEachKind
<1> QED
  BY <1>2, <1>3, <1>4 DEF ProfileInv, UserFollows, SpinnersFollow, FieldsFollow

(* The page opens with the account as it is.                                 *)
LEMMA MountStep == ASSUME ProfileInv, P!Mount PROVE ProfileInv'
<1>1. /\ profile_user' = profile_account /\ profile_account' = profile_account
      /\ profile_first' = profile_account.first /\ profile_last' = profile_account.last
      /\ profile_passwords' = "missing" /\ profile_deleteModalOpen' = FALSE /\ profile_busy' = {}
      /\ profile_behind' = FALSE /\ profile_edited' = FALSE /\ profile_calls' = <<>>
      /\ profile_changes' = profile_changes
  BY DEF P!Mount
<1>2. profile_account.first \in P!Fields /\ profile_account.last \in P!Fields /\ profile_account \in P!Accounts
  BY DEF ProfileInv, ProfileTypes, P!Accounts, P!Fields
<1>3. ProfileTypes'
  <2>1. profile_deleteModalOpen' \in BOOLEAN /\ profile_behind' \in BOOLEAN /\ profile_edited' \in BOOLEAN
    BY <1>1, Zenon
  <2>2. profile_passwords' \in P!Passwords
    BY <1>1 DEF P!Passwords
  <2>3. profile_calls' = <<>> /\ profile_calls' \in Seq(ProfileCall) /\ profile_busy' \subseteq P!WithSpinner
    BY <1>1
  <2>4. profile_changes' \in 0..ProfileChanges
    BY <1>1 DEF ProfileTypes, ProfileInv
  <2> QED
    BY <1>1, <1>2, <2>1, <2>2, <2>3, <2>4 DEF ProfileTypes
<1>4. RefreshFollows(profile_calls, profile_account)' /\ OneOfEachKind(profile_calls)'
  BY <1>1 DEF RefreshFollows, OneOfEachKind
<1>5. UserFollows' /\ SpinnersFollow'
  BY <1>1 DEF UserFollows, SpinnersFollow, KindsOf
<1>6. NamesFollow(profile_calls, profile_first, profile_last, profile_account)'
  BY <1>1 DEF NamesFollow, Saving
<1> QED
  BY <1>3, <1>4, <1>5, <1>6 DEF ProfileInv, FieldsFollow

(* The user types or opens the dialog: the calls go on.                     *)
LEMMA TypingStep ==
    ASSUME ProfileInv,
           \/ \E f, l \in P!Fields : P!TypeName(f, l)
           \/ \E p \in P!Passwords : P!TypePasswords(p)
           \/ \E open \in BOOLEAN : P!SetDeleteModalOpen(open)
    PROVE  ProfileInv'
<1>1. ASSUME NEW f \in P!Fields, NEW l \in P!Fields, P!TypeName(f, l) PROVE ProfileInv'
  BY <1>1 DEF P!TypeName, ProfileInv, ProfileTypes, P!Loaded, UserFollows, SpinnersFollow, FieldsFollow
<1>2. ASSUME NEW p \in P!Passwords, P!TypePasswords(p) PROVE ProfileInv'
  BY <1>2 DEF P!TypePasswords, ProfileInv, ProfileTypes, P!Loaded, UserFollows, SpinnersFollow, FieldsFollow
<1>3. ASSUME NEW open \in BOOLEAN, P!SetDeleteModalOpen(open) PROVE ProfileInv'
  BY <1>3 DEF P!SetDeleteModalOpen, ProfileInv, ProfileTypes, P!Loaded, UserFollows, SpinnersFollow, FieldsFollow
<1> QED
  BY <1>1, <1>2, <1>3

(* A handler sends a call; that of the names has those of the fields.       *)
LEMMA HandlerStep ==
    ASSUME ProfileInv, P!Loaded, NEW kind \in P!Kinds,
           NEW arg \in NameFields \cup P!Passwords \cup {"file", "photo", "data", "account"},
           kind = "save" => arg = [first |-> profile_first, last |-> profile_last],
           kind \in P!WithSpinner => kind \notin profile_busy,
           P!Start(kind), P!Send(kind, arg),
           UNCHANGED <<profile_account, profile_changes, profile_user, profile_first, profile_last,
                       profile_passwords, profile_deleteModalOpen, profile_behind>>,
           profile_edited' \in BOOLEAN, kind # "save" => profile_edited' = profile_edited
    PROVE  ProfileInv'
<1> DEFINE q == profile_calls
           r == profile_calls'
<1>1. /\ q \in Seq(ProfileCall) /\ RefreshFollows(q, profile_account) /\ OneOfEachKind(q)
      /\ profile_first \in P!Fields /\ profile_last \in P!Fields
      /\ profile_busy = P!WithSpinner \cap KindsOf(q)
  BY DEF ProfileInv, ProfileTypes, SpinnersFollow
<1>2. kind = "save" => arg \in NameFields
  BY <1>1 DEF NameFields
<1>3. r = Append(q, NewCall(kind, arg))
  BY Zenon DEF P!Send, NewCall
<1>4. kind \in P!WithSpinner => kind \notin KindsOf(q)
  BY <1>1
<1> HIDE DEF q, r
<1>50. /\ r \in Seq(ProfileCall)
       /\ Fetching(r) <=> Fetching(q)
       /\ \A a : RefreshFollows(q, a) => RefreshFollows(r, a)
       /\ OneOfEachKind(q) /\ (kind \in P!WithSpinner => kind \notin KindsOf(q)) => OneOfEachKind(r)
       /\ KindsOf(r) = KindsOf(q) \cup {kind}
       /\ Saving(r) <=> Saving(q) \/ kind = "save"
       /\ \A f, l, a : kind # "save" /\ NamesFollow(q, f, l, a) => NamesFollow(r, f, l, a)
       /\ \A f, l, a : kind = "save" /\ "save" \notin KindsOf(q) /\ arg = [first |-> f, last |-> l]
                         => NamesFollow(r, f, l, a)
  BY <1>1, <1>2, <1>3, ProfileSent
<1>5. /\ r \in Seq(ProfileCall) /\ (Fetching(r) <=> Fetching(q)) /\ RefreshFollows(r, profile_account)
      /\ OneOfEachKind(r) /\ KindsOf(r) = KindsOf(q) \cup {kind}
      /\ \A f, l, a : kind # "save" /\ NamesFollow(q, f, l, a) => NamesFollow(r, f, l, a)
      /\ \A f, l, a : kind = "save" /\ "save" \notin KindsOf(q) /\ arg = [first |-> f, last |-> l]
                        => NamesFollow(r, f, l, a)
  BY <1>1, <1>4, <1>50
<1>6. (P!Loaded)'
  BY DEF P!Loaded
<1>7. profile_busy' = P!WithSpinner \cap KindsOf(r)
  BY <1>1, <1>5 DEF P!Start
<1>8. ProfileTypes'
  BY <1>5, <1>6, <1>7 DEF ProfileInv, ProfileTypes, r
<1>9. RefreshFollows(profile_calls, profile_account)' /\ OneOfEachKind(profile_calls)'
  BY <1>5 DEF r
<1>10. UserFollows'
  BY <1>5 DEF ProfileInv, UserFollows, P!Loaded, q, r
<1>11. SpinnersFollow'
  BY <1>7 DEF SpinnersFollow, r
<1>12. FieldsFollow'
  <2>1. CASE kind = "save"
    <3>1. "save" \notin KindsOf(q)
      BY <1>4, <2>1 DEF P!WithSpinner
    <3>2. NamesFollow(r, profile_first, profile_last, profile_account)
      BY <1>5, <2>1, <3>1
    <3> QED
      BY <3>2 DEF FieldsFollow, r
  <2>2. CASE kind # "save"
    <3>1. ~profile_edited => NamesFollow(r, profile_first, profile_last, profile_account)
      BY <1>5, <2>2 DEF ProfileInv, FieldsFollow, q
    <3> QED
      BY <2>2, <3>1 DEF FieldsFollow, r
  <2> QED
    BY <2>1, <2>2
<1> QED
  BY <1>8, <1>9, <1>10, <1>11, <1>12 DEF ProfileInv

(* Each handler sends one call.                                              *)
LEMMA HandlersStep ==
    ASSUME ProfileInv,
           \/ P!HandleSaveProfile \/ P!HandlePhotoUpload \/ P!HandleDeletePhoto
           \/ P!HandleChangePassword \/ P!HandleExportData \/ P!HandleDeleteAccount
    PROVE  ProfileInv'
<1>0. /\ profile_edited \in BOOLEAN /\ profile_passwords \in P!Passwords
      /\ profile_first \in P!Fields /\ profile_last \in P!Fields
  BY DEF ProfileInv, ProfileTypes
<1>1. CASE P!HandleSaveProfile
  <2>1. P!Sent \in NameFields /\ P!Sent = [first |-> profile_first, last |-> profile_last]
    BY <1>0 DEF P!Sent, NameFields
  <2>2. "save" \in P!Kinds /\ "save" \notin profile_busy
    BY <1>1 DEF P!Kinds, P!WithSpinner, P!HandleSaveProfile, P!SaveEnabled
  <2>3. profile_edited' \in BOOLEAN
    BY <1>1 DEF P!HandleSaveProfile
  <2> QED
    BY <1>1, <2>1, <2>2, <2>3, HandlerStep DEF P!HandleSaveProfile
<1>2. CASE P!HandlePhotoUpload
  BY <1>0, <1>2, HandlerStep DEF P!HandlePhotoUpload, P!form, P!Kinds, P!WithSpinner
<1>3. CASE P!HandleDeletePhoto
  BY <1>0, <1>3, HandlerStep DEF P!HandleDeletePhoto, P!form, P!Kinds, P!WithSpinner
<1>4. CASE P!HandleChangePassword
  BY <1>0, <1>4, HandlerStep DEF P!HandleChangePassword, P!UpdateEnabled, P!form, P!Kinds, P!WithSpinner
<1>5. CASE P!HandleExportData
  BY <1>0, <1>5, HandlerStep DEF P!HandleExportData, P!ExportEnabled, P!form, P!Kinds, P!WithSpinner
<1>6. CASE P!HandleDeleteAccount
  BY <1>0, <1>6, HandlerStep DEF P!HandleDeleteAccount, P!form, P!Kinds, P!WithSpinner
<1> QED
  BY <1>1, <1>2, <1>3, <1>4, <1>5, <1>6

(* A call ends: what is seen of it in r, which was q without it before.     *)
LEMMA SpinnersOver ==
    ASSUME ProfileInv, P!Loaded,
           NEW q \in Seq(ProfileCall), SameCalls(profile_calls, q), NEW i \in DOMAIN q,
           NEW r, r = P!RemoveAt(q, i), P!Finish(profile_calls[i].kind)
    PROVE  /\ OneOfEachKind(r)
           /\ profile_busy' = P!WithSpinner \cap KindsOf(r)
<1>1. OneOfEachKind(profile_calls) /\ profile_busy = P!WithSpinner \cap KindsOf(profile_calls)
  BY DEF ProfileInv, SpinnersFollow
<1>2. OneOfEachKind(q) /\ KindsOf(q) = KindsOf(profile_calls) /\ q[i].kind = profile_calls[i].kind
  BY <1>1, SameCallsSame DEF SameCalls
<1>3. OneOfEachKind(r) /\ P!WithSpinner \cap KindsOf(r) = (P!WithSpinner \cap KindsOf(q)) \ {q[i].kind}
  BY <1>2, KindsOver
<1>4. profile_busy' = profile_busy \ {q[i].kind}
  BY <1>2 DEF P!Finish
<1> QED
  BY <1>1, <1>2, <1>3, <1>4

(* refreshUser ends: when it was alone it brings the account.                *)
LEMMA UserRefreshedStep ==
    ASSUME ProfileInv, P!Loaded, NEW i \in DOMAIN profile_calls, P!UserRefreshed(i)
    PROVE  ProfileInv'
<1> DEFINE q == profile_calls
           s == [j \in DOMAIN q |-> IF q[j].stage = "refresh" /\ j # i THEN [q[j] EXCEPT !.overtaken = TRUE] ELSE q[j]]
           r == profile_calls'
<1>1. /\ q \in Seq(ProfileCall) /\ RefreshFollows(q, profile_account) /\ OneOfEachKind(q) /\ i \in DOMAIN q
  BY DEF ProfileInv, ProfileTypes
<1>2. /\ q[i].stage = "refresh"
      /\ \E a \in q[i].seen : profile_user' = a
      /\ profile_behind' = (q[i].misses \/ q[i].overtaken)
      /\ P!Finish(q[i].kind)
      /\ r = P!RemoveAt(s, i)
      /\ UNCHANGED <<profile_account, profile_changes, profile_first, profile_last, profile_passwords,
                     profile_deleteModalOpen, profile_edited>>
  BY DEF P!UserRefreshed, P!Received, P!form
<1>3. q[i] \in ProfileCall
  BY <1>1
<1>4. /\ SameCalls(q, s)
      /\ \A j \in DOMAIN q : q[j].stage = "refresh" /\ j # i => s[j].overtaken
  BY <1>1, OvertakingIs
<1> HIDE DEF q, s, r
<1>5. s \in Seq(ProfileCall) /\ DOMAIN s = DOMAIN q
      /\ (\A j \in DOMAIN q : s[j].kind = q[j].kind /\ s[j].stage = q[j].stage)
  BY <1>4 DEF SameCalls
<1>6. r \in Seq(ProfileCall) /\ \A k \in DOMAIN r : Up(i, k) \in DOMAIN s /\ Up(i, k) # i /\ r[k] = s[Up(i, k)]
  BY <1>1, <1>2, <1>5, ProfileOver
<1>7. \A j \in DOMAIN s : j # i => \E k \in DOMAIN r : Up(i, k) = j
  BY <1>1, <1>2, <1>5, ProfileOver
<1>8. profile_user' \in P!Accounts /\ (P!Loaded)'
  <2>1. profile_user' \in P!Accounts
    BY <1>2, <1>3 DEF ProfileCall
  <2> QED
    BY <2>1, ProfileConstants DEF P!Loaded
<1>9. RefreshFollows(r, profile_account)
  BY <1>4, <1>5, <1>6 DEF RefreshFollows
<1>10. ASSUME ~profile_behind', ~Fetching(r) PROVE profile_user' = profile_account
  <2>1. ~q[i].misses /\ ~q[i].overtaken
    <3>1. PICK m \in BOOLEAN, o \in BOOLEAN : q[i].misses = m /\ q[i].overtaken = o
      BY <1>3 DEF ProfileCall
    <3>2. profile_behind' = (m \/ o)
      BY <1>2, <3>1
    <3> QED
      BY <1>10, <3>1, <3>2
  <2>2. ASSUME NEW j \in DOMAIN q PROVE ~ToFetch(q[j]) /\ (q[j].stage = "refresh" => j = i)
    <3>1. CASE j = i
      BY <1>2, <3>1 DEF ToFetch
    <3>2. CASE j # i
      <4>1. PICK k \in DOMAIN r : r[k] = s[j]
        BY <1>5, <1>6, <1>7, <3>2
      <4>2. ~ToFetch(s[j]) /\ s[j].stage # "refresh"
        BY <1>10, <4>1 DEF Fetching
      <4> QED
        BY <1>5, <4>2 DEF ToFetch
    <3> QED
      BY <3>1, <3>2
  <2>3. q[i].seen = {profile_account}
    BY <1>1, <1>2, <2>1, <2>2 DEF RefreshFollows
  <2> QED
    BY <1>2, <2>3
<1>11. OneOfEachKind(r) /\ profile_busy' = P!WithSpinner \cap KindsOf(r)
  BY <1>1, <1>2, <1>4, <1>5, SpinnersOver DEF q
<1>12. ASSUME ~profile_edited
       PROVE  NamesFollow(r, profile_first, profile_last, profile_account)
  <2>1. NamesFollow(q, profile_first, profile_last, profile_account)
    BY <1>12 DEF ProfileInv, FieldsFollow, q
  <2>2. NamesFollow(s, profile_first, profile_last, profile_account)
    BY <1>4, <2>1, SameCallsSame
  <2>3. s[i].stage # "sent"
    BY <1>1, <1>2, <1>5
  <2> QED
    BY <1>1, <1>2, <1>5, <2>2, <2>3, NamesOver
<1>13. profile_behind' \in BOOLEAN
  BY <1>2
<1>14. ProfileTypes'
  BY <1>2, <1>6, <1>8, <1>11, <1>13 DEF ProfileInv, ProfileTypes, r
<1> QED
  BY <1>2, <1>9, <1>10, <1>11, <1>12, <1>14 DEF ProfileInv, UserFollows, SpinnersFollow, FieldsFollow, r

(* A call that changes nothing in the account ends.                          *)
LEMMA AnsweredStep ==
    ASSUME ProfileInv, P!Loaded, NEW i \in DOMAIN profile_calls, P!Answered(i)
    PROVE  ProfileInv'
<1> DEFINE q == profile_calls
           r == profile_calls'
<1>1. /\ q \in Seq(ProfileCall) /\ RefreshFollows(q, profile_account) /\ OneOfEachKind(q) /\ i \in DOMAIN q
  BY DEF ProfileInv, ProfileTypes
<1>2. /\ q[i].stage = "done" /\ q[i].kind \in {"password", "export"}
      /\ P!Finish(q[i].kind)
      /\ r = P!RemoveAt(q, i)
      /\ profile_passwords' \in {"missing", profile_passwords}
      /\ UNCHANGED <<profile_account, profile_changes, profile_user, profile_first, profile_last,
                     profile_deleteModalOpen, profile_edited, profile_behind>>
  BY DEF P!Answered
<1> HIDE DEF q, r
<1>3. r \in Seq(ProfileCall)
  BY <1>1, <1>2, ProfileOver
<1>4. ~ToFetch(q[i]) /\ q[i].stage # "refresh" /\ q[i].kind # "save"
  BY <1>2 DEF ToFetch, P!Refreshing
<1>5. (Fetching(r) <=> Fetching(q)) /\ RefreshFollows(r, profile_account)
  BY <1>1, <1>2, <1>4, QuietlyOver
<1>6. SameCalls(q, q)
  BY <1>1 DEF SameCalls
<1>7. OneOfEachKind(r) /\ profile_busy' = P!WithSpinner \cap KindsOf(r)
  BY <1>1, <1>2, <1>6, SpinnersOver DEF q
<1>8. ASSUME ~profile_edited
      PROVE  NamesFollow(r, profile_first, profile_last, profile_account)
  <2>1. NamesFollow(q, profile_first, profile_last, profile_account)
    BY <1>8 DEF ProfileInv, FieldsFollow, q
  <2> QED
    BY <1>1, <1>2, <1>4, <2>1, NamesOver
<1>9. (P!Loaded)'
  BY <1>2 DEF P!Loaded
<1>10. ProfileTypes'
  <2>1. profile_passwords' \in P!Passwords
    BY <1>2 DEF ProfileInv, ProfileTypes, P!Passwords
  <2> QED
    BY <1>2, <1>3, <1>7, <1>9, <2>1 DEF ProfileInv, ProfileTypes, r
<1>11. UserFollows'
  BY <1>2, <1>5 DEF ProfileInv, UserFollows, P!Loaded, q, r
<1> QED
  BY <1>2, <1>5, <1>7, <1>8, <1>10, <1>11 DEF ProfileInv, SpinnersFollow, FieldsFollow, r

(* A call fails, perhaps after it was stored.                                *)
LEMMA RequestFailedStep ==
    ASSUME ProfileInv, P!Loaded, NEW i \in DOMAIN profile_calls, P!RequestFailed(i)
    PROVE  ProfileInv'
<1> DEFINE q == profile_calls
           lost == q[i].stage = "done" /\ q[i].kind \in P!Refreshing
           s == [j \in DOMAIN q |-> IF q[j].stage = "refresh" THEN [q[j] EXCEPT !.misses = @ \/ lost] ELSE q[j]]
           r == profile_calls'
<1>1. /\ q \in Seq(ProfileCall) /\ RefreshFollows(q, profile_account) /\ OneOfEachKind(q) /\ i \in DOMAIN q
  BY DEF ProfileInv, ProfileTypes
<1>2. /\ q[i].stage # "refresh"
      /\ P!Finish(q[i].kind)
      /\ r = P!RemoveAt(s, i)
      /\ profile_behind' = (profile_behind \/ lost)
      /\ profile_edited' = (profile_edited \/ q[i].kind = "save")
      /\ UNCHANGED <<profile_account, profile_changes, profile_user, profile_first, profile_last,
                     profile_passwords, profile_deleteModalOpen>>
  BY DEF P!RequestFailed
<1>3. lost \in BOOLEAN /\ (lost <=> ToFetch(q[i]))
  BY DEF ToFetch
<1> HIDE DEF lost
<1>4. /\ SameCalls(q, s)
      /\ \A j \in DOMAIN q : q[j].stage = "refresh" /\ lost => s[j].misses
      /\ \A a : ~lost /\ RefreshFollows(q, a) => RefreshFollows(s, a)
  BY <1>1, <1>3, MissingIs
<1> HIDE DEF q, s, r
<1>5. s \in Seq(ProfileCall) /\ DOMAIN s = DOMAIN q
      /\ (\A j \in DOMAIN q : s[j].kind = q[j].kind /\ s[j].stage = q[j].stage)
  BY <1>4 DEF SameCalls
<1>6. r \in Seq(ProfileCall) /\ \A k \in DOMAIN r : Up(i, k) \in DOMAIN s /\ r[k] = s[Up(i, k)]
  BY <1>1, <1>2, <1>5, ProfileOver
<1>7. OneOfEachKind(r) /\ profile_busy' = P!WithSpinner \cap KindsOf(r)
  BY <1>1, <1>2, <1>4, <1>5, SpinnersOver DEF q
<1>8. (P!Loaded)' <=> P!Loaded
  BY <1>2 DEF P!Loaded
<1>9. profile_behind' \in BOOLEAN /\ profile_edited' \in BOOLEAN
  BY <1>2
<1>10. ProfileTypes'
  BY <1>2, <1>6, <1>7, <1>8, <1>9 DEF ProfileInv, ProfileTypes, r
<1>11. RefreshFollows(r, profile_account) /\ UserFollows'
  <2>1. CASE lost
    <3>1. profile_behind'
      BY <1>2, <2>1
    <3>2. \A k \in DOMAIN r : r[k].stage = "refresh" => r[k].misses
      BY <1>4, <1>5, <1>6, <2>1
    <3>3. RefreshFollows(r, profile_account)
      BY <3>2 DEF RefreshFollows
    <3> QED
      BY <3>1, <3>3 DEF UserFollows
  <2>2. CASE ~lost
    <3>1. ~ToFetch(s[i]) /\ s[i].stage # "refresh"
      BY <1>1, <1>2, <1>3, <1>5, <2>2 DEF ToFetch
    <3>2. RefreshFollows(s, profile_account)
      BY <1>1, <1>4, <2>2
    <3>3. (Fetching(r) <=> Fetching(s)) /\ RefreshFollows(r, profile_account)
      BY <1>1, <1>2, <1>5, <3>1, <3>2, QuietlyOver
    <3>4. Fetching(s) <=> Fetching(q)
      BY <1>4, SameCallsSame
    <3>5. profile_behind' = profile_behind
      BY <1>2, <2>2 DEF ProfileInv, ProfileTypes
    <3> QED
      BY <1>2, <1>8, <3>3, <3>4, <3>5 DEF ProfileInv, UserFollows, q, r
  <2> QED
    BY <2>1, <2>2
<1>12. ASSUME ~profile_edited' PROVE NamesFollow(r, profile_first, profile_last, profile_account)
  <2>1. ~profile_edited /\ q[i].kind # "save"
    BY <1>2, <1>12
  <2>2. NamesFollow(q, profile_first, profile_last, profile_account)
    BY <2>1 DEF ProfileInv, FieldsFollow, q
  <2>3. NamesFollow(s, profile_first, profile_last, profile_account)
    BY <1>4, <2>2, SameCallsSame
  <2>4. s[i].kind # "save"
    BY <1>1, <1>5, <2>1
  <2> QED
    BY <1>1, <1>2, <1>5, <2>3, <2>4, NamesOver
<1> QED
  BY <1>2, <1>7, <1>10, <1>11, <1>12 DEF ProfileInv, SpinnersFollow, FieldsFollow, r

(* The handler goes on to refreshUser.                                       *)
LEMMA ThenRefreshStep ==
    ASSUME ProfileInv, P!Loaded, NEW i \in DOMAIN profile_calls, P!ThenRefresh(i)
    PROVE  ProfileInv'
<1> DEFINE q == profile_calls
           r == profile_calls'
<1>1. /\ q \in Seq(ProfileCall) /\ OneOfEachKind(q) /\ i \in DOMAIN q /\ profile_account \in P!Accounts
  BY DEF ProfileInv, ProfileTypes
<1>2. /\ q[i].stage = "done"
      /\ r = FetchedFor(q, i, profile_account)
      /\ UNCHANGED <<profile_account, profile_changes, profile_user, profile_first, profile_last,
                     profile_passwords, profile_deleteModalOpen, profile_edited, profile_busy, profile_behind>>
  BY DEF P!ThenRefresh, P!form, Fetched, FetchedFor
<1> HIDE DEF q, r
<1>3. /\ r \in Seq(ProfileCall) /\ DOMAIN r = DOMAIN q
      /\ KindsOf(r) = KindsOf(q)
      /\ OneOfEachKind(q) => OneOfEachKind(r)
      /\ Fetching(r)
      /\ RefreshFollows(r, profile_account)
      /\ \A f, l, b : NamesFollow(q, f, l, b) => NamesFollow(r, f, l, b)
  BY <1>1, <1>2, FetchIs
<1>4. (P!Loaded)'
  BY <1>2 DEF P!Loaded
<1>5. ProfileTypes'
  BY <1>2, <1>3, <1>4 DEF ProfileInv, ProfileTypes, r
<1>6. UserFollows'
  BY <1>3 DEF UserFollows, r
<1>7. SpinnersFollow' /\ FieldsFollow'
  BY <1>2, <1>3 DEF ProfileInv, SpinnersFollow, FieldsFollow, q, r
<1> QED
  BY <1>1, <1>2, <1>3, <1>5, <1>6, <1>7 DEF ProfileInv, r

(* What the server stores for a call: an account, the same one unless the   *)
(* page refreshes its user afterwards, and the names that were sent.        *)
LEMMA AfterIs ==
    ASSUME ProfileInv, NEW c \in ProfileCall, P!Accepts(c)
    PROVE  /\ P!After(c) \in P!Accounts
           /\ c.kind \notin P!Refreshing => P!After(c) = profile_account
           /\ c.kind # "save" => P!After(c).first = profile_account.first /\ P!After(c).last = profile_account.last
           /\ c.kind = "save" => P!After(c).first = c.arg.first /\ c.arg.last \in {P!After(c).last, NoName}
<1>1. profile_account \in P!Accounts /\ profile_changes \in 0..ProfileChanges /\ ProfileChanges \in Nat
  BY ProfileConstants DEF ProfileInv, ProfileTypes
<1>2. profile_changes + 1 \in P!Photos /\ 0 \in P!Photos
  BY <1>1 DEF P!Photos
<1>3. CASE c.kind = "save"
  <2>1. c.arg \in NameFields /\ c.arg.first \in Users /\ c.arg.last \in Users \cup {NoName}
    BY <1>3 DEF ProfileCall, P!Accepts
  <2>2. P!After(c) = [profile_account EXCEPT !.first = c.arg.first,
                                             !.last = IF c.arg.last = NoName THEN @ ELSE c.arg.last]
    BY <1>3 DEF P!After
  <2> QED
    BY <1>1, <1>3, <2>1, <2>2 DEF P!Accounts, P!Refreshing
<1>4. CASE c.kind = "upload"
  <2>1. P!After(c) = [profile_account EXCEPT !.photo = profile_changes + 1]
    BY <1>4 DEF P!After
  <2> QED
    BY <1>1, <1>2, <1>4, <2>1 DEF P!Accounts, P!Refreshing
<1>5. CASE c.kind = "delete_photo"
  <2>1. P!After(c) = [profile_account EXCEPT !.photo = 0]
    BY <1>5 DEF P!After
  <2> QED
    BY <1>1, <1>2, <1>5, <2>1 DEF P!Accounts, P!Refreshing
<1>6. CASE c.kind \notin {"save", "upload", "delete_photo"}
  <2>1. P!After(c) = profile_account
    BY <1>6 DEF P!After
  <2> QED
    BY <1>1, <1>6, <2>1
<1> QED
  BY <1>3, <1>4, <1>5, <1>6

(* The server stores what a call of the page says.                           *)
LEMMA ServerAcceptsStep ==
    ASSUME ProfileInv, P!Loaded, NEW i \in DOMAIN profile_calls, P!ServerAccepts(i)
    PROVE  ProfileInv'
<1> DEFINE q == profile_calls
           s == AcceptedAt(q, i)
           r == profile_calls'
           c == q[i]
           b == P!After(c)
<1>1. /\ q \in Seq(ProfileCall) /\ RefreshFollows(q, profile_account) /\ OneOfEachKind(q) /\ i \in DOMAIN q
      /\ profile_account \in P!Accounts /\ c \in ProfileCall
  BY DEF ProfileInv, ProfileTypes
<1>2. /\ c.stage = "sent" /\ P!Accepts(c)
      /\ UNCHANGED <<profile_user, profile_first, profile_last, profile_passwords,
                     profile_deleteModalOpen, profile_edited, profile_busy, profile_ended>>
  BY DEF P!ServerAccepts, P!form
<1>3. /\ b \in P!Accounts
      /\ c.kind \notin P!Refreshing => b = profile_account
      /\ c.kind # "save" => b.first = profile_account.first /\ b.last = profile_account.last
      /\ c.kind = "save" => b.first = c.arg.first /\ c.arg.last \in {b.last, NoName}
  BY <1>1, <1>2, AfterIs
<1>4. /\ profile_account' = b /\ profile_behind' = profile_behind
      /\ profile_changes' \in 0..ProfileChanges
      /\ \/ b = profile_account /\ r = s
         \/ b # profile_account /\ r = P!Seeing(s, b, FALSE)
  <2>1. profile_changes \in 0..ProfileChanges /\ ProfileChanges \in Nat /\ profile_behind \in BOOLEAN
    BY ProfileConstants DEF ProfileInv, ProfileTypes
  <2>2. CASE b # profile_account
    <3>1. P!Change(b, FALSE) /\ r = P!Seeing(s, b, FALSE)
      BY <2>2 DEF P!ServerAccepts, AcceptedAt
    <3>2. profile_account' = b /\ profile_behind' = profile_behind /\ profile_changes' \in 0..ProfileChanges
      BY <2>1, <3>1 DEF P!Change
    <3> QED
      BY <2>2, <3>1, <3>2, Zenon
  <2>3. CASE b = profile_account
    <3>1. r = s /\ UNCHANGED <<profile_account, profile_changes, profile_behind>>
      BY <2>3 DEF P!ServerAccepts, AcceptedAt
    <3> QED
      BY <2>1, <2>3, <3>1
  <2> QED
    BY <2>2, <2>3
<1> HIDE DEF q, s, r, b, c
<1>5. c = q[i]
  BY DEF c
<1>6. /\ s \in Seq(ProfileCall) /\ DOMAIN s = DOMAIN q
      /\ KindsOf(s) = KindsOf(q)
      /\ OneOfEachKind(s)
      /\ q[i].kind \in P!Refreshing => ToFetch(s[i])
      /\ q[i].kind \notin P!Refreshing => (Fetching(s) <=> Fetching(q))
      /\ q[i].kind \notin P!Refreshing => RefreshFollows(s, profile_account)
      /\ \A f, l, a : q[i].kind # "save" /\ NamesFollow(q, f, l, a) => NamesFollow(s, f, l, a)
      /\ q[i].kind = "save" => ~Saving(s)
  <2>1. s = AcceptedAt(q, i) /\ q[i].stage = "sent"
    BY <1>2, <1>5 DEF s
  <2> QED
    BY <1>1, <2>1, AcceptedIs
<1>7. SameCalls(s, r)
  <2>1. CASE r = s
    BY <1>6, <2>1 DEF SameCalls
  <2>2. CASE r = P!Seeing(s, b, FALSE)
    BY <1>3, <1>6, <2>2, SeeingIs
  <2> QED
    BY <1>4, <2>1, <2>2
<1>8. /\ KindsOf(r) = KindsOf(q) /\ OneOfEachKind(r) /\ (Fetching(r) <=> Fetching(s)) /\ (Saving(r) <=> Saving(s))
      /\ \A f, l, a : NamesFollow(s, f, l, a) => NamesFollow(r, f, l, a)
  BY <1>6, <1>7, SameCallsSame
<1>9. (P!Loaded)'
  BY <1>2 DEF P!Loaded
<1>10. r \in Seq(ProfileCall)
  BY <1>7 DEF SameCalls
<1>11. ProfileTypes'
  BY <1>2, <1>3, <1>4, <1>9, <1>10 DEF ProfileInv, ProfileTypes, r
<1>12. RefreshFollows(r, b) /\ UserFollows'
  <2>1. CASE c.kind \in P!Refreshing
    <3>1. i \in DOMAIN s /\ ToFetch(s[i])
      BY <1>1, <1>5, <1>6, <2>1
    <3>2. RefreshFollows(r, b) /\ Fetching(r)
      BY <1>7, <3>1, FollowedIs
    <3> QED
      BY <3>2 DEF UserFollows, r
  <2>2. CASE c.kind \notin P!Refreshing
    <3>1. b = profile_account
      BY <1>3, <2>2
    <3>2. RefreshFollows(s, b)
      BY <1>5, <1>6, <2>2, <3>1
    <3>3. RefreshFollows(r, b)
      BY <1>4, <3>1, <3>2
    <3>4. UserFollows'
      BY <1>2, <1>4, <1>5, <1>6, <1>8, <2>2, <3>1 DEF ProfileInv, UserFollows, P!Loaded, q, r
    <3> QED
      BY <3>3, <3>4
  <2> QED
    BY <2>1, <2>2
<1>13. ASSUME ~profile_edited PROVE NamesFollow(r, profile_first, profile_last, b)
  <2>1. NamesFollow(q, profile_first, profile_last, profile_account)
    BY <1>13 DEF ProfileInv, FieldsFollow, q
  <2>2. CASE c.kind = "save"
    <3>1. c.arg = [first |-> profile_first, last |-> profile_last]
      BY <1>1, <1>2, <1>5, <2>1, <2>2 DEF NamesFollow
    <3>2. profile_first = b.first /\ (profile_last = b.last \/ profile_last = NoName)
      BY <1>3, <2>2, <3>1
    <3>3. ~Saving(r)
      BY <1>5, <1>6, <1>8, <2>2
    <3> QED
      BY <3>2, <3>3 DEF NamesFollow, Saving
  <2>3. CASE c.kind # "save"
    <3>1. NamesFollow(r, profile_first, profile_last, profile_account)
      BY <1>5, <1>6, <1>8, <2>1, <2>3
    <3> QED
      BY <1>3, <2>3, <3>1, NamesSame
  <2> QED
    BY <2>2, <2>3
<1>14. SpinnersFollow' /\ FieldsFollow'
  BY <1>2, <1>4, <1>8, <1>13 DEF ProfileInv, SpinnersFollow, FieldsFollow, P!Loaded, q, r
<1> QED
  BY <1>4, <1>8, <1>11, <1>12, <1>14 DEF ProfileInv, r

(* Another tab stores something.                                             *)
LEMMA OthersChangeStep == ASSUME ProfileInv, P!OthersChange PROVE ProfileInv'
<1> DEFINE q == profile_calls
           r == profile_calls'
<1>1. /\ q \in Seq(ProfileCall) /\ OneOfEachKind(q)
      /\ profile_account \in P!Accounts /\ profile_changes \in 0..ProfileChanges /\ ProfileChanges \in Nat
      /\ profile_behind \in BOOLEAN /\ profile_edited \in BOOLEAN
  BY ProfileConstants DEF ProfileInv, ProfileTypes
<1>2. PICK a \in {[profile_account EXCEPT !.first = n] : n \in Users}
                 \cup {[profile_account EXCEPT !.photo = p] : p \in {0, profile_changes + 1}} :
        /\ P!Change(a, P!Loaded)
        /\ r = P!Seeing(q, a, TRUE)
        /\ profile_edited' = (profile_edited \/ (P!Loaded /\ a.first # profile_account.first))
  BY DEF P!OthersChange
<1>3. UNCHANGED <<profile_user, profile_first, profile_last, profile_passwords, profile_deleteModalOpen, profile_busy>>
  BY DEF P!OthersChange
<1>4. a \in P!Accounts /\ a.last = profile_account.last
  <2>1. profile_changes + 1 \in P!Photos /\ 0 \in P!Photos
    BY <1>1 DEF P!Photos
  <2>2. CASE \E n \in Users : a = [profile_account EXCEPT !.first = n]
    BY <1>1, <2>2 DEF P!Accounts
  <2>3. CASE \E p \in {0, profile_changes + 1} : a = [profile_account EXCEPT !.photo = p]
    BY <1>1, <2>1, <2>3 DEF P!Accounts
  <2> QED
    BY <1>2, <2>2, <2>3
<1>5. profile_account' = a /\ profile_changes' \in 0..ProfileChanges
  BY <1>1, <1>2 DEF P!Change
<1>6. profile_behind' = (profile_behind \/ P!Loaded)
  BY <1>2 DEF P!Change
<1> HIDE DEF q, r
<1>7. SameCalls(q, r) /\ \A i \in DOMAIN q : q[i].stage = "refresh" => r[i].misses
  BY <1>1, <1>2, <1>4, SeeingIs
<1>8. /\ KindsOf(r) = KindsOf(q) /\ OneOfEachKind(r)
      /\ \A f, l, b : NamesFollow(q, f, l, b) => NamesFollow(r, f, l, b)
  BY <1>1, <1>7, SameCallsSame
<1>9. (P!Loaded)' <=> P!Loaded
  BY <1>3 DEF P!Loaded
<1>10. RefreshFollows(r, a)
  <2>1. \A i \in DOMAIN r : r[i].stage = "refresh" => r[i].misses
    BY <1>7 DEF SameCalls
  <2> QED
    BY <2>1 DEF RefreshFollows
<1>11. r \in Seq(ProfileCall) /\ DOMAIN r = DOMAIN q
  BY <1>7 DEF SameCalls
<1>12. ProfileTypes'
  <2>1. profile_behind' \in BOOLEAN /\ profile_edited' \in BOOLEAN
    <3>1. profile_behind' \in BOOLEAN
      BY <1>6, Zenon
    <3>2. profile_edited' \in BOOLEAN
      BY <1>2, Zenon
    <3> QED
      BY <3>1, <3>2
  <2>2. profile_calls' # <<>> => (P!Loaded)'
    <3>1. r # <<>> => q # <<>>
      BY <1>1, <1>11
    <3> QED
      BY <1>9, <3>1 DEF ProfileInv, ProfileTypes, q, r
  <2> QED
    BY <1>3, <1>4, <1>5, <1>11, <2>1, <2>2 DEF ProfileInv, ProfileTypes, r
<1>13. UserFollows'
  <2>1. P!Loaded => profile_behind'
    BY <1>6
  <2> QED
    BY <1>9, <2>1 DEF UserFollows
<1>14. SpinnersFollow'
  BY <1>3, <1>8, <1>9 DEF ProfileInv, SpinnersFollow, q, r
<1>15. ASSUME P!Loaded, ~profile_edited' PROVE NamesFollow(r, profile_first, profile_last, a)
  <2>1. ~profile_edited /\ a.first = profile_account.first
    BY <1>2, <1>15
  <2>2. NamesFollow(q, profile_first, profile_last, profile_account)
    BY <1>15, <2>1 DEF ProfileInv, FieldsFollow, q
  <2>3. NamesFollow(r, profile_first, profile_last, profile_account)
    BY <1>8, <2>2
  <2> QED
    BY <1>4, <2>1, <2>3, NamesSame
<1>16. FieldsFollow'
  BY <1>3, <1>5, <1>9, <1>15 DEF FieldsFollow, r
<1> QED
  BY <1>5, <1>8, <1>10, <1>12, <1>13, <1>14, <1>16 DEF ProfileInv, r

(* The page starts closed.                                                   *)
LEMMA ProfileStarts == P!Init => ProfileInv
<1> SUFFICES ASSUME P!Init PROVE ProfileInv
  OBVIOUS
<1>1. /\ profile_account \in P!Accounts /\ profile_changes = 1
      /\ profile_user = Nothing /\ profile_first = NoName /\ profile_last = NoName
      /\ profile_passwords = "missing" /\ profile_busy = {} /\ profile_calls = <<>>
  BY DEF P!Init
<1>2. profile_deleteModalOpen \in BOOLEAN /\ profile_behind \in BOOLEAN /\ profile_edited \in BOOLEAN
  BY Zenon DEF P!Init
<1>3. ~P!Loaded
  BY <1>1 DEF P!Loaded
<1>4. ProfileTypes
  <2>1. profile_passwords \in P!Passwords /\ NoName \in P!Fields /\ 1 \in 0..ProfileChanges
    BY <1>1, ProfileConstants DEF P!Passwords, P!Fields
  <2>2. profile_calls \in Seq(ProfileCall) /\ profile_busy \subseteq P!WithSpinner
    BY <1>1
  <2> QED
    BY <1>1, <1>2, <2>1, <2>2 DEF ProfileTypes
<1>5. RefreshFollows(profile_calls, profile_account) /\ OneOfEachKind(profile_calls)
  BY <1>1 DEF RefreshFollows, OneOfEachKind
<1> QED
  BY <1>3, <1>4, <1>5 DEF ProfileInv, UserFollows, SpinnersFollow, FieldsFollow

(* Every action keeps ProfileInv.                                            *)
LEMMA ProfileStep == ProfileInv /\ [P!Next]_profileVars => ProfileInv'
<1> SUFFICES ASSUME ProfileInv, [P!Next]_profileVars PROVE ProfileInv'
  OBVIOUS
<1>1. CASE P!UserActs
  <2>1. CASE P!Leave
    BY <2>1, GoneStep DEF P!Leave
  <2> QED
    BY <1>1, <2>1, MountStep, TypingStep, HandlersStep DEF P!UserActs
<1>2. CASE P!OthersChange
  BY <1>2, OthersChangeStep
<1>3. ASSUME NEW i \in DOMAIN profile_calls, P!CallProceeds(i) PROVE ProfileInv'
  <2>1. P!Loaded
    BY DEF ProfileInv, ProfileTypes
  <2>2. CASE P!RefreshFailed(i)
    BY <2>2, GoneStep DEF P!RefreshFailed
  <2>3. CASE P!AccountDeleted(i)
    BY <2>3, GoneStep DEF P!AccountDeleted
  <2>4. CASE P!Unauthorized(i)
    BY <2>4, GoneStep DEF P!Unauthorized
  <2> QED
    BY <1>3, <2>1, <2>2, <2>3, <2>4, ServerAcceptsStep, ThenRefreshStep, UserRefreshedStep,
       AnsweredStep, RequestFailedStep DEF P!CallProceeds
<1>4. CASE UNCHANGED profileVars
  BY <1>4 DEF profileVars, ProfileInv, ProfileTypes, P!Loaded, UserFollows, SpinnersFollow, FieldsFollow
<1> QED
  BY <1>1, <1>2, <1>3, <1>4 DEF P!Next

(* ProfileInv implies the properties.                                        *)
LEMMA ProfileGives == ProfileInv => P!TypeOK /\ ProfileIsFresh /\ SavedNamesShown /\ P!SpinnersEnd
<1> SUFFICES ASSUME ProfileInv PROVE P!TypeOK /\ ProfileIsFresh /\ SavedNamesShown /\ P!SpinnersEnd
  OBVIOUS
<1>1. P!TypeOK
  <2>1. \A i \in DOMAIN profile_calls : profile_calls[i].kind \in P!Kinds /\ profile_calls[i].seen \subseteq P!Accounts
    <3>1. ASSUME NEW i \in DOMAIN profile_calls PROVE profile_calls[i] \in ProfileCall
      BY DEF ProfileInv, ProfileTypes
    <3> QED
      BY <3>1 DEF ProfileCall
  <2>2. {profile_deleteModalOpen, profile_behind, profile_edited} \subseteq BOOLEAN
    BY Zenon DEF ProfileInv, ProfileTypes
  <2> QED
    BY <2>1, <2>2 DEF P!TypeOK, ProfileInv, ProfileTypes
<1>2. ASSUME P!Settled PROVE ~Fetching(profile_calls) /\ ~Saving(profile_calls) /\ P!Loaded
  BY <1>2 DEF P!Settled, Fetching, Saving
<1>3. ProfileIsFresh
  BY <1>2 DEF ProfileIsFresh, P!ProfileIsFresh, ProfileInv, UserFollows
<1>4. SavedNamesShown
  BY <1>2 DEF SavedNamesShown, P!SavedNamesShown, ProfileInv, FieldsFollow, NamesFollow
<1>5. P!SpinnersEnd
  BY DEF P!SpinnersEnd, ProfileInv, SpinnersFollow, KindsOf
<1> QED
  BY <1>1, <1>3, <1>4, <1>5

(* pages/Profile.tsx: the settled page shows the account as it is stored,   *)
(* unless another tab changed it or an answer was lost.                     *)
THEOREM ProfileCorrect == P!Spec => []ProfileIsFresh
<1>1. ProfileInv => ProfileIsFresh
  BY ProfileGives
<1>2. ProfileInv /\ [P!Next]_(P!vars) => ProfileInv'
  BY ProfileStep DEF P!vars, P!form, profileVars
<1> QED
  BY <1>1, <1>2, ProfileStarts, PTL DEF P!Spec

(* pages/Profile.tsx: the names in the fields that nobody edited since they *)
(* were saved are those of the account, but for an emptied last name.       *)
THEOREM SavedNamesCorrect == P!Spec => []SavedNamesShown
<1>1. ProfileInv => SavedNamesShown
  BY ProfileGives
<1>2. ProfileInv /\ [P!Next]_(P!vars) => ProfileInv'
  BY ProfileStep DEF P!vars, P!form, profileVars
<1> QED
  BY <1>1, <1>2, ProfileStarts, PTL DEF P!Spec

-------------------------------------------------------------------------------
(* The photo.                                                               *)

(* What is assumed of the photos.                                           *)
LEMMA PhotosConstants ==
    0 \notin PhotoRequests /\ {Nothing, Nobody} \cap S!Keys = {} /\ Nothing # Nobody
  BY AccountAssumption DEF S!ConstantsOK

(* A key is new to the row and to all who have read the row until the        *)
(* handler that drew it is done, and its object is stored before.            *)
PhotoKeysAreNew ==
    /\ photos_photo_url \in PhotoRequests => photos_pc[photos_photo_url] = "done"
    /\ \A r \in PhotoRequests : photos_key[r] \in PhotoRequests => photos_pc[photos_key[r]] = "done"
    /\ \A r \in PhotoRequests : photos_pc[r] = "uploaded" => r \in photos_bucket

(* Whoever has deleted the object in the row is going to write the row, or   *)
(* has ended before it could.                                                *)
ReplacesPhoto(r) ==
    photos_pc[r] \in {"deleted", "uploaded", "failed"} /\ photos_key[r] = photos_photo_url

PhotoCovered ==
    photos_photo_url \in S!Keys =>
        photos_photo_url \in photos_bucket \/ \E r \in PhotoRequests : ReplacesPhoto(r)

(* What stays in the storage although no row names it.                       *)
LostPhotos == photos_kept \cup {r \in PhotoRequests : photos_pc[r] = "failed"}

(* What a handler that runs alone finds at each stage.                       *)
PhotoStored(r) ==
    /\ photos_key[r] = photos_photo_url /\ photos_photo_url # Nobody
    /\ photos_pc[r] = "read"     => photos_bucket \ {photos_photo_url} \subseteq LostPhotos
    /\ photos_pc[r] = "deleted"  => photos_bucket \subseteq LostPhotos
    /\ photos_pc[r] = "uploaded" => photos_bucket \ {r} \subseteq LostPhotos

HandlerAlone(r) == \A q \in PhotoRequests \ {r} : ~S!Running(q)

PhotosSerial ==
    ~photos_overlapped =>
        /\ S!Idle => photos_bucket \ {photos_photo_url} \subseteq LostPhotos
        /\ \A r \in PhotoRequests : S!Running(r) => HandlerAlone(r) /\ PhotoStored(r)

UploadsUpload == \A r \in PhotoRequests : photos_pc[r] = "uploaded" => photos_kind[r] = "upload"

PhotosInv == S!TypeOK /\ UploadsUpload /\ PhotoKeysAreNew /\ PhotoCovered /\ PhotosSerial

-------------------------------------------------------------------------------

(* No handler runs, and the bucket holds the photo if there is one.          *)
LEMMA PhotosInit == ASSUME S!Init PROVE PhotosInv
<1> USE PhotosConstants DEF S!Init, S!Keys
<1>1. S!TypeOK /\ UploadsUpload /\ PhotoKeysAreNew
  BY DEF S!TypeOK, UploadsUpload, PhotoKeysAreNew, S!Stages
<1>2. PhotoCovered
  BY DEF PhotoCovered
<1>3. PhotosSerial
  BY DEF PhotosSerial, S!Running
<1> QED
  BY <1>1, <1>2, <1>3 DEF PhotosInv

(* get_current_user.                                                        *)
LEMMA PhotoBeginStep ==
    ASSUME PhotosInv, NEW r \in PhotoRequests, NEW k \in {"upload", "delete", "erase"},
           S!Begin(r, k)
    PROVE  PhotosInv'
<1> USE PhotosConstants DEF S!Keys, PhotosInv
<1>1. S!TypeOK'
  BY DEF S!TypeOK, S!Begin, S!Stages
<1>2. /\ photos_pc'[r] \in {"read", "done"} /\ photos_pc[r] = "new"
      /\ \A q \in PhotoRequests \ {r} :
            photos_pc'[q] = photos_pc[q] /\ photos_kind'[q] = photos_kind[q] /\ photos_key'[q] = photos_key[q]
      /\ photos_key'[r] = photos_photo_url /\ photos_kind'[r] = k /\ photos_photo_url # Nobody
      /\ UNCHANGED <<photos_photo_url, photos_bucket, photos_kept>>
  BY DEF S!Begin, S!TypeOK
<1>3. UploadsUpload' /\ PhotoKeysAreNew'
  BY <1>2 DEF UploadsUpload, PhotoKeysAreNew
<1>4. PhotoCovered'
  BY <1>2 DEF PhotoCovered, ReplacesPhoto
<1>5. PhotosSerial'
  <2> SUFFICES ASSUME ~photos_overlapped'
               PROVE  /\ S!Idle' => photos_bucket' \ {photos_photo_url'} \subseteq LostPhotos'
                      /\ \A q \in PhotoRequests : S!Running(q)' => HandlerAlone(q)' /\ PhotoStored(q)'
    BY DEF PhotosSerial
  <2>1. S!Idle /\ photos_bucket \ {photos_photo_url} \subseteq LostPhotos
    <3>1. photos_overlapped' = (photos_overlapped \/ ~S!Idle)
      BY DEF S!Begin
    <3>2. S!Idle /\ ~photos_overlapped
      BY <3>1, Zenon DEF S!TypeOK
    <3> QED
      BY <3>2 DEF PhotosSerial
  <2>2. photos_bucket' \ {photos_photo_url'} \subseteq LostPhotos'
    BY <1>2, <2>1 DEF LostPhotos
  <2>3. \A q \in PhotoRequests \ {r} : ~S!Running(q)'
    BY <1>2, <2>1 DEF S!Idle, S!Running
  <2>4. S!Running(r)' => PhotoStored(r)'
    BY <1>2, <2>2 DEF PhotoStored, S!Running
  <2> QED
    BY <2>2, <2>3, <2>4 DEF HandlerAlone
<1> QED
  BY <1>1, <1>3, <1>4, <1>5

(* storage_service.delete, which may fail.                                  *)
LEMMA PhotoDeleteOldStep ==
    ASSUME PhotosInv, NEW r \in PhotoRequests, S!DeleteOld(r)
    PROVE  PhotosInv'
<1> USE PhotosConstants DEF S!Keys, PhotosInv
<1>1. S!TypeOK'
  BY DEF S!TypeOK, S!DeleteOld, S!Stages
<1>2. /\ photos_pc[r] = "read" /\ photos_pc'[r] = "deleted"
      /\ \A q \in PhotoRequests \ {r} : photos_pc'[q] = photos_pc[q]
      /\ UNCHANGED <<photos_photo_url, photos_kind, photos_key, photos_overlapped>>
      /\ photos_bucket \ {photos_key[r]} \subseteq photos_bucket' /\ photos_bucket' \subseteq photos_bucket
      /\ photos_kept \subseteq photos_kept'
      /\ photos_bucket' \cap {photos_key[r]} \subseteq photos_kept'
  BY DEF S!DeleteOld, S!TypeOK
<1>3. UploadsUpload'
  BY <1>2 DEF UploadsUpload
<1>4. PhotoKeysAreNew'
  BY <1>2 DEF PhotoKeysAreNew
<1>5. PhotoCovered'
  <2> SUFFICES ASSUME photos_photo_url \in S!Keys
               PROVE  photos_photo_url \in photos_bucket' \/ \E q \in PhotoRequests : ReplacesPhoto(q)'
    BY <1>2 DEF PhotoCovered
  <2>1. CASE photos_key[r] = photos_photo_url
    BY <1>2, <2>1 DEF ReplacesPhoto
  <2>2. CASE photos_key[r] # photos_photo_url
    BY <1>2, <2>2 DEF PhotoCovered, ReplacesPhoto
  <2> QED
    BY <2>1, <2>2
<1>6. PhotosSerial'
  <2> SUFFICES ASSUME ~photos_overlapped'
               PROVE  /\ S!Idle' => photos_bucket' \ {photos_photo_url'} \subseteq LostPhotos'
                      /\ \A q \in PhotoRequests : S!Running(q)' => HandlerAlone(q)' /\ PhotoStored(q)'
    BY DEF PhotosSerial
  <2>1. HandlerAlone(r) /\ PhotoStored(r)
    BY <1>2 DEF PhotosSerial, S!Running
  <2>2. \A q \in PhotoRequests \ {r} : ~S!Running(q)'
    BY <1>2, <2>1 DEF HandlerAlone, S!Running
  <2>3. S!Running(r)' /\ ~S!Idle'
    BY <1>2 DEF S!Running, S!Idle
  <2>4. PhotoStored(r)'
    <3>1. /\ photos_bucket \ {photos_photo_url} \subseteq LostPhotos
          /\ photos_key[r] = photos_photo_url /\ photos_photo_url # Nobody
      BY <1>2, <2>1 DEF PhotoStored
    <3>2. photos_bucket' \subseteq LostPhotos'
      BY <1>2, <3>1 DEF LostPhotos
    <3> QED
      BY <1>2, <3>1, <3>2 DEF PhotoStored
  <2> QED
    BY <2>2, <2>3, <2>4 DEF HandlerAlone
<1> QED
  BY <1>1, <1>3, <1>4, <1>5, <1>6

(* storage_service.upload.                                                  *)
LEMMA PhotoUploadStep ==
    ASSUME PhotosInv, NEW r \in PhotoRequests, S!Upload(r)
    PROVE  PhotosInv'
<1> USE PhotosConstants DEF S!Keys, PhotosInv
<1>1. S!TypeOK'
  BY DEF S!TypeOK, S!Upload, S!Stages
<1>2. /\ photos_pc[r] = "deleted" /\ photos_pc'[r] = "uploaded" /\ photos_kind[r] = "upload"
      /\ \A q \in PhotoRequests \ {r} : photos_pc'[q] = photos_pc[q]
      /\ UNCHANGED <<photos_photo_url, photos_kind, photos_key, photos_overlapped, photos_kept>>
      /\ photos_bucket' = photos_bucket \cup {r}
  BY DEF S!Upload, S!TypeOK
<1>3. UploadsUpload'
  BY <1>2 DEF UploadsUpload
<1>4. PhotoKeysAreNew'
  BY <1>2 DEF PhotoKeysAreNew
<1>5. PhotoCovered'
  BY <1>2 DEF PhotoCovered, ReplacesPhoto
<1>6. PhotosSerial'
  <2> SUFFICES ASSUME ~photos_overlapped'
               PROVE  /\ S!Idle' => photos_bucket' \ {photos_photo_url'} \subseteq LostPhotos'
                      /\ \A q \in PhotoRequests : S!Running(q)' => HandlerAlone(q)' /\ PhotoStored(q)'
    BY DEF PhotosSerial
  <2>1. HandlerAlone(r) /\ PhotoStored(r)
    BY <1>2 DEF PhotosSerial, S!Running
  <2>2. \A q \in PhotoRequests \ {r} : ~S!Running(q)'
    BY <1>2, <2>1 DEF HandlerAlone, S!Running
  <2>3. S!Running(r)' /\ ~S!Idle'
    BY <1>2 DEF S!Running, S!Idle
  <2>4. PhotoStored(r)'
    <3>1. photos_bucket \subseteq LostPhotos /\ photos_key[r] = photos_photo_url /\ photos_photo_url # Nobody
      BY <1>2, <2>1 DEF PhotoStored
    <3>2. photos_bucket' \ {r} \subseteq LostPhotos'
      BY <1>2, <3>1 DEF LostPhotos
    <3> QED
      BY <1>2, <3>1, <3>2 DEF PhotoStored
  <2> QED
    BY <2>2, <2>3, <2>4 DEF HandlerAlone
<1> QED
  BY <1>1, <1>3, <1>4, <1>5, <1>6

(* A handler that ends, whether or not it got to write the row: what it      *)
(* leaves is the photo in the row or among those that are lost.              *)
LEMMA PhotoEnds ==
    ASSUME PhotosInv, S!TypeOK', NEW r \in PhotoRequests,
           S!Running(r), photos_pc'[r] \in {"done", "failed"},
           \A q \in PhotoRequests \ {r} : photos_pc'[q] = photos_pc[q],
           UNCHANGED <<photos_kind, photos_key, photos_overlapped, photos_kept>>,
           photos_bucket \subseteq photos_bucket', photos_bucket' \subseteq photos_bucket \cup {r},
           \/ /\ photos_photo_url' = photos_photo_url
              /\ photos_pc[r] # "read" => photos_pc'[r] = "failed"
              /\ photos_bucket' # photos_bucket => photos_pc'[r] = "failed"
           \/ /\ photos_pc[r] # "read" /\ photos_bucket' = photos_bucket
              /\ photos_pc[r] = "uploaded" /\ photos_photo_url # Nobody =>
                    photos_photo_url' = r /\ photos_pc'[r] = "done"
              /\ photos_photo_url' # r => photos_photo_url' \in {Nothing, Nobody}
              /\ photos_photo_url' = r => photos_pc[r] = "uploaded" /\ photos_pc'[r] = "done"
    PROVE  PhotosInv'
<1> USE PhotosConstants DEF S!Keys, PhotosInv
<1>1. UploadsUpload'
  BY DEF UploadsUpload
<1>2. PhotoKeysAreNew'
  BY DEF PhotoKeysAreNew, S!Running
<1>3. PhotoCovered'
  <2>1. CASE photos_photo_url' = photos_photo_url /\ (photos_pc[r] # "read" => photos_pc'[r] = "failed")
    <3>1. \A q \in PhotoRequests : ReplacesPhoto(q) => ReplacesPhoto(q)'
      BY <2>1 DEF ReplacesPhoto, S!Running
    <3> QED
      BY <2>1, <3>1 DEF PhotoCovered
  <2>2. CASE photos_photo_url' \in {r, Nothing, Nobody} /\ (photos_photo_url' = r => photos_pc[r] = "uploaded")
    BY <2>2 DEF PhotoCovered, PhotoKeysAreNew
  <2> QED
    BY <2>1, <2>2
<1>4. PhotosSerial'
  <2> SUFFICES ASSUME ~photos_overlapped'
               PROVE  /\ S!Idle' => photos_bucket' \ {photos_photo_url'} \subseteq LostPhotos'
                      /\ \A q \in PhotoRequests : S!Running(q)' => HandlerAlone(q)' /\ PhotoStored(q)'
    BY DEF PhotosSerial
  <2>1. HandlerAlone(r) /\ PhotoStored(r)
    BY DEF PhotosSerial
  <2>2. \A q \in PhotoRequests : ~S!Running(q)'
    BY <2>1 DEF HandlerAlone, S!Running
  <2>3. LostPhotos' = LostPhotos \cup {q \in {r} : photos_pc'[q] = "failed"}
    BY DEF LostPhotos, S!Running
  <2>4. photos_bucket' \ {photos_photo_url'} \subseteq LostPhotos'
    BY <2>1, <2>3 DEF PhotoStored, S!Running
  <2> QED
    BY <2>2, <2>4
<1> QED
  BY <1>1, <1>2, <1>3, <1>4

(* StorageUploadError.                                                      *)
LEMMA PhotoUploadFailsStep ==
    ASSUME PhotosInv, NEW r \in PhotoRequests, S!UploadFails(r)
    PROVE  PhotosInv'
<1>1. S!TypeOK'
  BY PhotosConstants DEF PhotosInv, S!TypeOK, S!UploadFails, S!Stages, S!Keys
<1>2. /\ S!Running(r) /\ photos_pc'[r] = "failed"
      /\ \A q \in PhotoRequests \ {r} : photos_pc'[q] = photos_pc[q]
      /\ UNCHANGED <<photos_photo_url, photos_kind, photos_key, photos_overlapped, photos_kept>>
      /\ photos_bucket \subseteq photos_bucket' /\ photos_bucket' \subseteq photos_bucket \cup {r}
  BY DEF PhotosInv, S!UploadFails, S!TypeOK, S!Running
<1> QED
  BY <1>1, <1>2, PhotoEnds

(* update_photo_url or delete_user.                                         *)
LEMMA PhotoWriteRowStep ==
    ASSUME PhotosInv, NEW r \in PhotoRequests, S!WriteRow(r)
    PROVE  PhotosInv'
<1>1. S!TypeOK'
  BY PhotosConstants DEF PhotosInv, S!TypeOK, S!WriteRow, S!NewKey, S!Stages, S!Keys
<1>2. /\ photos_pc[r] = IF photos_kind[r] = "upload" THEN "uploaded" ELSE "deleted"
      /\ photos_photo_url' = IF photos_photo_url = Nobody THEN Nobody ELSE S!NewKey(r)
      /\ photos_pc'[r] = IF photos_photo_url = Nobody /\ photos_kind[r] # "erase" THEN "failed" ELSE "done"
      /\ \A q \in PhotoRequests \ {r} : photos_pc'[q] = photos_pc[q]
      /\ UNCHANGED <<photos_bucket, photos_kind, photos_key, photos_overlapped, photos_kept>>
  BY DEF PhotosInv, S!WriteRow, S!TypeOK
<1>3. S!NewKey(r) = IF photos_kind[r] = "upload" THEN r ELSE IF photos_kind[r] = "delete" THEN Nothing ELSE Nobody
  BY DEF PhotosInv, S!TypeOK, S!NewKey
<1>4. S!Running(r) /\ r \in S!Keys
  BY <1>2 DEF S!Running, S!Keys
<1> QED
  BY <1>1, <1>2, <1>3, <1>4, PhotosConstants, PhotoEnds

(* A commit that fails, or a worker that dies.                              *)
LEMMA PhotoEndsEarlyStep ==
    ASSUME PhotosInv, NEW r \in PhotoRequests, S!EndsEarly(r)
    PROVE  PhotosInv'
<1>1. S!TypeOK'
  BY DEF PhotosInv, S!TypeOK, S!EndsEarly, S!Stages
<1>2. /\ S!Running(r) /\ photos_pc'[r] = IF photos_pc[r] = "read" THEN "done" ELSE "failed"
      /\ \A q \in PhotoRequests \ {r} : photos_pc'[q] = photos_pc[q]
      /\ UNCHANGED <<photos_photo_url, photos_bucket, photos_kind, photos_key, photos_overlapped, photos_kept>>
  BY DEF PhotosInv, S!EndsEarly, S!TypeOK
<1> QED
  BY <1>1, <1>2, PhotoEnds

(* Every step of a handler, and every other.                                *)
LEMMA PhotosStep == ASSUME PhotosInv, [S!Next]_photosVars PROVE PhotosInv'
<1>1. ASSUME NEW r \in PhotoRequests, S!Step(r) PROVE PhotosInv'
  BY <1>1, PhotoBeginStep, PhotoDeleteOldStep, PhotoUploadStep, PhotoUploadFailsStep, PhotoWriteRowStep,
     PhotoEndsEarlyStep DEF S!Step
<1>2. CASE UNCHANGED photosVars
  BY <1>2 DEF PhotosInv, photosVars, S!TypeOK, UploadsUpload, PhotoKeysAreNew, PhotoCovered, ReplacesPhoto, PhotosSerial,
     S!Running, S!Idle, HandlerAlone, PhotoStored, LostPhotos
<1> QED
  BY <1>1, <1>2 DEF S!Next

-------------------------------------------------------------------------------

(* Whoever deleted the object and has not written the row runs or has failed.*)
LEMMA PhotosGive == ASSUME PhotosInv PROVE S!TypeOK /\ PhotoIsStored /\ NoOrphanObjects
<1>1. PhotoIsStored
  BY DEF PhotosInv, S!TypeOK, PhotoCovered, ReplacesPhoto, PhotoIsStored, S!PhotoIsStored, S!Idle, S!Running
<1>2. NoOrphanObjects
  BY DEF PhotosInv, PhotosSerial, LostPhotos, NoOrphanObjects, S!NoOrphanObjects
<1> QED
  BY <1>1, <1>2 DEF PhotosInv

(* The row names an object that is stored (upload_photo, delete_photo,      *)
(* delete_current_user), whatever number of handlers overlaps and however,  *)
(* unless one that had read its key ended before it wrote the row.          *)
THEOREM PhotoCorrect == S!Spec => []PhotoIsStored
<1>1. S!Init => PhotosInv
  BY PhotosInit
<1>2. PhotosInv /\ [S!Next]_(S!vars) => PhotosInv'
  BY PhotosStep DEF S!vars, photosVars
<1>3. PhotosInv => PhotoIsStored
  BY PhotosGive
<1> QED
  BY <1>1, <1>2, <1>3, PTL DEF S!Spec

(* And after handlers that ran one after the other the storage holds        *)
(* nothing else, but for objects that it failed to delete and uploads whose *)
(* handler ended before it wrote the row.                                   *)
THEOREM BucketCorrect == S!Spec => []NoOrphanObjects
<1>1. S!Init => PhotosInv
  BY PhotosInit
<1>2. PhotosInv /\ [S!Next]_(S!vars) => PhotosInv'
  BY PhotosStep DEF S!vars, photosVars
<1>3. PhotosInv => NoOrphanObjects
  BY PhotosGive
<1> QED
  BY <1>1, <1>2, <1>3, PTL DEF S!Spec

-------------------------------------------------------------------------------
(* The way to a new password.                                               *)

(* What is assumed of the resets.                                           *)
LEMMA ResetConstants ==
    /\ ResetRequests \cap Redemptions = {}
    /\ Nothing \notin W!Calls /\ Nothing \notin W!Token
    /\ {ResetTTL, ResetTime} \subseteq Nat
  BY AccountAssumption DEF W!ConstantsOK

UnusedLink(t) == reset_tokens[t] # Nothing /\ ~reset_tokens[t].used

(* A redemption of t has found it in order and has not committed yet.       *)
RedeemingLink(d, t) == reset_stage[d] = "read" /\ reset_presented[d] = t

(* A request names a token that only it can make, and there is none before; *)
(* a redemption is about a token that is there, once it goes on, as long as *)
(* there is an account.                                                     *)
OwnLink ==
    /\ \A t \in ResetRequests :
          reset_tokens[t] # Nothing \/ reset_changes[t] # 0 \/ (\E d \in Redemptions : RedeemingLink(d, t))
              => reset_stage[t] \in {"saved", "done"}
    /\ \A d \in Redemptions : reset_stage[d] = "read" => reset_presented[d] \in ResetRequests
    /\ reset_exists => \A d \in Redemptions, t \in ResetRequests : RedeemingLink(d, t) => reset_tokens[t] # Nothing

(* Of requests that do not overlap: the one that is reading has seen all    *)
(* that is outstanding, which is at most the newest token.                  *)
NewestInv ==
    ~reset_overlapped =>
        /\ \A r, q \in ResetRequests : reset_stage[r] = "read" /\ reset_stage[q] = "read" => r = q
        /\ \A r, t \in ResetRequests : reset_stage[r] = "read" /\ UnusedLink(t) => t \in reset_seen[r]
        /\ \A t \in ResetRequests : UnusedLink(t) => t = reset_newest

(* A token whose redemptions do not overlap: one at a time, and none after  *)
(* the password was changed.                                                *)
OnceInv ==
    \A t \in ResetRequests \ reset_raced :
        /\ \A d, e \in Redemptions : RedeemingLink(d, t) /\ RedeemingLink(e, t) => d = e
        /\ UnusedLink(t) => reset_changes[t] = 0
        /\ \A d \in Redemptions : RedeemingLink(d, t) => reset_changes[t] = 0
        /\ reset_changes[t] <= 1

ResetInv == W!TypeOK /\ OwnLink /\ NewestInv /\ OnceInv

-------------------------------------------------------------------------------

(* What no invariant speaks of may change: the pages, the mailbox, the time *)
(* and the stage of a call that does not begin or end to read.              *)
LEMMA ResetUndisturbed ==
    ASSUME ResetInv, W!TypeOK',
           UNCHANGED <<W!database, reset_seen, reset_presented, W!history>>,
           \A c \in W!Calls : reset_stage'[c] = "read" <=> reset_stage[c] = "read",
           \A t \in ResetRequests : reset_stage[t] \in {"saved", "done"} => reset_stage'[t] \in {"saved", "done"}
    PROVE  ResetInv'
<1> USE DEF ResetInv, W!database, W!history, W!Calls
<1>1. OwnLink'
  BY DEF OwnLink, RedeemingLink
<1>2. NewestInv'
  BY DEF NewestInv, UnusedLink
<1>3. OnceInv'
  BY DEF OnceInv, UnusedLink, RedeemingLink
<1> QED
  BY <1>1, <1>2, <1>3

(* There are no tokens at first.                                            *)
LEMMA ResetInit == ASSUME W!Init PROVE ResetInv
<1> USE ResetConstants DEF W!Init, W!Calls
<1>1. W!TypeOK
  <2>1. ResetTime \in Nat /\ 0 \in 0..ResetTime
    BY ResetConstants
  <2> QED
    BY <2>1 DEF W!TypeOK, W!Pages
<1>2. OwnLink /\ NewestInv /\ OnceInv
  BY DEF OwnLink, NewestInv, OnceInv, UnusedLink, RedeemingLink
<1> QED
  BY <1>1, <1>2 DEF ResetInv

(* The pages, and the time.                                                 *)
LEMMA ResetBrowserStep ==
    ASSUME ResetInv,
           W!Visit \/ W!ForgotAnswered \/ W!ResetAnswered \/ W!ResetFailed \/ W!Tick
    PROVE  ResetInv'
<1>1. UNCHANGED <<W!database, W!handlers, W!history>>
  BY DEF W!Visit, W!Goto, W!ForgotAnswered, W!ResetAnswered, W!ResetFailed, W!Tick
<1>2. reset_now' \in 0..ResetTime
  BY ResetConstants DEF ResetInv, W!TypeOK, W!Visit, W!Goto, W!ForgotAnswered, W!ResetAnswered, W!ResetFailed, W!Tick
<1>3. reset_waiting' \in W!Calls \cup {Nothing} /\ reset_page' \in W!Pages /\ reset_link' \in ResetRequests \cup {Nothing}
  BY DEF ResetInv, W!TypeOK, W!Pages, W!Visit, W!Goto, W!ForgotAnswered, W!ResetAnswered, W!ResetFailed, W!Tick, W!browser
<1>4. W!TypeOK'
  BY <1>1, <1>2, <1>3 DEF ResetInv, W!TypeOK, W!database, W!handlers, W!history
<1> QED
  BY <1>1, <1>4, ResetUndisturbed DEF W!database, W!handlers

(* A form is submitted; a mail is sent; a commit is refused.                *)
LEMMA ResetSubmitStep == ASSUME ResetInv, NEW c \in W!Calls, W!Submit(c) PROVE ResetInv'
<1>1. /\ reset_stage[c] = "new" /\ reset_stage' = [reset_stage EXCEPT ![c] = "asked"]
      /\ reset_presented' = [reset_presented EXCEPT ![c] = reset_link] /\ reset_waiting' = c
      /\ UNCHANGED <<reset_now, W!database, reset_seen, reset_mailbox, reset_page, reset_link, W!history>>
  BY DEF W!Submit
<1>2. W!TypeOK'
  BY <1>1 DEF ResetInv, W!TypeOK, W!database, W!history
<1>3. OwnLink'
  BY <1>1 DEF ResetInv, W!TypeOK, OwnLink, RedeemingLink, W!database, W!history, W!Calls
<1>4. NewestInv'
  BY <1>1 DEF ResetInv, W!TypeOK, NewestInv, UnusedLink, W!database, W!history, W!Calls
<1>5. OnceInv'
  BY <1>1 DEF ResetInv, W!TypeOK, OnceInv, UnusedLink, RedeemingLink, W!database, W!history, W!Calls
<1> QED
  BY <1>2, <1>3, <1>4, <1>5 DEF ResetInv

(* The e-mail with the link goes out.                                        *)
LEMMA ResetSendMailStep == ASSUME ResetInv, NEW r \in ResetRequests, W!SendMail(r) PROVE ResetInv'
<1>1. W!TypeOK'
  BY DEF ResetInv, W!TypeOK, W!SendMail, W!Calls, W!database, W!browser, W!history
<1> QED
  BY <1>1, ResetUndisturbed DEF W!SendMail, ResetInv, W!TypeOK, W!Calls, W!database, W!history

(* The database refuses the commit of a handler.                             *)
LEMMA ResetCommitFailsStep == ASSUME ResetInv, NEW c \in W!Calls, W!CommitFails(c) PROVE ResetInv'
<1>1. /\ reset_stage[c] = "read" /\ reset_stage' = [reset_stage EXCEPT ![c] = "refused"]
      /\ UNCHANGED <<reset_now, W!database, reset_seen, reset_presented, reset_mailbox, W!browser, W!history>>
  BY DEF W!CommitFails
<1>2. W!TypeOK'
  BY <1>1 DEF ResetInv, W!TypeOK, W!database, W!browser, W!history
<1>3. OwnLink'
  BY <1>1 DEF ResetInv, W!TypeOK, OwnLink, RedeemingLink, W!database, W!history, W!Calls
<1>4. NewestInv'
  BY <1>1 DEF ResetInv, W!TypeOK, NewestInv, UnusedLink, W!database, W!history, W!Calls
<1>5. OnceInv'
  BY <1>1 DEF ResetInv, W!TypeOK, OnceInv, UnusedLink, RedeemingLink, W!database, W!history, W!Calls
<1> QED
  BY <1>2, <1>3, <1>4, <1>5 DEF ResetInv

-------------------------------------------------------------------------------

(* The request sees all tokens that are outstanding.                        *)
LEMMA ResetReadOutstandingStep ==
    ASSUME ResetInv, NEW r \in ResetRequests, W!ReadOutstanding(r) PROVE ResetInv'
<1>1. /\ reset_stage[r] = "asked" /\ reset_stage' = [reset_stage EXCEPT ![r] = IF reset_exists THEN "read" ELSE "done"]
      /\ reset_seen' = [reset_seen EXCEPT ![r] = W!Outstanding]
      /\ reset_overlapped' = (reset_overlapped \/ \E q \in ResetRequests : reset_stage[q] = "read")
      /\ UNCHANGED <<reset_now, W!database, reset_presented, reset_mailbox, W!browser, reset_newest, reset_raced, reset_changes>>
  BY DEF W!ReadOutstanding
<1>2. W!Outstanding = {t \in ResetRequests : UnusedLink(t)}
  BY DEF W!Outstanding, UnusedLink
<1>3. /\ reset_stage'[r] \in {"read", "done"}
      /\ \A c \in W!Calls \ {r} : reset_stage'[c] = reset_stage[c]
      /\ reset_seen'[r] = W!Outstanding /\ \A q \in ResetRequests \ {r} : reset_seen'[q] = reset_seen[q]
  BY <1>1 DEF ResetInv, W!TypeOK, W!Calls
<1>4. W!TypeOK'
  BY <1>1, <1>2 DEF ResetInv, W!TypeOK, W!Calls, W!database, W!browser
<1>5. OwnLink'
  BY <1>1, <1>3, ResetConstants DEF ResetInv, OwnLink, RedeemingLink, W!database, W!Calls
<1>6. NewestInv'
  <2> SUFFICES ASSUME ~reset_overlapped' PROVE NewestInv'
    BY DEF NewestInv
  <2>1. ~reset_overlapped /\ \A q \in ResetRequests : reset_stage[q] # "read"
    BY <1>1, Zenon
  <2>2. reset_tokens' = reset_tokens /\ reset_newest' = reset_newest
    BY <1>1 DEF W!database
  <2>3. \A t \in ResetRequests : UnusedLink(t)' <=> UnusedLink(t)
    BY <2>2 DEF UnusedLink
  <2>4. \A q \in ResetRequests : reset_stage'[q] = "read" => q = r
    BY <1>3, <2>1 DEF W!Calls
  <2>5. \A t \in ResetRequests : UnusedLink(t) => t = reset_newest
    BY <2>1 DEF ResetInv, NewestInv
  <2> QED
    BY <1>2, <1>3, <2>2, <2>3, <2>4, <2>5 DEF NewestInv
<1>7. OnceInv'
  BY <1>1, <1>3, ResetConstants DEF ResetInv, OnceInv, UnusedLink, RedeemingLink, W!database, W!Calls
<1> QED
  BY <1>4, <1>5, <1>6, <1>7 DEF ResetInv

(* What it has seen is used, and the new token is the newest.               *)
LEMMA ResetSaveTokenStep ==
    ASSUME ResetInv, NEW r \in ResetRequests, W!SaveToken(r) PROVE ResetInv'
<1>1. /\ reset_stage[r] = "read" /\ reset_stage' = [reset_stage EXCEPT ![r] = "saved"]
      /\ reset_newest' = r /\ reset_tokens' = W!Invalidated(r)
      /\ UNCHANGED <<reset_now, reset_exists, reset_password, reset_seen, reset_presented, reset_mailbox, W!browser, reset_overlapped, reset_raced, reset_changes>>
  BY DEF W!SaveToken
<1>2. reset_stage'[r] = "saved" /\ \A c \in W!Calls \ {r} : reset_stage'[c] = reset_stage[c]
  BY <1>1 DEF ResetInv, W!TypeOK, W!Calls
<1>3. W!NewToken \in W!Token
  BY ResetConstants DEF ResetInv, W!TypeOK, W!NewToken, W!Token
<1>4. reset_tokens' \in [ResetRequests -> W!Token \cup {Nothing}]
  BY <1>1, <1>3 DEF ResetInv, W!TypeOK, W!Invalidated, W!Token
<1>5. W!TypeOK'
  BY <1>1, <1>4 DEF ResetInv, W!TypeOK, W!Calls, W!browser
<1>6. ASSUME NEW t \in ResetRequests \ {r}
      PROVE  /\ reset_tokens'[t] # Nothing => reset_tokens[t] # Nothing
             /\ reset_tokens[t] # Nothing => reset_tokens'[t] # Nothing
             /\ UnusedLink(t)' => UnusedLink(t) /\ t \notin reset_seen[r]
  <2>1. reset_tokens'[t] = IF t \in reset_seen[r] /\ reset_tokens[t] # Nothing THEN [reset_tokens[t] EXCEPT !.used = TRUE] ELSE reset_tokens[t]
    BY <1>1 DEF W!Invalidated
  <2>2. reset_tokens[t] # Nothing => reset_tokens[t] \in W!Token
    BY DEF ResetInv, W!TypeOK
  <2> QED
    BY <2>1, <2>2, ResetConstants DEF UnusedLink, W!Token
<1>7. OwnLink'
  BY <1>1, <1>2, <1>6, ResetConstants DEF ResetInv, OwnLink, RedeemingLink, W!Calls
<1>8. NewestInv'
  BY <1>1, <1>2, <1>6 DEF ResetInv, NewestInv, W!Calls
<1>9. OnceInv'
  <2>1. reset_changes[r] = 0
    BY <1>1 DEF ResetInv, OwnLink
  <2>2. \A d \in Redemptions, t \in ResetRequests : RedeemingLink(d, t)' <=> RedeemingLink(d, t)
    BY <1>1, <1>2, ResetConstants DEF RedeemingLink, W!Calls
  <2>3. \A t \in ResetRequests \ reset_raced : UnusedLink(t)' => reset_changes[t] = 0
    BY <1>6, <2>1 DEF ResetInv, OnceInv
  <2> QED
    BY <1>1, <2>2, <2>3 DEF ResetInv, OnceInv
<1> QED
  BY <1>5, <1>7, <1>8, <1>9 DEF ResetInv

(* A redemption finds the token in order, or is refused.                    *)
LEMMA ResetReadRecordStep ==
    ASSUME ResetInv, NEW d \in Redemptions, W!ReadRecord(d) PROVE ResetInv'
<1>1. /\ reset_stage[d] = "asked"
      /\ reset_stage' = [reset_stage EXCEPT ![d] = IF W!Accepted(reset_presented[d]) THEN "read" ELSE "refused"]
      /\ reset_raced' = reset_raced \cup {reset_presented[e] : e \in {e \in Redemptions : reset_stage[e] = "read" /\ reset_presented[e] = reset_presented[d]}}
      /\ UNCHANGED <<reset_now, W!database, reset_seen, reset_presented, reset_mailbox, W!browser, reset_newest, reset_overlapped, reset_changes>>
  BY DEF W!ReadRecord
<1>2. /\ reset_stage'[d] = "read" => reset_presented[d] \in ResetRequests /\ UnusedLink(reset_presented[d])
      /\ reset_stage'[d] \in {"read", "refused"}
      /\ \A c \in W!Calls \ {d} : reset_stage'[c] = reset_stage[c]
  BY <1>1 DEF ResetInv, W!TypeOK, W!Calls, W!Accepted, W!Outstanding, UnusedLink
<1>3. \A e \in Redemptions : RedeemingLink(e, reset_presented[d]) => reset_presented[d] \in reset_raced'
  BY <1>1 DEF RedeemingLink
<1>4. \A t \in reset_raced' : t \in reset_raced \/ \E e \in Redemptions : RedeemingLink(e, t)
  BY <1>1 DEF RedeemingLink
<1>5. reset_raced' \subseteq ResetRequests
  BY <1>4 DEF ResetInv, W!TypeOK, OwnLink, RedeemingLink
<1>6. W!TypeOK'
  BY <1>1, <1>2, <1>5 DEF ResetInv, W!TypeOK, W!Calls, W!database, W!browser
<1>7. OwnLink'
  BY <1>1, <1>2, ResetConstants DEF ResetInv, OwnLink, RedeemingLink, UnusedLink, W!database, W!Calls
<1>8. NewestInv'
  BY <1>1, <1>2, ResetConstants DEF ResetInv, NewestInv, UnusedLink, W!database, W!Calls
<1>9. OnceInv'
  <2> SUFFICES ASSUME NEW t \in ResetRequests \ reset_raced'
               PROVE  /\ \A c, e \in Redemptions : RedeemingLink(c, t)' /\ RedeemingLink(e, t)' => c = e
                      /\ UnusedLink(t)' => reset_changes'[t] = 0
                      /\ \A e \in Redemptions : RedeemingLink(e, t)' => reset_changes'[t] = 0
                      /\ reset_changes'[t] <= 1
    BY DEF OnceInv
  <2>1. t \in ResetRequests \ reset_raced
    BY <1>1, <1>5
  <2>2. \A e \in Redemptions \ {d} : RedeemingLink(e, t)' <=> RedeemingLink(e, t)
    BY <1>1, <1>2 DEF RedeemingLink, W!Calls
  <2>3. RedeemingLink(d, t)' => UnusedLink(t) /\ \A e \in Redemptions : ~RedeemingLink(e, t)
    BY <1>1, <1>2, <1>3 DEF RedeemingLink
  <2>4. reset_tokens' = reset_tokens /\ reset_changes' = reset_changes
    BY <1>1 DEF W!database
  <2> QED
    BY <2>1, <2>2, <2>3, <2>4 DEF ResetInv, OnceInv, UnusedLink
<1> QED
  BY <1>6, <1>7, <1>8, <1>9 DEF ResetInv

(* The password changes and the token is used, in one transaction.          *)
LEMMA ResetChangePasswordStep ==
    ASSUME ResetInv, NEW d \in Redemptions, W!ChangePassword(d) PROVE ResetInv'
<1>0. PICK u \in ResetRequests : u = reset_presented[d]
  BY DEF W!ChangePassword, ResetInv, OwnLink
<1>1. /\ reset_stage[d] = "read" /\ reset_stage' = [reset_stage EXCEPT ![d] = "done"] /\ reset_password' = d
      /\ reset_tokens' = [reset_tokens EXCEPT ![u].used = TRUE]
      /\ reset_changes' = [reset_changes EXCEPT ![u] = @ + 1]
      /\ UNCHANGED <<reset_now, reset_exists, reset_seen, reset_presented, reset_mailbox, W!browser, reset_newest, reset_overlapped, reset_raced>>
  BY <1>0 DEF W!ChangePassword, W!MarkUsed
<1>2. RedeemingLink(d, u)
  BY <1>0, <1>1 DEF RedeemingLink
<1>3. reset_stage'[d] = "done" /\ \A c \in W!Calls \ {d} : reset_stage'[c] = reset_stage[c]
  BY <1>1 DEF ResetInv, W!TypeOK, W!Calls
<1>4. /\ reset_tokens'[u] = [reset_tokens[u] EXCEPT !.used = TRUE]
      /\ \A t \in ResetRequests \ {u} : reset_tokens'[t] = reset_tokens[t] /\ reset_changes'[t] = reset_changes[t]
      /\ reset_changes'[u] = reset_changes[u] + 1
  BY <1>1, <1>2 DEF ResetInv, W!TypeOK
<1>5. reset_tokens[u] \in W!Token
  BY <1>1, <1>2 DEF ResetInv, W!TypeOK, OwnLink, W!ChangePassword
<1>6. reset_tokens'[u] \in W!Token /\ ~UnusedLink(u)'
  BY <1>4, <1>5 DEF UnusedLink, W!Token
<1>7. \A t \in ResetRequests \ {u} : UnusedLink(t)' <=> UnusedLink(t)
  BY <1>4 DEF UnusedLink
<1>8. \A e \in Redemptions \ {d}, t \in ResetRequests : RedeemingLink(e, t)' <=> RedeemingLink(e, t)
  BY <1>1, <1>3 DEF RedeemingLink, W!Calls
<1>9. \A t \in ResetRequests : ~RedeemingLink(d, t)'
  BY <1>3 DEF RedeemingLink
<1>10. W!TypeOK'
  <2>1. reset_tokens' \in [ResetRequests -> W!Token \cup {Nothing}] /\ reset_changes' \in [ResetRequests -> Nat]
    BY <1>1, <1>4, <1>5, <1>6 DEF ResetInv, W!TypeOK
  <2> QED
    BY <1>1, <2>1 DEF ResetInv, W!TypeOK, W!Calls, W!browser
<1>11. OwnLink'
  <2>1. reset_stage[u] \in {"saved", "done"}
    BY <1>2 DEF ResetInv, OwnLink
  <2> QED
    BY <1>1, <1>3, <1>4, <1>5, <1>6, <1>8, <1>9, <2>1, ResetConstants DEF ResetInv, OwnLink, W!Calls
<1>12. NewestInv'
  BY <1>1, <1>3, <1>6, <1>7, ResetConstants DEF ResetInv, NewestInv, W!Calls
<1>13. OnceInv'
  <2> SUFFICES ASSUME NEW t \in ResetRequests \ reset_raced
               PROVE  /\ \A c, e \in Redemptions : RedeemingLink(c, t)' /\ RedeemingLink(e, t)' => c = e
                      /\ UnusedLink(t)' => reset_changes'[t] = 0
                      /\ \A e \in Redemptions : RedeemingLink(e, t)' => reset_changes'[t] = 0
                      /\ reset_changes'[t] <= 1
    BY <1>1 DEF OnceInv
  <2>1. CASE t # u
    BY <1>4, <1>7, <1>8, <1>9, <2>1 DEF ResetInv, OnceInv
  <2>2. CASE t = u
    <3>1. reset_changes'[u] = 1
      BY <1>2, <1>4, <2>2 DEF ResetInv, OnceInv
    <3>2. \A e \in Redemptions : ~RedeemingLink(e, u)'
      BY <1>2, <1>8, <1>9, <2>2 DEF ResetInv, OnceInv
    <3> QED
      BY <1>6, <2>2, <3>1, <3>2
  <2> QED
    BY <2>1, <2>2
<1> QED
  BY <1>10, <1>11, <1>12, <1>13 DEF ResetInv

(* ON DELETE CASCADE: no token is left.                                     *)
LEMMA ResetEraseAccountStep == ASSUME ResetInv, W!EraseAccount PROVE ResetInv'
<1>1. /\ reset_exists' = FALSE /\ reset_tokens' = [t \in ResetRequests |-> Nothing]
      /\ UNCHANGED <<reset_now, reset_password, W!handlers, W!browser, W!history>>
  BY DEF W!EraseAccount
<1>2. \A t \in ResetRequests : reset_tokens'[t] = Nothing /\ ~UnusedLink(t)'
  BY <1>1 DEF UnusedLink
<1>3. W!TypeOK'
  BY <1>1 DEF ResetInv, W!TypeOK, W!handlers, W!browser, W!history
<1>4. OwnLink'
  BY <1>1, <1>2 DEF ResetInv, OwnLink, RedeemingLink, W!handlers, W!history
<1>5. NewestInv'
  BY <1>1, <1>2 DEF ResetInv, NewestInv, W!handlers, W!history
<1>6. OnceInv'
  BY <1>1, <1>2 DEF ResetInv, OnceInv, RedeemingLink, W!handlers, W!history
<1> QED
  BY <1>3, <1>4, <1>5, <1>6 DEF ResetInv

(* Every step of the browser and of the handlers, and every other.          *)
LEMMA ResetStep == ASSUME ResetInv, [W!Next]_resetVars PROVE ResetInv'
<1>1. CASE W!Next
  BY <1>1, ResetBrowserStep, ResetSubmitStep, ResetSendMailStep, ResetCommitFailsStep, ResetReadOutstandingStep,
     ResetSaveTokenStep, ResetReadRecordStep, ResetChangePasswordStep, ResetEraseAccountStep DEF W!Next
<1>2. CASE UNCHANGED resetVars
  <2>1. W!TypeOK'
    BY <1>2 DEF ResetInv, W!TypeOK, resetVars, W!database, W!handlers, W!browser, W!history
  <2> QED
    <3>1. UNCHANGED <<W!database, reset_seen, reset_presented, W!history>>
      BY <1>2 DEF resetVars, W!database, W!history
    <3>2. reset_stage' = reset_stage
      BY <1>2 DEF resetVars
    <3> QED
      BY <2>1, <3>1, <3>2, ResetUndisturbed
<1> QED
  BY <1>1, <1>2

(* What is accepted is outstanding.                                         *)
LEMMA ResetGives == ASSUME ResetInv PROVE W!TypeOK /\ OnlyNewestWorks /\ RedeemedOnce
<1>1. OnlyNewestWorks
  BY DEF ResetInv, NewestInv, UnusedLink, OnlyNewestWorks, W!OnlyNewestWorks, W!Accepted, W!Outstanding
<1>2. RedeemedOnce
  BY DEF ResetInv, OnceInv, RedeemedOnce, W!RedeemedOnce
<1> QED
  BY <1>1, <1>2 DEF ResetInv

(* "So only the newest link works" (create_reset_token), whatever the       *)
(* number of requests that followed one another.                            *)
THEOREM NewestCorrect == W!Spec => []OnlyNewestWorks
<1>1. W!Init => ResetInv
  BY ResetInit
<1>2. ResetInv /\ [W!Next]_(W!vars) => ResetInv'
  BY ResetStep DEF W!vars, W!database, W!handlers, W!browser, W!history, resetVars
<1>3. ResetInv => OnlyNewestWorks
  BY ResetGives
<1> QED
  BY <1>1, <1>2, <1>3, PTL DEF W!Spec

(* A link changes the password at most once, whatever the number of         *)
(* redemptions of it that followed one another (reset_password).            *)
THEOREM RedemptionCorrect == W!Spec => []RedeemedOnce
<1>1. W!Init => ResetInv
  BY ResetInit
<1>2. ResetInv /\ [W!Next]_(W!vars) => ResetInv'
  BY ResetStep DEF W!vars, W!database, W!handlers, W!browser, W!history, resetVars
<1>3. ResetInv => RedeemedOnce
  BY ResetGives
<1> QED
  BY <1>1, <1>2, <1>3, PTL DEF W!Spec

===============================================================================
