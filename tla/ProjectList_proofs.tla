--------------------------- MODULE ProjectList_proofs ---------------------------
(***************************************************************************)
(* Theorems about ProjectList, for any projects, any relations to them at   *)
(* the start and any bounds of the calls under way.                         *)
(*                                                                         *)
(* Two arguments side by side.  The page: the last load under way that is   *)
(* not overtaken brings what is stored, or more is going to be loaded, or   *)
(* something was missed (LoadsFollow, PageFollows).  The dialogs: a request *)
(* of a dialog keeps it open, unless it was dismissed, so that what its     *)
(* answer resets belongs to no other (OpenMeanwhile, OneDialog, OneOfEach). *)
(***************************************************************************)
EXTENDS ProjectList, SequenceTheorems, TLAPS

-------------------------------------------------------------------------------
(* The sequences of calls under way.                                        *)

(* One call ends: those after it move up.                                   *)
LEMMA RemoveAtEntries ==
    ASSUME NEW S, NEW s \in Seq(S), NEW i \in DOMAIN s
    PROVE  /\ RemoveAt(s, i) \in Seq(S)
           /\ Len(RemoveAt(s, i)) = Len(s) - 1
           /\ \A k \in 1..(Len(s) - 1) : RemoveAt(s, i)[k] = IF k < i THEN s[k] ELSE s[k + 1]
<1> DEFINE a == SubSeq(s, 1, i - 1)
           b == SubSeq(s, i + 1, Len(s))
<1>1. a \in Seq(S) /\ Len(a) = i - 1 /\ \A k \in 1..(i - 1) : a[k] = s[k]
  OBVIOUS
<1>2. b \in Seq(S) /\ Len(b) = Len(s) - i /\ \A k \in 1..(Len(s) - i) : b[k] = s[i + k]
  OBVIOUS
<1>3. RemoveAt(s, i) = a \o b
  BY DEF RemoveAt
<1> HIDE DEF a, b
<1>4. a \o b \in Seq(S) /\ Len(a \o b) = Len(s) - 1
  BY <1>1, <1>2
<1>5. ASSUME NEW k \in 1..(Len(s) - 1), k < i PROVE (a \o b)[k] = s[k]
  BY <1>1, <1>2, <1>5
<1>6. ASSUME NEW k \in 1..(Len(s) - 1), ~(k < i) PROVE (a \o b)[k] = s[k + 1]
  <2>1. k - (i - 1) \in 1..(Len(s) - i) /\ i + (k - (i - 1)) = k + 1
    BY <1>6
  <2>2. (a \o b)[k] = b[k - (i - 1)]
    BY <1>1, <1>2, <1>6
  <2> QED
    BY <1>2, <2>1, <2>2
<1> QED
  BY <1>3, <1>4, <1>5, <1>6

(* A load ends: those before it are overtaken, those after it move up.      *)
LEMMA AfterLoadEntries ==
    ASSUME NEW S, \A f \in S : [f EXCEPT !.overtaken = TRUE] \in S,
           NEW q \in Seq(S), NEW i \in DOMAIN q
    PROVE  /\ AfterLoad(q, i) \in Seq(S)
           /\ Len(AfterLoad(q, i)) = Len(q) - 1
           /\ \A k \in 1..(Len(q) - 1) :
                AfterLoad(q, i)[k] = IF k < i THEN [q[k] EXCEPT !.overtaken = TRUE] ELSE q[k + 1]
<1> DEFINE marked == [j \in DOMAIN q |-> IF j < i THEN [q[j] EXCEPT !.overtaken = TRUE] ELSE q[j]]
<1>1. marked \in Seq(S) /\ Len(marked) = Len(q)
  OBVIOUS
<1>2. i \in DOMAIN marked
  OBVIOUS
<1>3. AfterLoad(q, i) = RemoveAt(marked, i)
  BY DEF AfterLoad
<1>4. \A k \in DOMAIN q : marked[k] = IF k < i THEN [q[k] EXCEPT !.overtaken = TRUE] ELSE q[k]
  BY Zenon
<1> HIDE DEF marked
<1>5. \A k \in 1..(Len(marked) - 1) : RemoveAt(marked, i)[k] = IF k < i THEN marked[k] ELSE marked[k + 1]
  BY <1>1, <1>2, RemoveAtEntries
<1>6. ASSUME NEW k \in 1..(Len(q) - 1)
      PROVE  AfterLoad(q, i)[k] = IF k < i THEN [q[k] EXCEPT !.overtaken = TRUE] ELSE q[k + 1]
  <2>1. k \in DOMAIN q /\ k + 1 \in DOMAIN q /\ (~(k < i) => ~(k + 1 < i))
    OBVIOUS
  <2>2. AfterLoad(q, i)[k] = IF k < i THEN marked[k] ELSE marked[k + 1]
    BY <1>1, <1>3, <1>5
  <2> QED
    BY <1>4, <2>1, <2>2
<1> QED
  BY <1>1, <1>2, <1>3, <1>6, RemoveAtEntries

-------------------------------------------------------------------------------
Load ==
    [projects : SUBSET [Projects -> Relations], invitations : SUBSET [Projects -> Relations],
     misses : BOOLEAN, overtaken : BOOLEAN]

Request == [kind : Kinds, of : Projects, done : BOOLEAN]

(* Types, those of the calls under way among them.                          *)
Types ==
    /\ TypeOK
    /\ loads \in Seq(Load) /\ requests \in Seq(Request)

(* One of my own requests has changed what is stored, and the page is going *)
(* to load it as soon as the answer is there.                               *)
Awaited == \E i \in DOMAIN requests : requests[i].done /\ requests[i].kind # "invite"

(* The last load under way brings just what is stored, unless it misses     *)
(* something or something more is going to be loaded.                       *)
LoadsFollow ==
    \A i \in DOMAIN loads :
        i = Len(loads) /\ ~loads[i].overtaken /\ ~loads[i].misses /\ ~Awaited =>
            loads[i].projects = {mine} /\ loads[i].invitations = {mine}

PageFollows == loads = <<>> /\ ~Awaited /\ ~behind => shown = Truth

(* One dialog at a time; one request of each dialog at a time, with which   *)
(* it is busy; and unless it was dismissed it is open meanwhile, and the    *)
(* invitation is to the project that it names.                              *)
OneDialog == \A d, e \in Dialogs : open[d] /\ open[e] => d = e

OneOfEach ==
    \A i, j \in DOMAIN requests :
        requests[i].kind = requests[j].kind /\ requests[i].kind \in Dialogs => i = j

OpenMeanwhile ==
    ~dismissed =>
        \A i \in DOMAIN requests :
            /\ requests[i].kind \in Dialogs => open[requests[i].kind]
            /\ requests[i].kind = "invite" => requests[i].of = selected

(* Success is on its way to be forgotten when the dialog is closed.         *)
SuccessFades == isSuccess /\ ~open["invite"] => timer \/ dismissed

DialogInv ==
    /\ OneDialog /\ OneOfEach /\ OpenMeanwhile /\ SuccessFades
    /\ BusyIsInFlight /\ DialogHasProject /\ SuccessIsForSelected

IInv == Types /\ LoadsFollow /\ PageFollows /\ DialogInv

(* The kinds of the requests under way.                                     *)
Asked == {requests[i].kind : i \in DOMAIN requests}

-------------------------------------------------------------------------------
(* Calls.                                                                   *)

(* InFlight(d) says that a request of d is among the requests.               *)
LEMMA BusyIsAsked == BusyIsInFlight <=> busy = Dialogs \cap Asked
  BY DEF BusyIsInFlight, InFlight, Asked

(* A load that starts has seen what is stored now.                           *)
LEMMA NewLoadIs ==
    ASSUME Types
    PROVE  NewLoad \in Load /\ NewLoad.projects = {mine} /\ NewLoad.invitations = {mine}
  BY DEF Types, TypeOK, NewLoad, Load

(* A load is overtaken.                                                     *)
LEMMA Overtaken ==
    ASSUME NEW f \in Load
    PROVE  [f EXCEPT !.overtaken = TRUE] \in Load /\ [f EXCEPT !.overtaken = TRUE].overtaken
  BY DEF Load

(* A load ends: those that it overtook bring nothing any more.              *)
LEMMA LoadGone ==
    ASSUME Types, NEW i \in DOMAIN loads, loads' = AfterLoad(loads, i)
    PROVE  /\ loads' \in Seq(Load)
           /\ \A k \in DOMAIN loads' :
                loads'[k].overtaken \/ k # Len(loads') \/ loads'[k] = loads[Len(loads)]
           /\ loads' = <<>> => i = Len(loads)
<1>1. /\ loads \in Seq(Load) /\ DOMAIN loads = 1..Len(loads) /\ Len(loads) \in Nat
      /\ \A f \in Load : [f EXCEPT !.overtaken = TRUE] \in Load
  BY Overtaken DEF Types
<1>2. /\ loads' \in Seq(Load) /\ Len(loads') = Len(loads) - 1
      /\ \A k \in 1..(Len(loads) - 1) :
            loads'[k] = IF k < i THEN [loads[k] EXCEPT !.overtaken = TRUE] ELSE loads[k + 1]
  BY <1>1, AfterLoadEntries
<1>3. DOMAIN loads' = 1..(Len(loads) - 1)
  BY <1>2
<1>4. ASSUME NEW k \in DOMAIN loads', k = Len(loads'), ~(k < i)
      PROVE  loads'[k] = loads[Len(loads)]
  BY <1>1, <1>2, <1>3, <1>4
<1>5. ASSUME NEW k \in DOMAIN loads', k < i
      PROVE  loads'[k].overtaken
  <2>1. loads[k] \in Load /\ loads'[k] = [loads[k] EXCEPT !.overtaken = TRUE]
    BY <1>1, <1>2, <1>3, <1>5
  <2> QED
    BY <2>1, Overtaken
<1>6. ASSUME loads' = <<>> PROVE i = Len(loads)
  <2>1. PICK n \in Nat : n = Len(loads)
    BY <1>1
  <2>2. n - 1 = 0 /\ i \in 1..n
    BY <1>1, <1>2, <1>6, <2>1
  <2>3. i = n
    BY <2>2
  <2> QED
    BY <2>1, <2>3
<1> QED
  BY <1>2, <1>4, <1>5, <1>6

(* What is stored changes while the loads are under way.                    *)
LEMMA ChangeIs ==
    ASSUME Types, NEW m \in [Projects -> Relations], NEW foreign \in BOOLEAN, Change(m, foreign)
    PROVE  /\ loads' \in Seq(Load) /\ behind' \in BOOLEAN
           /\ foreign => behind' /\ \A i \in DOMAIN loads' : loads'[i].misses
<1>1. ASSUME NEW i \in DOMAIN loads
      PROVE  loads'[i] \in Load /\ (foreign => loads'[i].misses)
  <2>1. PICK f \in Load : f = loads[i]
    BY DEF Types
  <2>2. loads'[i] = [f EXCEPT !.projects = @ \cup {m}, !.invitations = @ \cup {m}, !.misses = @ \/ foreign]
    BY <2>1 DEF Change
  <2>3. PICK b \in BOOLEAN : b = (f.misses \/ foreign)
    OBVIOUS
  <2>4. loads'[i] = [projects |-> f.projects \cup {m}, invitations |-> f.invitations \cup {m},
                     misses |-> b, overtaken |-> f.overtaken]
    BY <2>2, <2>3 DEF Load
  <2>5. f.projects \cup {m} \in SUBSET [Projects -> Relations] /\ f.overtaken \in BOOLEAN
        /\ f.invitations \cup {m} \in SUBSET [Projects -> Relations]
    BY DEF Load
  <2> QED
    BY <2>3, <2>4, <2>5 DEF Load
<1>2. loads \in Seq(Load) /\ DOMAIN loads' = DOMAIN loads /\ loads' = [i \in DOMAIN loads |-> loads'[i]]
  BY DEF Types, Change
<1>3. loads' \in Seq(Load)
  BY <1>1, <1>2
<1>4. behind' \in BOOLEAN /\ (foreign => behind')
  BY DEF Change
<1> QED
  BY <1>1, <1>2, <1>3, <1>4

(* A request ends: old says where the others were.                          *)
LEMMA RequestGone ==
    ASSUME Types, NEW i \in DOMAIN requests, requests' = RemoveAt(requests, i)
    PROVE  /\ requests' \in Seq(Request)
           /\ \E old :
                /\ \A j \in DOMAIN requests' : /\ old[j] \in DOMAIN requests \ {i}
                                               /\ requests'[j] = requests[old[j]]
                /\ \A j, k \in DOMAIN requests' : old[j] = old[k] => j = k
                /\ \A k \in DOMAIN requests \ {i} : \E j \in DOMAIN requests' : requests'[j] = requests[k]
<1>1. requests \in Seq(Request) /\ DOMAIN requests = 1..Len(requests) /\ Len(requests) \in Nat
  BY DEF Types
<1>2. /\ requests' \in Seq(Request) /\ Len(requests') = Len(requests) - 1
      /\ \A k \in 1..(Len(requests) - 1) : requests'[k] = IF k < i THEN requests[k] ELSE requests[k + 1]
  BY <1>1, RemoveAtEntries
<1>3. DOMAIN requests' = 1..(Len(requests) - 1)
  BY <1>2
<1>4. PICK old : old = [j \in DOMAIN requests' |-> IF j < i THEN j ELSE j + 1]
  OBVIOUS
<1>5. \A j \in DOMAIN requests' : old[j] \in DOMAIN requests \ {i} /\ requests'[j] = requests[old[j]]
  BY <1>1, <1>2, <1>3, <1>4
<1>6. \A j, k \in DOMAIN requests' : old[j] = old[k] => j = k
  BY <1>1, <1>3, <1>4
<1>7. ASSUME NEW k \in DOMAIN requests \ {i}
      PROVE  \E j \in DOMAIN requests' : requests'[j] = requests[k]
  <2>1. CASE k < i
    <3>1. k \in DOMAIN requests' /\ requests'[k] = requests[k]
      BY <1>1, <1>2, <1>3, <2>1
    <3> QED
      BY <3>1
  <2>2. CASE i < k
    <3>1. k - 1 \in DOMAIN requests' /\ ~(k - 1 < i) /\ (k - 1) + 1 = k
      BY <1>1, <1>3, <2>2
    <3>2. requests'[k - 1] = requests[k]
      BY <1>2, <1>3, <3>1
    <3> QED
      BY <3>1, <3>2
  <2> QED
    BY <1>1, <2>1, <2>2
<1> QED
  BY <1>2, <1>5, <1>6, <1>7

(* The server has done what a request asks for.                             *)
LEMMA RequestDone ==
    ASSUME Types, NEW i \in DOMAIN requests, requests' = [requests EXCEPT ![i].done = TRUE]
    PROVE  /\ requests' \in Seq(Request) /\ DOMAIN requests' = DOMAIN requests /\ requests'[i].done
           /\ \A j \in DOMAIN requests :
                /\ requests'[j].kind = requests[j].kind /\ requests'[j].of = requests[j].of
                /\ j # i => requests'[j] = requests[j]
<1>1. PICK r \in Request : r = requests[i]
  BY DEF Types
<1>2. requests' = [requests EXCEPT ![i] = [r EXCEPT !.done = TRUE]]
  BY <1>1
<1>3. /\ [r EXCEPT !.done = TRUE] \in Request /\ [r EXCEPT !.done = TRUE].done
      /\ [r EXCEPT !.done = TRUE].kind = r.kind /\ [r EXCEPT !.done = TRUE].of = r.of
  BY DEF Request
<1>4. requests \in Seq(Request)
  BY DEF Types
<1>5. PICK q : q = [r EXCEPT !.done = TRUE]
  OBVIOUS
<1>6. requests' = [requests EXCEPT ![i] = q] /\ q \in Request /\ q.done /\ q.kind = r.kind /\ q.of = r.of
  BY <1>2, <1>3, <1>5
<1>7. /\ [requests EXCEPT ![i] = q] \in Seq(Request)
      /\ DOMAIN [requests EXCEPT ![i] = q] = DOMAIN requests
      /\ \A j \in DOMAIN requests : [requests EXCEPT ![i] = q][j] = IF j = i THEN q ELSE requests[j]
  <2>1. i \in 1..Len(requests) /\ q \in Request
    BY <1>4, <1>6
  <2> QED
    BY <1>4, <2>1, ExceptSeq
<1> QED
  BY <1>1, <1>6, <1>7

(* The shape of a request.                                                  *)
LEMMA RequestTypes ==
    ASSUME NEW rs \in Seq(Request)
    PROVE  \A i \in DOMAIN rs : rs[i] \in [kind : Kinds, of : Projects, done : BOOLEAN]
<1>1. \A i \in DOMAIN rs : rs[i] \in Request
  OBVIOUS
<1> QED
  BY <1>1, Zenon DEF Request

(* A request ends that the page has noticed; of its dialog there is no      *)
(* other one.                                                               *)
LEMMA RequestEnds ==
    ASSUME Types, OneOfEach, NEW i \in DOMAIN requests, requests' = RemoveAt(requests, i)
    PROVE  /\ requests' \in Seq(Request) /\ OneOfEach'
           /\ \A j \in DOMAIN requests' : \E k \in DOMAIN requests \ {i} : requests'[j] = requests[k]
           /\ Dialogs \cap Asked' = (Dialogs \cap Asked) \ {requests[i].kind}
           /\ Awaited /\ ~(requests[i].done /\ requests[i].kind # "invite") => Awaited'
<1>1. PICK old :
        /\ \A j \in DOMAIN requests' : old[j] \in DOMAIN requests \ {i} /\ requests'[j] = requests[old[j]]
        /\ \A j, k \in DOMAIN requests' : old[j] = old[k] => j = k
        /\ \A k \in DOMAIN requests \ {i} : \E j \in DOMAIN requests' : requests'[j] = requests[k]
  BY RequestGone
<1>2. OneOfEach'
  <2>1. ASSUME NEW j \in DOMAIN requests', NEW k \in DOMAIN requests',
               requests'[j].kind = requests'[k].kind, requests'[j].kind \in Dialogs
        PROVE  j = k
    <3>1. old[j] \in DOMAIN requests /\ old[k] \in DOMAIN requests
      BY <1>1
    <3>2. requests[old[j]].kind = requests[old[k]].kind /\ requests[old[j]].kind \in Dialogs
      BY <1>1, <2>1
    <3>3. old[j] = old[k]
      BY <3>1, <3>2, Zenon DEF OneOfEach
    <3> QED
      BY <1>1, <3>3
  <2> QED
    BY <2>1 DEF OneOfEach
<1>3. \A d \in Dialogs : d \in Asked' <=> d \in Asked /\ d # requests[i].kind
  <2>1. ASSUME NEW d \in Dialogs, d \in Asked' PROVE d \in Asked /\ d # requests[i].kind
    <3>1. PICK j \in DOMAIN requests' : requests'[j].kind = d
      BY <2>1 DEF Asked
    <3>2. old[j] \in DOMAIN requests \ {i} /\ requests[old[j]].kind = d
      BY <1>1, <3>1
    <3> QED
      BY <3>2 DEF OneOfEach, Asked
  <2>2. ASSUME NEW d \in Dialogs, d \in Asked, d # requests[i].kind PROVE d \in Asked'
    <3>1. PICK k \in DOMAIN requests : requests[k].kind = d
      BY <2>2 DEF Asked
    <3>2. PICK j \in DOMAIN requests' : requests'[j] = requests[k]
      BY <1>1, <2>2, <3>1
    <3> QED
      BY <3>1, <3>2 DEF Asked
  <2> QED
    BY <2>1, <2>2
<1>4. Awaited /\ ~(requests[i].done /\ requests[i].kind # "invite") => Awaited'
  <2>1. ASSUME NEW k \in DOMAIN requests, requests[k].done, requests[k].kind # "invite",
               ~(requests[i].done /\ requests[i].kind # "invite")
        PROVE  Awaited'
    <3>1. k # i
      BY <2>1
    <3>2. PICK j \in DOMAIN requests' : requests'[j] = requests[k]
      BY <1>1, <3>1
    <3> QED
      BY <2>1, <3>2 DEF Awaited
  <2> QED
    BY <2>1 DEF Awaited
<1>5. requests' \in Seq(Request)
  BY RequestGone
<1>6. \A j \in DOMAIN requests' : \E k \in DOMAIN requests \ {i} : requests'[j] = requests[k]
  BY <1>1
<1> QED
  BY <1>2, <1>3, <1>4, <1>5, <1>6

(* A request is sent.                                                       *)
LEMMA SendIs ==
    ASSUME Types, NEW kind \in Kinds, NEW p \in Projects, Send(kind, p)
    PROVE  /\ requests' \in Seq(Request)
           /\ DOMAIN requests' = DOMAIN requests \cup {Len(requests) + 1}
           /\ Len(requests) + 1 \notin DOMAIN requests
           /\ \A i \in DOMAIN requests : requests'[i] = requests[i]
           /\ requests'[Len(requests) + 1] = [kind |-> kind, of |-> p, done |-> FALSE]
           /\ Awaited => Awaited'
<1>1. requests \in Seq(Request) /\ [kind |-> kind, of |-> p, done |-> FALSE] \in Request
  BY DEF Types, Request
<1>2. requests' = Append(requests, [kind |-> kind, of |-> p, done |-> FALSE])
  BY DEF Send
<1>3. /\ requests' \in Seq(Request)
      /\ DOMAIN requests' = DOMAIN requests \cup {Len(requests) + 1}
      /\ Len(requests) + 1 \notin DOMAIN requests
      /\ \A i \in DOMAIN requests : requests'[i] = requests[i]
      /\ requests'[Len(requests) + 1] = [kind |-> kind, of |-> p, done |-> FALSE]
  BY <1>1, <1>2
<1>4. Awaited => Awaited'
  BY <1>3, Zenon DEF Awaited
<1> QED
  BY <1>3, <1>4

(* A load starts.                                                           *)
LEMMA LoadStarts ==
    ASSUME Types, loads' = Append(loads, NewLoad)
    PROVE  /\ loads' \in Seq(Load) /\ loads' # <<>>
           /\ loads'[Len(loads')] = NewLoad
<1>1. loads \in Seq(Load) /\ NewLoad \in Load
  BY NewLoadIs DEF Types
<1> QED
  BY <1>1

(* The loads once a request has failed, and with it the answer is lost.     *)
Losing(lost) == [j \in DOMAIN loads |-> [loads[j] EXCEPT !.misses = @ \/ lost]]

(* When an answer is lost, the loads under way miss what it changed.         *)
LEMMA LostIs ==
    ASSUME Types, NEW lost \in BOOLEAN
    PROVE  /\ Losing(lost) \in Seq(Load)
           /\ lost => \A j \in DOMAIN Losing(lost) : Losing(lost)[j].misses
           /\ ~lost => Losing(lost) = loads
<1> DEFINE ls == Losing(lost)
<1>1. loads \in Seq(Load)
  BY DEF Types
<1>2. ASSUME NEW j \in DOMAIN loads
      PROVE  ls[j] \in Load /\ (lost => ls[j].misses) /\ (~lost => ls[j] = loads[j])
  <2>1. PICK g \in Load : g = loads[j]
    BY <1>1
  <2>2. PICK b \in BOOLEAN : b = (g.misses \/ lost)
    OBVIOUS
  <2>3. ls[j] = [g EXCEPT !.misses = b]
    BY <2>1, <2>2 DEF Losing
  <2>4. g.misses \in BOOLEAN /\ (lost => b = TRUE) /\ (~lost => b = g.misses)
    BY <2>2 DEF Load
  <2>5. [g EXCEPT !.misses = b] \in Load /\ [g EXCEPT !.misses = b].misses = b
    BY DEF Load
  <2>6. b = g.misses => [g EXCEPT !.misses = b] = g
    BY DEF Load
  <2> QED
    BY <2>1, <2>3, <2>4, <2>5, <2>6
<1>3. DOMAIN ls = DOMAIN loads /\ ls = [j \in DOMAIN loads |-> ls[j]]
  BY DEF Losing
<1> HIDE DEF ls
<1>4. \A j \in DOMAIN loads : ls[j] \in Load
  BY <1>2
<1>5. ls \in Seq(Load)
  BY <1>1, <1>3, <1>4
<1>6. lost => \A j \in DOMAIN ls : ls[j].misses
  BY <1>2, <1>3
<1>7. ~lost => \A j \in DOMAIN loads : ls[j] = loads[j]
  BY <1>2
<1>8. ~lost => ls = loads
  BY <1>1, <1>3, <1>5, <1>7
<1> QED
  BY <1>5, <1>6, <1>8 DEF ls

-------------------------------------------------------------------------------
(* What the page shows: four ways in which a step leaves it right.          *)

Follows == LoadsFollow /\ PageFollows

(* Nothing of it changes.                                                   *)
LEMMA FollowsQuietly ==
    ASSUME Follows, UNCHANGED <<mine, shown, loads, behind>>, Awaited => Awaited'
    PROVE  Follows'
  BY Zenon DEF Follows, LoadsFollow, PageFollows, Truth, ProjectsOf, InvitationsOf

(* A load starts.                                                           *)
LEMMA FollowsLoading ==
    ASSUME Types, loads' = Append(loads, NewLoad), UNCHANGED mine
    PROVE  Follows'
<1>1. loads' # <<>> /\ loads'[Len(loads')].projects = {mine'} /\ loads'[Len(loads')].invitations = {mine'}
  BY LoadStarts, NewLoadIs
<1> QED
  BY <1>1 DEF Follows, LoadsFollow, PageFollows

(* Something is missed, or going to be loaded.                              *)
LEMMA FollowsLater ==
    ASSUME (behind' /\ \A i \in DOMAIN loads' : loads'[i].misses) \/ Awaited'
    PROVE  Follows'
  BY DEF Follows, LoadsFollow, PageFollows

(* A load ends and is shown, or fails.                                      *)
LEMMA FollowsLoaded ==
    ASSUME Types, Follows, NEW i \in DOMAIN loads, LoadAnswered(i) \/ LoadFailed(i)
    PROVE  Follows'
<1>1. loads' = AfterLoad(loads, i) /\ UNCHANGED <<mine, requests>>
  BY DEF LoadAnswered, LoadFailed
<1>2. /\ \A k \in DOMAIN loads' :
            loads'[k].overtaken \/ k # Len(loads') \/ loads'[k] = loads[Len(loads)]
      /\ loads' = <<>> => i = Len(loads)
  BY <1>1, LoadGone
<1>3. Awaited <=> Awaited'
  BY <1>1 DEF Awaited
<1>4. Len(loads) \in DOMAIN loads
  BY DEF Types
<1>5. LoadsFollow'
  BY <1>1, <1>2, <1>3, <1>4, Zenon DEF Follows, LoadsFollow
<1>6. PageFollows'
  <2>1. SUFFICES ASSUME loads' = <<>>, ~Awaited', ~behind' PROVE shown' = Truth'
    BY DEF PageFollows
  <2>2. i = Len(loads) /\ ~Awaited /\ LoadAnswered(i)
    BY <1>2, <1>3, <2>1 DEF LoadFailed
  <2>3. loads[i].projects = {mine} /\ loads[i].invitations = {mine}
    BY <2>1, <2>2 DEF Follows, LoadsFollow, LoadAnswered
  <2>4. shown' = [projects |-> ProjectsOf(mine), invitations |-> InvitationsOf(mine)]
    BY <2>2, <2>3 DEF LoadAnswered
  <2> QED
    BY <1>1, <2>4 DEF Truth, ProjectsOf, InvitationsOf
<1> QED
  BY <1>5, <1>6 DEF Follows

-------------------------------------------------------------------------------
(* The dialogs.                                                             *)

(* Nothing of them changes.                                                 *)
LEMMA DialogsQuietly ==
    ASSUME DialogInv, UNCHANGED <<dialogs, requests>>
    PROVE  DialogInv'
  BY DEF DialogInv, dialogs, OneDialog, OneOfEach, OpenMeanwhile, SuccessFades, BusyIsInFlight, InFlight,
         DialogHasProject, SuccessIsForSelected

(* A dialog that is closed while no request of a dialog is under way, or it *)
(* was dismissed already, may be opened.                                    *)
LEMMA NoneIsOpen ==
    ASSUME DialogInv, Free
    PROVE  /\ \A d \in Dialogs : ~open[d]
           /\ ~dismissed => \A i \in DOMAIN requests : requests[i].kind \notin Dialogs
           /\ isSuccess => timer \/ dismissed
  BY DEF DialogInv, Free, OpenDialogs, OpenMeanwhile, SuccessFades, Dialogs

(* The dialog for a new project opens.                                       *)
LEMMA OpenCreateStep ==
    ASSUME Types, DialogInv, OpenCreate
    PROVE  Types' /\ DialogInv'
<1>1. Free /\ open' = [open EXCEPT !["create"] = TRUE] /\ open \in [Dialogs -> BOOLEAN]
      /\ UNCHANGED <<mine, changes, shown, isLoading, selected, busy, isSuccess, invited, timer, loads, requests,
                     behind, dismissed>>
  BY DEF OpenCreate, Types, TypeOK
<1>2. open' \in [Dialogs -> BOOLEAN] /\ \A d \in Dialogs : open'[d] => d = "create"
  BY <1>1, NoneIsOpen DEF Dialogs
<1>3. Types'
  BY <1>1, <1>2 DEF Types, TypeOK
<1>4. OneDialog' /\ DialogHasProject' /\ SuccessIsForSelected'
  BY <1>2 DEF OneDialog, DialogHasProject, SuccessIsForSelected, Dialogs
<1>5. OneOfEach' /\ BusyIsInFlight'
  BY <1>1 DEF DialogInv, OneOfEach, BusyIsInFlight, InFlight
<1>6. OpenMeanwhile'
  BY <1>1, NoneIsOpen DEF OpenMeanwhile, Dialogs
<1>7. SuccessFades'
  BY <1>1, NoneIsOpen DEF SuccessFades
<1> QED
  BY <1>3, <1>4, <1>5, <1>6, <1>7 DEF DialogInv

(* A dialog opens for the project of a card.                                 *)
LEMMA OpenForStep ==
    ASSUME ConstantsOK, Types, DialogInv, NEW d \in {"invite", "delete"}, NEW p \in Projects, OpenFor(d, p)
    PROVE  Types' /\ DialogInv'
<1>1. /\ Free /\ open' = [open EXCEPT ![d] = TRUE] /\ open \in [Dialogs -> BOOLEAN] /\ selected' = p
      /\ dismissed' = (dismissed /\ (requests # <<>> \/ isSuccess))
      /\ UNCHANGED <<mine, changes, shown, isLoading, busy, isSuccess, invited, timer, loads, requests, behind>>
  BY DEF OpenFor, Types, TypeOK
<1>2. open' \in [Dialogs -> BOOLEAN] /\ \A e \in Dialogs : open'[e] => e = d
  BY <1>1, NoneIsOpen DEF Dialogs
<1>3. dismissed' \in BOOLEAN
  BY <1>1
<1>4. Types'
  BY <1>1, <1>2, <1>3 DEF Types, TypeOK
<1>5. OneDialog' /\ DialogHasProject'
  BY <1>1, <1>2 DEF OneDialog, DialogHasProject, ConstantsOK
<1>6. OneOfEach' /\ BusyIsInFlight'
  BY <1>1 DEF DialogInv, OneOfEach, BusyIsInFlight, InFlight
<1>7. OpenMeanwhile'
  <2>1. SUFFICES ASSUME ~dismissed', NEW i \in DOMAIN requests PROVE requests[i].kind \notin Dialogs
    BY <1>1 DEF OpenMeanwhile, Dialogs
  <2>2. CASE requests = <<>>
    BY <2>2
  <2>3. CASE requests # <<>> /\ ~dismissed
    BY <2>3, <1>1, NoneIsOpen
  <2>4. CASE requests # <<>> /\ dismissed
    BY <1>1, <2>1, <2>4
  <2> QED
    BY <2>2, <2>3, <2>4
<1>8. isSuccess' => timer' \/ dismissed'
  BY <1>1, NoneIsOpen
<1>9. SuccessFades' /\ SuccessIsForSelected'
  BY <1>8 DEF SuccessFades, SuccessIsForSelected
<1> QED
  BY <1>4, <1>5, <1>6, <1>7, <1>9 DEF DialogInv

(* A dialog is closed, and its request goes on.                              *)
LEMMA CloseStep ==
    ASSUME Types, DialogInv, NEW d \in Dialogs, Close(d)
    PROVE  Types' /\ DialogInv'
<1>1. /\ open' = [open EXCEPT ![d] = FALSE] /\ open \in [Dialogs -> BOOLEAN]
      /\ timer' = (timer \/ d = "invite") /\ dismissed' = (dismissed \/ InFlight(d))
      /\ UNCHANGED <<mine, changes, shown, isLoading, selected, busy, isSuccess, invited, loads, requests, behind>>
  BY DEF Close, Types, TypeOK
<1>2. open' \in [Dialogs -> BOOLEAN] /\ ~open'[d] /\ \A e \in Dialogs : open'[e] <=> open[e] /\ e # d
  BY <1>1
<1>3. dismissed' \in BOOLEAN /\ timer' \in BOOLEAN /\ (dismissed => dismissed') /\ (timer => timer')
      /\ (d = "invite" => timer') /\ (InFlight(d) => dismissed')
  BY <1>1
<1>4. Types'
  BY <1>1, <1>2, <1>3 DEF Types, TypeOK
<1>5. OneDialog'
  BY <1>2 DEF DialogInv, OneDialog
<1>6. OneOfEach' /\ BusyIsInFlight'
  BY <1>1 DEF DialogInv, OneOfEach, BusyIsInFlight, InFlight
<1>7. OpenMeanwhile'
  BY <1>1, <1>2, <1>3 DEF DialogInv, OpenMeanwhile, InFlight
<1>8. DialogHasProject' /\ SuccessIsForSelected'
  BY <1>1, <1>2, <1>3 DEF DialogInv, DialogHasProject, SuccessIsForSelected, Dialogs
<1>9. SuccessFades'
  BY <1>1, <1>2, <1>3 DEF DialogInv, SuccessFades, Dialogs
<1> QED
  BY <1>4, <1>5, <1>6, <1>7, <1>8, <1>9 DEF DialogInv

(* The success of the last invitation is forgotten.                         *)
LEMMA ForgetStep ==
    ASSUME Types, DialogInv, InviteAnother \/ TimerFires
    PROVE  Types' /\ DialogInv'
<1>1. /\ isSuccess' = FALSE /\ timer' \in BOOLEAN
      /\ UNCHANGED <<mine, changes, shown, isLoading, open, selected, busy, invited, loads, requests, behind, dismissed>>
  BY DEF InviteAnother, TimerFires, Types, TypeOK
<1>2. Types'
  BY <1>1 DEF Types, TypeOK
<1>3. OneDialog' /\ OneOfEach' /\ OpenMeanwhile' /\ BusyIsInFlight' /\ DialogHasProject'
  BY <1>1 DEF DialogInv, OneDialog, OneOfEach, OpenMeanwhile, BusyIsInFlight, InFlight, DialogHasProject
<1> QED
  BY <1>1, <1>2, <1>3 DEF DialogInv, SuccessFades, SuccessIsForSelected

(* A dialog sends its request: there was none, or it would be busy.         *)
LEMMA SubmitStep ==
    ASSUME Types, DialogInv, NEW d \in Dialogs, NEW p \in Projects, Submit(d, p), d = "invite" => p = selected
    PROVE  Types' /\ DialogInv'
<1> DEFINE n == Len(requests) + 1
<1>1. /\ open[d] /\ d \notin busy /\ busy' = busy \cup {d} /\ Send(d, p)
      /\ UNCHANGED <<mine, changes, shown, isLoading, open, selected, isSuccess, invited, timer, loads, behind, dismissed>>
  BY DEF Submit
<1>2. /\ requests' \in Seq(Request) /\ DOMAIN requests' = DOMAIN requests \cup {n} /\ n \notin DOMAIN requests
      /\ \A i \in DOMAIN requests : requests'[i] = requests[i]
      /\ requests'[n].kind = d /\ requests'[n].of = p
  <2>1. d \in Kinds
    BY DEF Kinds
  <2>2. requests'[n] = [kind |-> d, of |-> p, done |-> FALSE]
    BY <1>1, <2>1, SendIs
  <2>3. requests'[n].kind = d /\ requests'[n].of = p
    BY <2>2
  <2> QED
    BY <1>1, <2>1, <2>3, SendIs
<1> HIDE DEF n
<1>3. \A i \in DOMAIN requests : requests[i].kind # d
  BY <1>1 DEF DialogInv, BusyIsInFlight, InFlight
<1>4. Types'
  <2>1. busy' \subseteq Dialogs
    BY <1>1 DEF Types, TypeOK
  <2>2. \A i \in DOMAIN requests' : requests'[i] \in [kind : Kinds, of : Projects, done : BOOLEAN]
    BY <1>2, RequestTypes
  <2> QED
    BY <1>1, <1>2, <2>1, <2>2 DEF Types, TypeOK
<1>5. OneOfEach'
  BY <1>2, <1>3 DEF DialogInv, OneOfEach
<1>6. Asked' = Asked \cup {d}
  BY <1>2 DEF Asked
<1>7. BusyIsInFlight'
  <2>1. busy = Dialogs \cap Asked
    BY BusyIsAsked DEF DialogInv
  <2>2. busy' = Dialogs \cap Asked'
    BY <1>1, <1>6, <2>1
  <2>3. BusyIsInFlight' <=> busy' = Dialogs \cap Asked'
    BY DEF BusyIsInFlight, InFlight, Asked
  <2> QED
    BY <2>2, <2>3
<1>8. OpenMeanwhile'
  BY <1>1, <1>2 DEF DialogInv, OpenMeanwhile
<1>9. OneDialog' /\ SuccessFades' /\ DialogHasProject' /\ SuccessIsForSelected'
  BY <1>1 DEF DialogInv, OneDialog, SuccessFades, DialogHasProject, SuccessIsForSelected
<1> QED
  BY <1>4, <1>5, <1>7, <1>8, <1>9 DEF DialogInv

(* An invitation is answered, outside of the dialogs.                       *)
LEMMA AnswerStep ==
    ASSUME Types, DialogInv, NEW kind \in {"accept", "decline"}, NEW p \in Projects, Answer(kind, p)
    PROVE  Types' /\ DialogInv'
<1> DEFINE n == Len(requests) + 1
<1>1. Send(kind, p) /\ UNCHANGED <<mine, changes, shown, isLoading, dialogs, loads, behind>>
  BY DEF Answer
<1>2. /\ requests' \in Seq(Request) /\ DOMAIN requests' = DOMAIN requests \cup {n} /\ n \notin DOMAIN requests
      /\ \A i \in DOMAIN requests : requests'[i] = requests[i]
      /\ requests'[n].kind = kind /\ kind \notin Dialogs
  <2>1. kind \in Kinds /\ kind \notin Dialogs
    BY DEF Kinds, Dialogs
  <2>2. requests'[n] = [kind |-> kind, of |-> p, done |-> FALSE]
    BY <1>1, <2>1, SendIs
  <2>3. requests'[n].kind = kind
    BY <2>2
  <2> QED
    BY <1>1, <2>1, <2>3, SendIs
<1> HIDE DEF n
<1>3. Types'
  <2>1. \A i \in DOMAIN requests' : requests'[i] \in [kind : Kinds, of : Projects, done : BOOLEAN]
    BY <1>2, RequestTypes
  <2> QED
    BY <1>1, <1>2, <2>1 DEF Types, TypeOK, dialogs
<1>4. OneOfEach'
  BY <1>2 DEF DialogInv, OneOfEach
<1>5. BusyIsInFlight'
  <2>1. busy = Dialogs \cap Asked /\ Asked' = Asked \cup {kind}
    BY <1>2, BusyIsAsked DEF DialogInv, Asked
  <2>2. busy' = Dialogs \cap Asked'
    BY <1>1, <1>2, <2>1 DEF dialogs
  <2>3. BusyIsInFlight' <=> busy' = Dialogs \cap Asked'
    BY DEF BusyIsInFlight, InFlight, Asked
  <2> QED
    BY <2>2, <2>3
<1>6. OpenMeanwhile'
  BY <1>1, <1>2 DEF DialogInv, OpenMeanwhile, dialogs, Dialogs
<1>7. OneDialog' /\ SuccessFades' /\ DialogHasProject' /\ SuccessIsForSelected'
  BY <1>1 DEF DialogInv, OneDialog, SuccessFades, DialogHasProject, SuccessIsForSelected, dialogs
<1> QED
  BY <1>3, <1>4, <1>5, <1>6, <1>7 DEF DialogInv

(* The server does what a request asks for, or others do something.         *)
LEMMA AfterIs ==
    ASSUME NEW relation \in Relations, NEW kind \in Kinds
    PROVE  After(relation, kind) \in Relations
  BY DEF After, Relations, Kinds, Dialogs

(* The server stores what a request of the page says.                        *)
LEMMA ServerStep ==
    ASSUME ConstantsOK, Types, DialogInv, Follows, NEW i \in DOMAIN requests, ServerAccepts(i)
    PROVE  Types' /\ DialogInv' /\ Follows'
<1> DEFINE r == requests[i]
           m == [mine EXCEPT ![r.of] = After(@, r.kind)]
<1>1. /\ requests' = [requests EXCEPT ![i].done = TRUE]
      /\ UNCHANGED <<shown, isLoading, dialogs>>
      /\ r.kind = "invite" => UNCHANGED <<mine, changes, loads, behind>>
      /\ r.kind # "invite" => Change(m, FALSE)
  BY DEF ServerAccepts
<1>2. r \in Request
  BY DEF Types
<1>3. /\ requests' \in Seq(Request) /\ DOMAIN requests' = DOMAIN requests
      /\ r.kind # "invite" => Awaited'
      /\ \A j \in DOMAIN requests : requests'[j].kind = requests[j].kind /\ requests'[j].of = requests[j].of
      /\ Awaited => Awaited'
  <2>1. /\ requests' \in Seq(Request) /\ DOMAIN requests' = DOMAIN requests /\ requests'[i].done
        /\ \A j \in DOMAIN requests :
             /\ requests'[j].kind = requests[j].kind /\ requests'[j].of = requests[j].of
             /\ j # i => requests'[j] = requests[j]
    BY <1>1, RequestDone
  <2>2. Awaited => Awaited'
    BY <2>1 DEF Awaited
  <2>3. r.kind # "invite" => Awaited'
    BY <2>1 DEF Awaited
  <2> QED
    BY <2>1, <2>2, <2>3
<1>4. mine' \in [Projects -> Relations] /\ loads' \in Seq(Load) /\ behind' \in BOOLEAN /\ changes' \in 0..MaxChanges
  <2>1. CASE r.kind = "invite"
    BY <1>1, <2>1 DEF Types, TypeOK
  <2>2. CASE r.kind # "invite"
    <3>1. mine \in [Projects -> Relations] /\ r.of \in Projects /\ r.kind \in Kinds
      BY <1>2 DEF Types, TypeOK, Request
    <3>2. m \in [Projects -> Relations]
      BY <3>1, AfterIs
    <3>3. Change(m, FALSE)
      BY <1>1, <2>2
    <3> HIDE DEF m, r
    <3>4. loads' \in Seq(Load) /\ behind' \in BOOLEAN
      BY <3>2, <3>3, ChangeIs
    <3>5. changes < MaxChanges /\ changes' = changes + 1 /\ mine' = m /\ changes \in 0..MaxChanges /\ MaxChanges \in Nat
      BY <3>3 DEF Change, Types, TypeOK, ConstantsOK
    <3>6. changes' \in 0..MaxChanges
      BY <3>5
    <3> QED
      BY <3>2, <3>4, <3>5, <3>6
  <2> QED
    BY <2>1, <2>2
<1>5. Types'
  <2>1. \A j \in DOMAIN requests' : requests'[j] \in [kind : Kinds, of : Projects, done : BOOLEAN]
    BY <1>3, RequestTypes
  <2> QED
    BY <1>1, <1>3, <1>4, <2>1 DEF Types, TypeOK, dialogs
<1>6. OneOfEach' /\ OpenMeanwhile'
  BY <1>1, <1>3 DEF DialogInv, OneOfEach, OpenMeanwhile, dialogs
<1>7. BusyIsInFlight'
  BY <1>1, <1>3 DEF DialogInv, BusyIsInFlight, InFlight, dialogs
<1>8. OneDialog' /\ SuccessFades' /\ DialogHasProject' /\ SuccessIsForSelected'
  BY <1>1 DEF DialogInv, OneDialog, SuccessFades, DialogHasProject, SuccessIsForSelected, dialogs
<1>9. Follows'
  <2>1. CASE r.kind = "invite"
    BY <1>1, <1>3, <2>1, FollowsQuietly
  <2>2. CASE r.kind # "invite"
    BY <1>3, <2>2, FollowsLater
  <2> QED
    BY <2>1, <2>2
<1> QED
  BY <1>5, <1>6, <1>7, <1>8, <1>9 DEF DialogInv

(* Somebody else changes what is mine.                                       *)
LEMMA OthersStep ==
    ASSUME ConstantsOK, Types, DialogInv, Follows, NEW p \in Projects, OthersChange(p)
    PROVE  Types' /\ DialogInv' /\ Follows'
<1>1. PICK relation \in Theirs(mine[p]) : Change([mine EXCEPT ![p] = relation], TRUE)
  BY DEF OthersChange
<1>2. UNCHANGED <<shown, isLoading, dialogs, requests>>
  BY DEF OthersChange
<1> DEFINE m == [mine EXCEPT ![p] = relation]
<1>3. m \in [Projects -> Relations]
  BY DEF Types, TypeOK, Theirs, Relations
<1>4. Change(m, TRUE)
  BY <1>1
<1> HIDE DEF m
<1>5. loads' \in Seq(Load) /\ behind' /\ behind' \in BOOLEAN /\ \A i \in DOMAIN loads' : loads'[i].misses
  BY <1>3, <1>4, ChangeIs
<1>6. changes < MaxChanges /\ changes' = changes + 1 /\ mine' = m /\ changes \in 0..MaxChanges /\ MaxChanges \in Nat
  BY <1>4 DEF Change, Types, TypeOK, ConstantsOK
<1>7. changes' \in 0..MaxChanges
  BY <1>6
<1>8. Types'
  BY <1>2, <1>3, <1>5, <1>6, <1>7 DEF Types, TypeOK, dialogs
<1>9. DialogInv' /\ Follows'
  BY <1>2, <1>5, DialogsQuietly, FollowsLater
<1> QED
  BY <1>8, <1>9

(* The page notices an answer: the dialog is closed or shows success.       *)
LEMMA RequestAnsweredStep ==
    ASSUME Types, DialogInv, Follows, NEW i \in DOMAIN requests, RequestAnswered(i)
    PROVE  Types' /\ DialogInv' /\ Follows'
<1> DEFINE r == requests[i]
<1>1. /\ requests' = RemoveAt(requests, i) /\ busy' = busy \ {r.kind}
      /\ UNCHANGED <<mine, changes, shown, isLoading, timer, behind, dismissed>>
      /\ r.kind = "invite" => loads' = loads
      /\ r.kind # "invite" => loads' = Append(loads, NewLoad)
  BY DEF RequestAnswered, LoadsAfter
<1>2. /\ r.kind = "delete" => /\ open' = [open EXCEPT !["delete"] = FALSE] /\ selected' = None
                              /\ UNCHANGED <<isSuccess, invited>>
      /\ r.kind = "create" => /\ open' = [open EXCEPT !["create"] = FALSE]
                              /\ UNCHANGED <<selected, isSuccess, invited>>
      /\ r.kind = "invite" => isSuccess' = TRUE /\ invited' = r.of /\ UNCHANGED <<open, selected>>
      /\ r.kind \notin Dialogs => UNCHANGED <<open, selected, isSuccess, invited>>
  BY DEF RequestAnswered, Deleted, Dialogs
<1>3. r \in Request
  BY DEF Types
<1>4. /\ requests' \in Seq(Request) /\ OneOfEach'
      /\ \A j \in DOMAIN requests' : \E k \in DOMAIN requests \ {i} : requests'[j] = requests[k]
      /\ Dialogs \cap Asked' = (Dialogs \cap Asked) \ {r.kind}
      /\ Awaited /\ ~(r.done /\ r.kind # "invite") => Awaited'
  BY <1>1, RequestEnds DEF DialogInv
<1>5. /\ open \in [Dialogs -> BOOLEAN] /\ r.kind \in Kinds /\ r.of \in Projects
      /\ \A d, e \in Dialogs : open[d] /\ open[e] => d = e
      /\ "delete" \in Dialogs /\ "invite" \in Dialogs /\ "create" \in Dialogs
  BY <1>3 DEF Types, TypeOK, Request, DialogInv, OneDialog, Dialogs
<1> HIDE DEF r
(* Just the dialog of a request for deletion or creation is closed.         *)
<1>6. /\ open' \in [Dialogs -> BOOLEAN]
      /\ \A d \in Dialogs : open'[d] <=> open[d] /\ ~(d = r.kind /\ r.kind \in {"create", "delete"})
  BY <1>2, <1>5 DEF Kinds, Dialogs
<1>7. Types'
  <2>1. \A j \in DOMAIN requests' : requests'[j] \in [kind : Kinds, of : Projects, done : BOOLEAN]
    BY <1>4, RequestTypes
  <2>2. {selected', invited'} \subseteq Projects \cup {None} /\ isSuccess' \in BOOLEAN /\ busy' \subseteq Dialogs
    <3>1. {selected, invited} \subseteq Projects \cup {None} /\ isSuccess \in BOOLEAN /\ busy \subseteq Dialogs
      BY DEF Types, TypeOK
    <3>2. /\ selected' \in {selected, None} /\ invited' \in {invited, r.of}
          /\ isSuccess' = isSuccess \/ isSuccess' = TRUE
      BY <1>2 DEF Dialogs
    <3> QED
      BY <1>1, <1>5, <3>1, <3>2
  <2>3. loads' \in Seq(Load)
    BY <1>1, LoadStarts DEF Types
  <2> QED
    BY <1>1, <1>4, <1>6, <2>1, <2>2, <2>3 DEF Types, TypeOK
<1>8. OneDialog'
  BY <1>5, <1>6 DEF OneDialog
<1>9. BusyIsInFlight'
  <2>1. busy = Dialogs \cap Asked
    BY BusyIsAsked DEF DialogInv
  <2>2. busy' = Dialogs \cap Asked'
    BY <1>1, <1>4, <2>1
  <2>3. BusyIsInFlight' <=> busy' = Dialogs \cap Asked'
    BY DEF BusyIsInFlight, InFlight, Asked
  <2> QED
    BY <2>2, <2>3
(* Of the requests that are left none is of this dialog, nor of another one *)
(* if this one is open.                                                     *)
<1>10. ASSUME NEW j \in DOMAIN requests'
       PROVE  /\ requests'[j].kind \in Dialogs => requests'[j].kind # r.kind
              /\ ~dismissed /\ requests'[j].kind \in Dialogs => open[requests'[j].kind]
              /\ ~dismissed /\ requests'[j].kind = "invite" => requests'[j].of = selected
  <2>1. PICK k \in DOMAIN requests \ {i} : requests'[j] = requests[k]
    BY <1>4
  <2>2. requests[k].kind \in Dialogs => requests[k].kind # r.kind
    BY <2>1 DEF DialogInv, OneOfEach, r
  <2>3. /\ ~dismissed /\ requests[k].kind \in Dialogs => open[requests[k].kind]
        /\ ~dismissed /\ requests[k].kind = "invite" => requests[k].of = selected
    BY <2>1 DEF DialogInv, OpenMeanwhile
  <2> QED
    BY <2>1, <2>2, <2>3
<1>11. ~dismissed /\ r.kind \in Dialogs => open[r.kind]
  BY DEF DialogInv, OpenMeanwhile, r
<1>12. ~dismissed /\ r.kind = "invite" => r.of = selected
  BY DEF DialogInv, OpenMeanwhile, r
<1>13. OpenMeanwhile'
  <2>1. SUFFICES ASSUME ~dismissed', NEW j \in DOMAIN requests'
                 PROVE  /\ requests'[j].kind \in Dialogs => open'[requests'[j].kind]
                        /\ requests'[j].kind = "invite" => requests'[j].of = selected'
    BY DEF OpenMeanwhile
  <2>2. ~dismissed
    BY <1>1, <2>1
  <2>3. requests'[j].kind \in Dialogs => open'[requests'[j].kind]
    BY <1>6, <1>10, <2>2
  <2>4. CASE r.kind = "delete"
    BY <1>5, <1>10, <1>11, <2>2, <2>3, <2>4
  <2>5. CASE r.kind # "delete"
    <3>1. selected' = selected
      BY <1>2, <2>5 DEF Dialogs
    <3> QED
      BY <1>10, <2>2, <2>3, <3>1
  <2> QED
    BY <2>4, <2>5
<1>14. SuccessFades'
  <2>1. open'["invite"] <=> open["invite"]
    BY <1>5, <1>6
  <2>2. CASE r.kind = "invite"
    BY <1>1, <1>5, <1>11, <2>1, <2>2 DEF SuccessFades
  <2>3. CASE r.kind # "invite"
    <3>1. isSuccess' = isSuccess
      BY <1>2, <2>3 DEF Dialogs
    <3> QED
      BY <1>1, <2>1, <3>1 DEF DialogInv, SuccessFades
  <2> QED
    BY <2>2, <2>3
<1>15. DialogHasProject' /\ SuccessIsForSelected'
  <2>1. CASE dismissed
    BY <1>1, <2>1 DEF DialogHasProject, SuccessIsForSelected
  <2>2. CASE ~dismissed /\ r.kind = "delete"
    <3>1. ~open'["invite"] /\ ~open'["delete"]
      BY <1>5, <1>6, <1>11, <2>2
    <3> QED
      BY <3>1 DEF DialogHasProject, SuccessIsForSelected
  <2>3. CASE ~dismissed /\ r.kind = "invite"
    BY <1>2, <1>12, <2>3 DEF DialogInv, DialogHasProject, SuccessIsForSelected
  <2>4. CASE ~dismissed /\ r.kind \notin {"delete", "invite"}
    <3>1. UNCHANGED <<selected, isSuccess, invited, timer, dismissed>>
      BY <1>1, <1>2, <2>4 DEF Dialogs
    <3>2. (open'["invite"] <=> open["invite"]) /\ (open'["delete"] <=> open["delete"])
      BY <1>5, <1>6, <2>4
    <3> QED
      BY <3>1, <3>2 DEF DialogInv, DialogHasProject, SuccessIsForSelected
  <2> QED
    BY <2>1, <2>2, <2>3, <2>4
<1>16. Follows'
  <2>1. CASE r.kind = "invite"
    BY <1>1, <1>4, <2>1, FollowsQuietly
  <2>2. CASE r.kind # "invite"
    BY <1>1, <2>2, FollowsLoading
  <2> QED
    BY <2>1, <2>2
<1> QED
  BY <1>4, <1>7, <1>8, <1>9, <1>13, <1>14, <1>15, <1>16 DEF DialogInv

(* A request is refused, or its answer is lost.                             *)
LEMMA RequestFailedStep ==
    ASSUME Types, DialogInv, Follows, NEW i \in DOMAIN requests, RequestFailed(i)
    PROVE  Types' /\ DialogInv' /\ Follows'
<1> DEFINE r == requests[i]
<1>1. PICK lost \in BOOLEAN : lost <=> r.done /\ r.kind # "invite"
  OBVIOUS
<1>2. /\ requests' = RemoveAt(requests, i) /\ busy' = busy \ {r.kind}
      /\ UNCHANGED <<mine, changes, shown, isLoading, open, selected, isSuccess, invited, timer, dismissed>>
  BY DEF RequestFailed, NoLongerBusy
<1>3. loads' = Losing(lost) /\ behind' = (behind \/ lost)
  <2>1. r.done \in BOOLEAN
    BY DEF Types, TypeOK
  <2>2. lost = (r.done /\ r.kind # "invite")
    BY <1>1, <2>1
  <2> HIDE DEF r
  <2>3. /\ loads' = [j \in DOMAIN loads |-> [loads[j] EXCEPT !.misses = @ \/ (r.done /\ r.kind # "invite")]]
        /\ behind' = (behind \/ (r.done /\ r.kind # "invite"))
    BY Zenon DEF RequestFailed, r
  <2> QED
    BY <2>2, <2>3, Zenon DEF Losing
<1>4. /\ requests' \in Seq(Request) /\ OneOfEach'
      /\ \A j \in DOMAIN requests' : \E k \in DOMAIN requests \ {i} : requests'[j] = requests[k]
      /\ Dialogs \cap Asked' = (Dialogs \cap Asked) \ {r.kind}
      /\ Awaited /\ ~lost => Awaited'
  BY <1>1, <1>2, RequestEnds DEF DialogInv
<1>5. /\ loads' \in Seq(Load)
      /\ lost => \A j \in DOMAIN loads' : loads'[j].misses
      /\ ~lost => loads' = loads
  BY <1>3, LostIs
<1> HIDE DEF r
<1>6. behind' \in BOOLEAN /\ (lost => behind') /\ (~lost => behind' = behind)
  BY <1>3 DEF Types, TypeOK
<1>7. Types'
  <2>1. \A j \in DOMAIN requests' : requests'[j] \in [kind : Kinds, of : Projects, done : BOOLEAN]
    BY <1>4, RequestTypes
  <2>2. busy' \subseteq Dialogs
    BY <1>2 DEF Types, TypeOK
  <2> QED
    BY <1>2, <1>4, <1>5, <1>6, <2>1, <2>2 DEF Types, TypeOK
<1>8. BusyIsInFlight'
  <2>1. busy = Dialogs \cap Asked
    BY BusyIsAsked DEF DialogInv
  <2>2. busy' = Dialogs \cap Asked'
    BY <1>2, <1>4, <2>1
  <2>3. BusyIsInFlight' <=> busy' = Dialogs \cap Asked'
    BY DEF BusyIsInFlight, InFlight, Asked
  <2> QED
    BY <2>2, <2>3
<1>9. OpenMeanwhile'
  <2>1. SUFFICES ASSUME ~dismissed, NEW j \in DOMAIN requests'
                 PROVE  /\ requests'[j].kind \in Dialogs => open[requests'[j].kind]
                        /\ requests'[j].kind = "invite" => requests'[j].of = selected
    BY <1>2 DEF OpenMeanwhile
  <2>2. PICK k \in DOMAIN requests \ {i} : requests'[j] = requests[k]
    BY <1>4
  <2> QED
    BY <2>1, <2>2 DEF DialogInv, OpenMeanwhile
<1>10. OneDialog' /\ SuccessFades' /\ DialogHasProject' /\ SuccessIsForSelected'
  BY <1>2 DEF DialogInv, OneDialog, SuccessFades, DialogHasProject, SuccessIsForSelected
<1>11. Follows'
  <2>1. CASE lost
    BY <1>5, <1>6, <2>1, FollowsLater
  <2>2. CASE ~lost
    BY <1>2, <1>4, <1>5, <1>6, <2>2, FollowsQuietly
  <2> QED
    BY <2>1, <2>2
<1> QED
  BY <1>4, <1>7, <1>8, <1>9, <1>10, <1>11 DEF DialogInv

-------------------------------------------------------------------------------
(* The page.                                                                *)

(* The page starts with its first load.                                      *)
LEMMA InitIInv == ASSUME ConstantsOK, Init PROVE IInv
<1>1. mine \in [Projects -> Relations] /\ loads = <<NewLoad>> /\ requests = <<>>
  BY DEF Init
<1>2. /\ changes = 0 /\ shown = [projects |-> <<>>, invitations |-> {}] /\ isLoading = TRUE
      /\ open = [d \in Dialogs |-> FALSE] /\ selected = None /\ busy = {}
      /\ isSuccess = FALSE /\ invited = None /\ timer = FALSE /\ dismissed = FALSE /\ behind = FALSE
  BY DEF Init
<1>3. NewLoad \in Load /\ NewLoad.projects = {mine} /\ NewLoad.invitations = {mine}
  BY <1>1 DEF NewLoad, Load
<1>4. changes \in 0..MaxChanges
  BY <1>2 DEF ConstantsOK
<1>5. Types
  <2>1. loads \in Seq(Load) /\ requests \in Seq(Request) /\ DOMAIN requests = {}
    BY <1>1, <1>3
  <2>2. DOMAIN shown.projects = {} /\ shown.invitations = {}
    BY <1>2
  <2> QED
    BY <1>1, <1>2, <1>4, <2>1, <2>2 DEF Types, TypeOK
<1>6. LoadsFollow /\ PageFollows
  <2>1. loads[Len(loads)] = NewLoad /\ loads # <<>>
    BY <1>1
  <2> QED
    BY <1>3, <2>1 DEF LoadsFollow, PageFollows
<1>7. DialogInv
  <2>1. DOMAIN requests = {} /\ \A d \in Dialogs : ~open[d]
    BY <1>1, <1>2
  <2> QED
    BY <1>2, <2>1 DEF DialogInv, OneDialog, OneOfEach, OpenMeanwhile, SuccessFades, BusyIsInFlight, InFlight,
                      DialogHasProject, SuccessIsForSelected, Dialogs
<1> QED
  BY <1>5, <1>6, <1>7 DEF IInv

(* A load starts or ends.                                                   *)
LEMMA LoadStep ==
    ASSUME Types, DialogInv, Follows,
           StartLoad \/ \E i \in DOMAIN loads : LoadAnswered(i) \/ LoadFailed(i)
    PROVE  Types' /\ DialogInv' /\ Follows'
<1>1. UNCHANGED <<mine, changes, dialogs, requests>>
  BY DEF StartLoad, LoadAnswered, LoadFailed
<1>2. DialogInv'
  BY <1>1, DialogsQuietly
<1>3. CASE StartLoad
  <2>1. loads' = Append(loads, NewLoad) /\ UNCHANGED <<mine, shown, isLoading, behind>>
    BY <1>3 DEF StartLoad
  <2>2. loads' \in Seq(Load)
    BY <2>1, LoadStarts
  <2>3. Types'
    BY <1>1, <2>1, <2>2 DEF Types, TypeOK, dialogs
  <2> QED
    BY <1>2, <2>1, <2>3, FollowsLoading
<1>4. ASSUME NEW i \in DOMAIN loads, LoadAnswered(i) \/ LoadFailed(i)
      PROVE  Types' /\ DialogInv' /\ Follows'
  <2>1. loads' \in Seq(Load)
    BY <1>4, LoadGone DEF LoadAnswered, LoadFailed
  <2>2. PICK f \in Load : f = loads[i]
    BY DEF Types
  <2>3. isLoading' = FALSE /\ behind' \in BOOLEAN
    <3>1. f.misses \in BOOLEAN /\ f.overtaken \in BOOLEAN
      BY DEF Load
    <3>2. LoadAnswered(i) => behind' = (f.misses \/ f.overtaken) /\ isLoading' = FALSE
      BY <2>2 DEF LoadAnswered
    <3>3. LoadFailed(i) => behind' = TRUE /\ isLoading' = FALSE
      BY DEF LoadFailed
    <3> QED
      BY <1>4, <3>1, <3>2, <3>3
  <2>4. DOMAIN shown'.projects \subseteq Projects /\ shown'.invitations \subseteq Projects
    <3>1. CASE LoadAnswered(i)
      <4>1. PICK a \in loads[i].projects, b \in loads[i].invitations :
                shown' = [projects |-> ProjectsOf(a), invitations |-> InvitationsOf(b)]
        BY <3>1 DEF LoadAnswered
      <4>2. shown'.projects = ProjectsOf(a) /\ shown'.invitations = InvitationsOf(b)
        BY <4>1
      <4> QED
        BY <4>2 DEF ProjectsOf, InvitationsOf
    <3>2. CASE LoadFailed(i)
      BY <3>2 DEF LoadFailed, Types, TypeOK
    <3> QED
      BY <1>4, <3>1, <3>2
  <2>5. Types'
    BY <1>1, <2>1, <2>3, <2>4 DEF Types, TypeOK, dialogs
  <2> QED
    BY <1>2, <1>4, <2>5, FollowsLoaded
<1> QED
  BY <1>3, <1>4

(* What the user does in the dialogs and on the cards, and the timer, leave *)
(* what is stored, the page and its loads alone.                            *)
LEMMA UserStep ==
    ASSUME ConstantsOK, Types, DialogInv, Follows, UserActs \/ TimerFires, ~StartLoad
    PROVE  Types' /\ DialogInv' /\ Follows'
<1>1. Types' /\ DialogInv' /\ UNCHANGED <<mine, shown, loads, behind>> /\ (Awaited => Awaited')
  <2>1. CASE OpenCreate \/ InviteAnother \/ TimerFires
    <3>1. UNCHANGED <<mine, shown, loads, behind, requests>>
      BY <2>1 DEF OpenCreate, InviteAnother, TimerFires
    <3> QED
      BY <2>1, <3>1, OpenCreateStep, ForgetStep DEF Awaited
  <2>2. ASSUME NEW p \in Projects, NEW d \in {"invite", "delete"}, OpenFor(d, p)
        PROVE  Types' /\ DialogInv' /\ UNCHANGED <<mine, shown, loads, behind>> /\ (Awaited => Awaited')
    <3>1. UNCHANGED <<mine, shown, loads, behind, requests>>
      BY <2>2 DEF OpenFor
    <3> QED
      BY <2>2, <3>1, OpenForStep DEF Awaited
  <2>3. ASSUME NEW d \in Dialogs, Close(d)
        PROVE  Types' /\ DialogInv' /\ UNCHANGED <<mine, shown, loads, behind>> /\ (Awaited => Awaited')
    <3>1. UNCHANGED <<mine, shown, loads, behind, requests>>
      BY <2>3 DEF Close
    <3> QED
      BY <2>3, <3>1, CloseStep DEF Awaited
  <2>4. ASSUME NEW d \in Dialogs, NEW p \in Projects, Submit(d, p), d = "invite" => p = selected
        PROVE  Types' /\ DialogInv' /\ UNCHANGED <<mine, shown, loads, behind>> /\ (Awaited => Awaited')
    <3>1. d \in Kinds /\ Send(d, p) /\ UNCHANGED <<mine, shown, loads, behind>>
      BY <2>4 DEF Submit, Kinds
    <3>2. Awaited => Awaited'
      BY <3>1, SendIs
    <3> QED
      BY <2>4, <3>1, <3>2, SubmitStep
  <2>5. CASE SubmitCreate \/ SubmitInvite \/ ConfirmDelete
    <3>1. PICK d \in Dialogs, p \in Projects : Submit(d, p) /\ (d = "invite" => p = selected)
      BY <2>5 DEF SubmitCreate, SubmitInvite, ConfirmDelete, Dialogs, Types, TypeOK
    <3> QED
      BY <2>4, <3>1
  <2>6. ASSUME NEW p \in Projects, NEW kind \in {"accept", "decline"}, Answer(kind, p)
        PROVE  Types' /\ DialogInv' /\ UNCHANGED <<mine, shown, loads, behind>> /\ (Awaited => Awaited')
    <3>1. kind \in Kinds /\ Send(kind, p) /\ UNCHANGED <<mine, shown, loads, behind>>
      BY <2>6 DEF Answer, Kinds
    <3>2. Awaited => Awaited'
      BY <3>1, SendIs
    <3> QED
      BY <2>6, <3>1, <3>2, AnswerStep
  <2> QED
    BY <2>1, <2>2, <2>3, <2>5, <2>6 DEF UserActs
<1> QED
  BY <1>1, FollowsQuietly

(* Every action keeps IInv.                                                  *)
LEMMA IInvStep == ASSUME ConstantsOK, IInv, [Next]_vars PROVE IInv'
<1>1. Types /\ DialogInv /\ Follows
  BY DEF IInv, Follows
<1>2. CASE Next
  <2>1. CASE StartLoad \/ \E i \in DOMAIN loads : LoadAnswered(i) \/ LoadFailed(i)
    BY <1>1, <2>1, LoadStep DEF IInv, Follows
  <2>2. CASE (UserActs \/ TimerFires) /\ ~StartLoad
    BY <1>1, <2>2, UserStep DEF IInv, Follows
  <2>3. ASSUME NEW i \in DOMAIN requests, RequestAnswered(i) \/ RequestFailed(i) \/ ServerAccepts(i)
        PROVE  IInv'
    BY <1>1, <2>3, RequestAnsweredStep, RequestFailedStep, ServerStep DEF IInv, Follows
  <2>4. ASSUME NEW p \in Projects, OthersChange(p) PROVE IInv'
    BY <1>1, <2>4, OthersStep DEF IInv, Follows
  <2> QED
    BY <1>2, <2>1, <2>2, <2>3, <2>4 DEF Next, CallEnds
<1>3. CASE UNCHANGED vars
  <2>1. UNCHANGED <<mine, changes, shown, isLoading, dialogs, loads, requests, behind>>
    BY <1>3 DEF vars
  <2>2. DialogInv'
    BY <1>1, <2>1, DialogsQuietly
  <2>3. Follows'
    BY <1>1, <2>1, FollowsQuietly DEF Awaited
  <2>4. Types'
    BY <1>1, <2>1 DEF Types, TypeOK, dialogs
  <2> QED
    BY <2>2, <2>3, <2>4 DEF IInv, Follows
<1> QED
  BY <1>2, <1>3

(* What IInv says of a page at rest.                                        *)
LEMMA IInvGives ==
    ASSUME IInv
    PROVE  TypeOK /\ ListIsFresh /\ DialogHasProject /\ SuccessIsForSelected /\ BusyIsInFlight
<1>1. ListIsFresh
  <2>1. SUFFICES ASSUME Settled, ~behind
                 PROVE  /\ shown = Truth
                        /\ \A p \in DOMAIN shown.projects :
                              \A k \in Card(p).menu \ {"view"} : Accepts(mine[p], k)
                        /\ \A p \in shown.invitations : \A k \in InvitationCard(p) : Accepts(mine[p], k)
                        /\ Badge = Cardinality(InvitationsOf(mine))
    BY DEF ListIsFresh
  <2>2. ~Awaited /\ loads = <<>>
    BY <2>1 DEF Settled, Awaited
  <2>3. shown = Truth
    BY <2>1, <2>2 DEF IInv, PageFollows
  <2>4. shown.projects = [p \in {q \in Projects : Member(mine[q])} |-> mine[p]]
        /\ shown.invitations = {p \in Projects : mine[p] = "invited"}
        /\ shown.invitations = InvitationsOf(mine)
    BY <2>3 DEF Truth, ProjectsOf, InvitationsOf
  <2>5. ASSUME NEW p \in DOMAIN shown.projects, NEW k \in Card(p).menu \ {"view"} PROVE Accepts(mine[p], k)
    <3>1. k \in {"invite", "delete"} /\ shown.projects[p] = "admin"
      BY DEF Card, CardMenu
    <3>2. mine[p] = "admin"
      BY <2>4, <3>1
    <3> QED
      BY <3>1, <3>2 DEF Accepts
  <2>6. ASSUME NEW p \in shown.invitations, NEW k \in InvitationCard(p) PROVE Accepts(mine[p], k)
    BY <2>4 DEF InvitationCard, Accepts
  <2> QED
    BY <2>3, <2>4, <2>5, <2>6 DEF Badge
<1> QED
  BY <1>1 DEF IInv, Types, DialogInv

(* The list, the dialogs and the calls under way keep their types.          *)
THEOREM ListTypesCorrect == ASSUME ConstantsOK PROVE Spec => []TypeOK
<1>1. Init => IInv
  BY InitIInv
<1>2. IInv /\ [Next]_vars => IInv'
  BY IInvStep
<1>3. IInv => TypeOK
  BY IInvGives
<1> QED
  BY <1>1, <1>2, <1>3, PTL DEF Spec

(* fetchData and the handlers of Projects.tsx: however loads, requests and  *)
(* answers follow one another, the page at rest shows what is stored and    *)
(* offers what is accepted, apart from what it could not know.              *)
THEOREM ListCorrect == ASSUME ConstantsOK PROVE Spec => []ListIsFresh
<1>1. Init => IInv
  BY InitIInv
<1>2. IInv /\ [Next]_vars => IInv'
  BY IInvStep
<1>3. IInv => ListIsFresh
  BY IInvGives
<1> QED
  BY <1>1, <1>2, <1>3, PTL DEF Spec

(* handleDeleteProject clears the selection of its own dialog only, unless  *)
(* it was dismissed.                                                        *)
THEOREM DialogsCorrect == ASSUME ConstantsOK PROVE Spec => []DialogHasProject
<1>1. Init => IInv
  BY InitIInv
<1>2. IInv /\ [Next]_vars => IInv'
  BY IInvStep
<1>3. IInv => DialogHasProject
  BY IInvGives
<1> QED
  BY <1>1, <1>2, <1>3, PTL DEF Spec

(* InviteExpertModal: the success of one project is not shown for another.  *)
THEOREM SuccessCorrect == ASSUME ConstantsOK PROVE Spec => []SuccessIsForSelected
<1>1. Init => IInv
  BY InitIInv
<1>2. IInv /\ [Next]_vars => IInv'
  BY IInvStep
<1>3. IInv => SuccessIsForSelected
  BY IInvGives
<1> QED
  BY <1>1, <1>2, <1>3, PTL DEF Spec

(* The dialogs: each is busy exactly as long as its request is under way.   *)
THEOREM BusyCorrect == ASSUME ConstantsOK PROVE Spec => []BusyIsInFlight
<1>1. Init => IInv
  BY InitIInv
<1>2. IInv /\ [Next]_vars => IInv'
  BY IInvStep
<1>3. IInv => BusyIsInFlight
  BY IInvGives
<1> QED
  BY <1>1, <1>2, <1>3, PTL DEF Spec

===============================================================================
