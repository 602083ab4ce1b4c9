--------------------------- MODULE ProjectPage_proofs ---------------------------
(***************************************************************************)
(* Proofs about ProjectPage, for any people, projects, estimates and bounds *)
(* of the calls under way.                                                  *)
(***************************************************************************)
EXTENDS ProjectPage, TLAPS

-------------------------------------------------------------------------------
(* The sequences of calls under way.                                        *)

(* One call ends: those after it move up.                                   *)
LEMMA RemoveAtEntries ==
    ASSUME NEW S, NEW s \in Seq(S), NEW i \in DOMAIN s
    PROVE  /\ RemoveAt(s, i) \in Seq(S)
           /\ Len(RemoveAt(s, i)) = Len(s) - 1
           /\ \A k \in 1..(Len(s) - 1) : RemoveAt(s, i)[k] = IF k < i THEN s[k] ELSE s[k + 1]
<1> DEFINE a == SubSeq(s, 1, i - 1)
           b == SubSeq(s, i + 1, Len(s))
<1>1. a \in Seq(S) /\ Len(a) = i - 1 /\ \A k \in 1..(i - 1) : a[k] = s[k]
  OBVIOUS
<1>2. b \in Seq(S) /\ Len(b) = Len(s) - i /\ \A k \in 1..(Len(s) - i) : b[k] = s[i + k]
  OBVIOUS
<1>3. RemoveAt(s, i) = a \o b
  BY DEF RemoveAt
<1> HIDE DEF a, b
<1>4. a \o b \in Seq(S) /\ Len(a \o b) = Len(s) - 1
  BY <1>1, <1>2
<1>5. ASSUME NEW k \in 1..(Len(s) - 1), k < i PROVE (a \o b)[k] = s[k]
  BY <1>1, <1>2, <1>5
<1>6. ASSUME NEW k \in 1..(Len(s) - 1), ~(k < i) PROVE (a \o b)[k] = s[k + 1]
  <2>1. k - (i - 1) \in 1..(Len(s) - i) /\ i + (k - (i - 1)) = k + 1
    BY <1>6
  <2>2. (a \o b)[k] = b[k - (i - 1)]
    BY <1>1, <1>2, <1>6
  <2> QED
    BY <1>2, <2>1, <2>2
<1> QED
  BY <1>3, <1>4, <1>5, <1>6

(* A load ends: those before it are overtaken, those after it move up.      *)
LEMMA AfterLoadEntries ==
    ASSUME NEW S, \A f \in S : [f EXCEPT !.overtaken = TRUE] \in S,
           NEW q \in Seq(S), NEW i \in DOMAIN q
    PROVE  /\ AfterLoad(q, i) \in Seq(S)
           /\ Len(AfterLoad(q, i)) = Len(q) - 1
           /\ \A k \in 1..(Len(q) - 1) :
                AfterLoad(q, i)[k] = IF k < i THEN [q[k] EXCEPT !.overtaken = TRUE] ELSE q[k + 1]
<1> DEFINE marked == [j \in DOMAIN q |-> IF j < i THEN [q[j] EXCEPT !.overtaken = TRUE] ELSE q[j]]
<1>1. marked \in Seq(S) /\ Len(marked) = Len(q)
  OBVIOUS
<1>2. i \in DOMAIN marked
  OBVIOUS
<1>3. AfterLoad(q, i) = RemoveAt(marked, i)
  BY DEF AfterLoad
<1>4. \A k \in DOMAIN q : marked[k] = IF k < i THEN [q[k] EXCEPT !.overtaken = TRUE] ELSE q[k]
  BY Zenon
<1> HIDE DEF marked
<1>5. \A k \in 1..(Len(marked) - 1) : RemoveAt(marked, i)[k] = IF k < i THEN marked[k] ELSE marked[k + 1]
  BY <1>1, <1>2, RemoveAtEntries
<1>6. ASSUME NEW k \in 1..(Len(q) - 1)
      PROVE  AfterLoad(q, i)[k] = IF k < i THEN [q[k] EXCEPT !.overtaken = TRUE] ELSE q[k + 1]
  <2>1. k \in DOMAIN q /\ k + 1 \in DOMAIN q /\ (~(k < i) => ~(k + 1 < i))
    OBVIOUS
  <2>2. AfterLoad(q, i)[k] = IF k < i THEN marked[k] ELSE marked[k + 1]
    BY <1>1, <1>3, <1>5
  <2> QED
    BY <1>4, <2>1, <2>2
<1> QED
  BY <1>1, <1>2, <1>3, <1>6, RemoveAtEntries

-------------------------------------------------------------------------------
(* The loads that have a page to fill. *)
Live == {i \in DOMAIN loads : loads[i].live}

(* The projects that the page is going to load, or to leave, as soon as the *)
(* answer is there to what the server has done already.                     *)
Following == Reloading \cup {"delete_project"}

Awaited ==
    {p \in Projects :
        \E i \in DOMAIN requests :
            /\ requests[i].live /\ requests[i].done
            /\ requests[i].of = p /\ requests[i].kind \in Following}

Empty(c) == \A u \in People : c.opinion[u] = NoOpinion

(* The last load under way brings what is stored, the parts apart that it   *)
(* misses, or nothing new to know is awaited; and who is no longer a member *)
(* while it is under way has deleted the project.                           *)
LoadsFollow ==
    \A i \in Live :
        /\ server[loads[i].of] \in loads[i].seen
        /\ ~loads[i].overtaken /\ loads[i].of \notin Awaited /\ (\A j \in Live : j <= i) =>
             \A part \in Parts \ loads[i].misses, c \in loads[i].seen :
                 Answers(loads[i].of, c)[part] = Answers(loads[i].of, server[loads[i].of])[part]
        /\ "result" \notin loads[i].misses =>
             \A c, d \in loads[i].seen : IsMember(c, Me) /\ ~IsMember(d, Me) => Empty(d)

(* What the page shows is what is stored, or a load is going to bring it.   *)
PageFollows ==
    Shown /\ Live = {} /\ route \notin Awaited =>
        \A part \in Parts \ behind : shown[part] = Truth[part]

FormFollows ==
    shown # Nothing /\ ~typed /\ MyOpinion(shown) # NoOpinion /\ Live = {} => form = MyOpinion(shown)

(* Only members are shown a project.                                        *)
MembersShown == shown # Nothing => shown.members[Me] # "none"

(* The calls of a page that was left are not its successor's.               *)
NothingLive == route = List => Live = {} /\ \A i \in DOMAIN requests : ~requests[i].live

IInv == TypeOK /\ LoadsFollow /\ PageFollows /\ FormFollows /\ MembersShown /\ NothingLive

-------------------------------------------------------------------------------
(* What is stored.                                                          *)

(* What a request makes of a project that accepts it: nobody becomes a      *)
(* member by a request of a member.                                         *)
LEMMA AfterIs ==
    ASSUME NEW c \in Contents, NEW u \in People, NEW r,
           r.kind \in Kinds, r.kind = "save" => r.arg \in Estimates,
           r.kind # "save" => r.arg \in People,
           Accepts(c, u, r), r.kind = "invite" => r.arg # Me
    PROVE  /\ After(c, u, r) \in Contents
           /\ IsMember(After(c, u, r), Me) => IsMember(c, Me)
           /\ u = Me => IsMember(After(c, u, r), Me) \/ Empty(After(c, u, r))
           /\ r.kind = "export" => After(c, u, r) = c
           /\ r.kind = "invite" => /\ After(c, u, r).role = c.role
                                   /\ After(c, u, r).opinion = c.opinion
<1> DEFINE a == After(c, u, r)
<1>0. /\ c.role \in [People -> Roles] /\ c.opinion \in [People -> Estimates \cup {NoOpinion}]
      /\ c.invited \subseteq Others /\ c.exists \in BOOLEAN /\ Me \in People
      /\ c = [exists |-> c.exists, role |-> c.role, opinion |-> c.opinion, invited |-> c.invited]
  BY DEF Contents, People
<1>1. CASE r.kind = "save"
  <2>1. a = [c EXCEPT !.opinion[u] = r.arg]
    BY <1>1 DEF After
  <2> QED
    BY <1>0, <1>1, <2>1 DEF Contents, Accepts, IsMember
<1>2. CASE r.kind = "withdraw"
  <2>1. a = [c EXCEPT !.opinion[u] = NoOpinion]
    BY <1>2 DEF After
  <2> QED
    BY <1>0, <1>2, <2>1 DEF Contents, Accepts, IsMember
<1>3. CASE r.kind = "remove"
  <2>1. a = [c EXCEPT !.role[r.arg] = "none"]
    BY <1>3 DEF After
  <2> QED
    BY <1>0, <1>3, <2>1 DEF Contents, Accepts, IsMember, Roles
<1>4. CASE r.kind = "transfer"
  <2>1. a = [c EXCEPT !.role = [@ EXCEPT ![u] = "expert", ![r.arg] = "admin"]]
    BY <1>4 DEF After
  <2>2. r.arg # u /\ IsMember(c, u)
    BY <1>4, <2>1 DEF Accepts
  <2>3. /\ a = [exists |-> c.exists, role |-> a.role, opinion |-> c.opinion, invited |-> c.invited]
        /\ a.role = [c.role EXCEPT ![u] = "expert", ![r.arg] = "admin"]
    BY <1>0, <2>1
  <2>4. a.role \in [People -> Roles]
    BY <1>0, <2>3 DEF Roles
  <2>5. a \in Contents
    BY <1>0, <2>3, <2>4 DEF Contents
  <2>6. u = Me => IsMember(a, Me)
    BY <1>0, <1>4, <2>2, <2>3 DEF IsMember
  <2>7. IsMember(a, Me) => IsMember(c, Me)
    BY <1>0, <1>4, <2>2, <2>3 DEF IsMember, Accepts
  <2> QED
    BY <1>4, <2>5, <2>6, <2>7
<1>5. CASE r.kind = "invite"
  <2>1. a = [c EXCEPT !.invited = @ \cup {r.arg}]
    BY <1>5 DEF After
  <2>2. a = [exists |-> c.exists, role |-> c.role, opinion |-> c.opinion, invited |-> c.invited \cup {r.arg}]
    BY <1>0, <2>1
  <2>3. c.invited \cup {r.arg} \subseteq Others
    BY <1>0, <1>5 DEF People
  <2>4. a \in Contents
    BY <1>0, <2>2, <2>3 DEF Contents
  <2>5. u = Me => IsMember(a, Me)
    BY <1>0, <1>5, <2>2 DEF Accepts, IsMember
  <2>6. a.role = c.role /\ a.opinion = c.opinion /\ (IsMember(a, Me) => IsMember(c, Me))
    BY <2>2 DEF IsMember
  <2> QED
    BY <1>5, <2>4, <2>5, <2>6
<1>6. CASE r.kind = "delete_project"
  <2>1. a = Gone
    BY <1>6 DEF After
  <2> QED
    BY <1>0, <1>6, <2>1 DEF Contents, IsMember, Gone, Empty, Roles
<1>7. CASE r.kind = "export"
  <2>1. a = c
    BY <1>7 DEF After
  <2> QED
    BY <1>0, <1>7, <2>1 DEF Accepts, IsMember
<1> QED
  BY <1>1, <1>2, <1>3, <1>4, <1>5, <1>6, <1>7 DEF Kinds, AdminKinds, AboutMember

(* What others make of a project; they make me no member of it.             *)
LEMMA TheirsAre ==
    ASSUME NEW c \in Contents, NEW d \in Theirs(c)
    PROVE  d \in Contents /\ (IsMember(d, Me) => IsMember(c, Me))
<1>0. /\ c.role \in [People -> Roles] /\ c.opinion \in [People -> Estimates \cup {NoOpinion}]
      /\ c.invited \subseteq Others /\ c.exists \in BOOLEAN /\ Me \notin Others /\ Others \subseteq People
      /\ c = [exists |-> c.exists, role |-> c.role, opinion |-> c.opinion, invited |-> c.invited]
  BY ConstantsAssumption DEF Contents, People
<1>1. ASSUME NEW u \in Others, NEW r \in RequestsBy(u), Accepts(c, u, r), ~(r.kind = "invite" /\ r.arg = Me),
             d = After(c, u, r)
      PROVE  d \in Contents /\ (IsMember(d, Me) => IsMember(c, Me))
  <2>1. /\ r.kind \in {"save", "transfer", "remove", "invite", "withdraw", "delete_project"}
        /\ r.kind = "save" => r.arg \in TheirEstimates
        /\ r.kind # "save" => r.arg \in People
    BY <1>0 DEF RequestsBy
  <2>2. TheirEstimates \subseteq Estimates /\ u \in People
    BY <1>0, ConstantsAssumption
  <2> QED
    BY <1>1, <2>1, <2>2, AfterIs DEF Kinds, AdminKinds, AboutMember
<1>2. ASSUME NEW u \in c.invited, d = Joined(c, u)
      PROVE  d \in Contents /\ (IsMember(d, Me) => IsMember(c, Me))
  <2>1. d = [exists |-> c.exists, role |-> [c.role EXCEPT ![u] = "expert"], opinion |-> c.opinion,
             invited |-> c.invited \ {u}]
    BY <1>0, <1>2 DEF Joined
  <2>2. [c.role EXCEPT ![u] = "expert"] \in [People -> Roles] /\ u # Me /\ u \in People
    BY <1>0 DEF Roles
  <2>3. d.role = [c.role EXCEPT ![u] = "expert"] /\ Me \in People
    BY <2>1 DEF People
  <2>4. d.role[Me] = c.role[Me]
    BY <1>0, <2>2, <2>3
  <2>5. d \in Contents
    BY <1>0, <2>1, <2>2 DEF Contents
  <2> QED
    BY <2>4, <2>5 DEF IsMember
<1>3. ASSUME NEW u \in c.invited, d = Declined(c, u)
      PROVE  d \in Contents /\ (IsMember(d, Me) => IsMember(c, Me))
  <2>1. d = [exists |-> c.exists, role |-> c.role, opinion |-> c.opinion, invited |-> c.invited \ {u}]
    BY <1>0, <1>3 DEF Declined
  <2> QED
    BY <1>0, <2>1 DEF Contents, IsMember
<1> DEFINE by(u) == {After(c, u, r) : r \in {q \in RequestsBy(u) : Accepts(c, u, q) /\ ~(q.kind = "invite" /\ q.arg = Me)}}
<1> DEFINE requested == UNION {by(u) : u \in Others}
           joined == {Joined(c, u) : u \in c.invited}
           declined == {Declined(c, u) : u \in c.invited}
<1>4. d \in requested \/ d \in joined \/ d \in declined
  <2>1. Theirs(c) = requested \cup joined \cup declined
    BY DEF Theirs
  <2> HIDE DEF requested, joined, declined
  <2> QED
    BY <2>1
<1>5. CASE d \in requested
  <2> HIDE DEF by
  <2>1. PICK u \in Others : d \in by(u)
    BY <1>5
  <2>2. PICK r \in {q \in RequestsBy(u) : Accepts(c, u, q) /\ ~(q.kind = "invite" /\ q.arg = Me)} : d = After(c, u, r)
    BY <2>1 DEF by
  <2> QED
    BY <2>2, <1>1
<1> QED
  BY <1>2, <1>3, <1>4, <1>5

(* The answers have the shape that the page takes them to have.             *)
LEMMA AnswersAre ==
    ASSUME NEW p \in Projects, NEW c \in Contents
    PROVE  /\ Answers(p, c).project \in [id : Projects, role : Roles]
           /\ Answers(p, c).opinions \in [People -> Estimates \cup {NoOpinion}]
           /\ Answers(p, c).result \in [People -> Estimates \cup {NoOpinion}] \cup {NoResult}
           /\ Answers(p, c).members \in [People -> Roles]
           /\ Answers(p, c).invitations \in SUBSET Others
<1>1. /\ c.role \in [People -> Roles] /\ c.opinion \in [People -> Estimates \cup {NoOpinion}]
      /\ c.invited \subseteq Others /\ Me \in People
  BY DEF Contents, People
<1>2. /\ Answers(p, c).project = [id |-> p, role |-> c.role[Me]]
      /\ Answers(p, c).opinions = c.opinion
      /\ Answers(p, c).members = c.role
  BY DEF Answers
<1>3. Answers(p, c).result \in {c.opinion, NoResult}
  BY DEF Answers
<1>4. Answers(p, c).invitations \in {c.invited, {}}
  BY DEF Answers
<1> QED
  BY <1>1, <1>2, <1>3, <1>4

-------------------------------------------------------------------------------
(* Calls.                                                                   *)

(* A load is a record of these five fields, and so it is with one changed.  *)
LEMMA LoadIs ==
    ASSUME NEW f \in Load
    PROVE  /\ f.of \in Projects /\ f.seen \subseteq Contents /\ f.live \in BOOLEAN
           /\ f.misses \subseteq Parts /\ f.overtaken \in BOOLEAN
  BY DEF Load

(* A load with another set of contents that it may bring.                    *)
LEMMA WithSeen ==
    ASSUME NEW f \in Load, NEW s \in SUBSET Contents
    PROVE  LET g == [f EXCEPT !.seen = s]
           IN  /\ g \in Load /\ g.of = f.of /\ g.seen = s /\ g.live = f.live
               /\ g.misses = f.misses /\ g.overtaken = f.overtaken
  BY DEF Load

(* A load whose page is still shown, or is not any more.                     *)
LEMMA WithLive ==
    ASSUME NEW f \in Load, NEW b \in BOOLEAN
    PROVE  LET g == [f EXCEPT !.live = b]
           IN  /\ g \in Load /\ g.of = f.of /\ g.seen = f.seen /\ g.live = b
               /\ g.misses = f.misses /\ g.overtaken = f.overtaken
  BY DEF Load

(* A load that a later one has overtaken.                                    *)
LEMMA Overtaken ==
    ASSUME NEW f \in Load
    PROVE  LET g == [f EXCEPT !.overtaken = TRUE]
           IN  /\ g \in Load /\ g.of = f.of /\ g.seen = f.seen /\ g.live = f.live
               /\ g.misses = f.misses /\ g.overtaken
  BY DEF Load

(* A load that starts has seen what is stored, and misses nothing.          *)
LEMMA NewLoadIs ==
    ASSUME TypeOK, NEW p \in Projects
    PROVE  /\ NewLoad(p) \in Load
           /\ NewLoad(p).of = p /\ NewLoad(p).seen = {server[p]} /\ NewLoad(p).live
           /\ NewLoad(p).misses = {} /\ ~NewLoad(p).overtaken
           /\ [NewLoad(p) EXCEPT !.live = FALSE, !.seen = {}] \in Load
           /\ ~[NewLoad(p) EXCEPT !.live = FALSE, !.seen = {}].live
<1>1. server[p] \in Contents
  BY DEF TypeOK
<1>2. /\ NewLoad(p).of = p /\ NewLoad(p).seen = {server[p]} /\ NewLoad(p).live
      /\ NewLoad(p).misses = {} /\ ~NewLoad(p).overtaken
  BY DEF NewLoad
<1>3. NewLoad(p) \in Load
  BY <1>1 DEF NewLoad, Load
<1> DEFINE g == [NewLoad(p) EXCEPT !.live = FALSE]
<1>4. g \in Load /\ g.live = FALSE
  BY <1>3, WithLive
<1> HIDE DEF g
<1>5. [g EXCEPT !.seen = {}] \in Load /\ ~[g EXCEPT !.seen = {}].live
  BY <1>4, WithSeen
<1> QED
  BY <1>2, <1>3, <1>5 DEF g

(* No call of a page that was left is one of the next page.                 *)
LEMMA DeadIs ==
    ASSUME NEW ls \in Seq(Load), NEW rs \in Seq(Request)
    PROVE  /\ DeadLoads(ls) \in Seq(Load) /\ \A i \in DOMAIN DeadLoads(ls) : ~DeadLoads(ls)[i].live
           /\ DeadRequests(rs) \in Seq(Request) /\ \A i \in DOMAIN DeadRequests(rs) : ~DeadRequests(rs)[i].live
<1> DEFINE dl == DeadLoads(ls)
           dr == DeadRequests(rs)
<1>1. ASSUME NEW i \in DOMAIN ls PROVE dl[i] \in Load /\ ~dl[i].live
  <2> DEFINE g == [ls[i] EXCEPT !.live = FALSE]
             h == [g EXCEPT !.seen = {}]
  <2>0. ls[i] \in Load
    OBVIOUS
  <2>1. g \in Load /\ g.live = FALSE
    BY <2>0 DEF Load
  <2>2. dl[i] = [h EXCEPT !.misses = {}]
    BY DEF DeadLoads
  <2> HIDE DEF g
  <2>3. h \in Load /\ h.live = FALSE
    BY <2>1 DEF Load
  <2> HIDE DEF h
  <2>4. [h EXCEPT !.misses = {}] \in Load /\ ~[h EXCEPT !.misses = {}].live
    BY <2>3 DEF Load
  <2> QED
    BY <2>2, <2>4
<1>2. ASSUME NEW i \in DOMAIN rs PROVE dr[i] \in Request /\ ~dr[i].live
  <2>1. rs[i] \in Request /\ dr[i] = [rs[i] EXCEPT !.live = FALSE]
    BY DEF DeadRequests
  <2> QED
    BY <2>1 DEF Request
<1>3. /\ DOMAIN dl = DOMAIN ls /\ dl = [i \in DOMAIN ls |-> dl[i]]
      /\ DOMAIN dr = DOMAIN rs /\ dr = [i \in DOMAIN rs |-> dr[i]]
  BY DEF DeadLoads, DeadRequests
<1> HIDE DEF dl, dr
<1>4. dl \in Seq(Load) /\ dr \in Seq(Request)
  BY <1>1, <1>2, <1>3
<1> QED
  BY <1>1, <1>2, <1>3, <1>4 DEF dl, dr

(* A request of the page is about a project.                                *)
LEMMA RequestIs ==
    ASSUME NEW r \in Request
    PROVE  /\ r.of \in Projects /\ r.kind \in Kinds /\ {r.live, r.done} \subseteq BOOLEAN
           /\ r.kind = "save" => r.arg \in Estimates
           /\ r.kind # "save" => r.arg \in People
  BY DEF Request, Kinds

(* The server has done what the request asks for.                           *)
LEMMA DoneIs ==
    ASSUME NEW r \in Request
    PROVE  /\ [r EXCEPT !.done = TRUE] \in Request
           /\ [r EXCEPT !.done = TRUE].done /\ [r EXCEPT !.done = TRUE].live = r.live
           /\ [r EXCEPT !.done = TRUE].of = r.of /\ [r EXCEPT !.done = TRUE].kind = r.kind
  BY DEF Request

(* Misses adds to what the loads of p miss that have a page.                *)
LEMMA MissesIs ==
    ASSUME NEW ls \in Seq(Load), NEW p, NEW parts \in SUBSET Parts
    PROVE  /\ Misses(ls, p, parts) \in Seq(Load) /\ Len(Misses(ls, p, parts)) = Len(ls)
           /\ \A i \in DOMAIN ls :
                /\ Misses(ls, p, parts)[i].of = ls[i].of
                /\ Misses(ls, p, parts)[i].seen = ls[i].seen
                /\ Misses(ls, p, parts)[i].live = ls[i].live
                /\ Misses(ls, p, parts)[i].overtaken = ls[i].overtaken
                /\ ls[i].misses \subseteq Misses(ls, p, parts)[i].misses
                /\ ls[i].live /\ ls[i].of = p => parts \subseteq Misses(ls, p, parts)[i].misses
<1> DEFINE m == Misses(ls, p, parts)
<1>1. ASSUME NEW i \in DOMAIN ls
      PROVE  /\ m[i] \in Load /\ m[i].of = ls[i].of /\ m[i].seen = ls[i].seen /\ m[i].live = ls[i].live
             /\ m[i].overtaken = ls[i].overtaken
             /\ ls[i].misses \subseteq m[i].misses
             /\ ls[i].live /\ ls[i].of = p => parts \subseteq m[i].misses
  <2>1. ls[i] \in Load
    OBVIOUS
  <2>2. m[i] = IF ls[i].live /\ ls[i].of = p THEN [ls[i] EXCEPT !.misses = ls[i].misses \cup parts] ELSE ls[i]
    BY DEF Misses
  <2>3. ls[i].misses \cup parts \in SUBSET Parts
    BY <2>1, LoadIs
  <2> HIDE DEF m
  <2>4. CASE ls[i].live /\ ls[i].of = p
    <3>1. m[i] = [ls[i] EXCEPT !.misses = ls[i].misses \cup parts]
      BY <2>2, <2>4
    <3> QED
      BY <2>1, <2>3, <3>1 DEF Load
  <2> QED
    BY <2>1, <2>2, <2>4
<1>2. DOMAIN m = DOMAIN ls /\ m = [i \in DOMAIN ls |-> m[i]]
  BY DEF Misses
<1> HIDE DEF m
<1>3. m \in Seq(Load) /\ Len(m) = Len(ls)
  BY <1>1, <1>2
<1> QED
  BY <1>1, <1>3 DEF m

(* And Stored to what they may see.                                         *)
LEMMA StoredIs ==
    ASSUME TypeOK, NEW p \in Projects, NEW c \in Contents
    PROVE  /\ Stored(p, c) \in Seq(Load) /\ Len(Stored(p, c)) = Len(loads)
           /\ \A i \in DOMAIN loads :
                /\ Stored(p, c)[i].of = loads[i].of
                /\ loads[i].live /\ loads[i].of = p => Stored(p, c)[i].seen = loads[i].seen \cup {c}
                /\ ~(loads[i].live /\ loads[i].of = p) => Stored(p, c)[i].seen = loads[i].seen
                /\ Stored(p, c)[i].live = loads[i].live
                /\ Stored(p, c)[i].overtaken = loads[i].overtaken
                /\ Stored(p, c)[i].misses = loads[i].misses
<1> DEFINE m == Stored(p, c)
<1>1. ASSUME NEW i \in DOMAIN loads
      PROVE  /\ m[i] \in Load /\ m[i].of = loads[i].of /\ m[i].live = loads[i].live
             /\ loads[i].live /\ loads[i].of = p => m[i].seen = loads[i].seen \cup {c}
             /\ ~(loads[i].live /\ loads[i].of = p) => m[i].seen = loads[i].seen
             /\ m[i].overtaken = loads[i].overtaken /\ m[i].misses = loads[i].misses
  <2>1. loads[i] \in Load
    BY DEF TypeOK
  <2>2. m[i] = IF loads[i].live /\ loads[i].of = p THEN [loads[i] EXCEPT !.seen = loads[i].seen \cup {c}] ELSE loads[i]
    BY DEF Stored
  <2>3. loads[i].seen \cup {c} \in SUBSET Contents
    BY <2>1, LoadIs
  <2> HIDE DEF m
  <2> QED
    BY <2>1, <2>2, <2>3, WithSeen
<1>2. DOMAIN m = DOMAIN loads /\ m = [i \in DOMAIN loads |-> m[i]]
  BY DEF Stored
<1> HIDE DEF m
<1>3. loads \in Seq(Load)
  BY DEF TypeOK
<1>4. \A i \in DOMAIN loads : m[i] \in Load
  BY <1>1
<1>5. m \in Seq(Load) /\ Len(m) = Len(loads)
  BY <1>2, <1>3, <1>4
<1> QED
  BY <1>1, <1>5 DEF m

(* The loads after a change.                                                *)
Changed(p, c, parts) == Misses(Stored(p, c), p, parts)

(* The loads of p that are live see it change, and may miss parts of it.     *)
LEMMA ChangedIs ==
    ASSUME TypeOK, NEW p \in Projects, NEW c \in Contents, NEW parts \in SUBSET Parts
    PROVE  /\ Changed(p, c, parts) \in Seq(Load)
           /\ DOMAIN Changed(p, c, parts) = DOMAIN loads
           /\ \A i \in DOMAIN loads :
                /\ Changed(p, c, parts)[i].of = loads[i].of
                /\ Changed(p, c, parts)[i].live = loads[i].live
                /\ Changed(p, c, parts)[i].overtaken = loads[i].overtaken
                /\ loads[i].misses \subseteq Changed(p, c, parts)[i].misses
                /\ loads[i].live /\ loads[i].of = p => /\ parts \subseteq Changed(p, c, parts)[i].misses
                                                       /\ Changed(p, c, parts)[i].seen = loads[i].seen \cup {c}
                /\ loads[i].of # p => Changed(p, c, parts)[i].seen = loads[i].seen
<1> DEFINE s == Stored(p, c)
           m == Misses(s, p, parts)
<1>1. /\ s \in Seq(Load) /\ Len(s) = Len(loads)
      /\ \A i \in DOMAIN loads :
            /\ s[i].of = loads[i].of
            /\ loads[i].live /\ loads[i].of = p => s[i].seen = loads[i].seen \cup {c}
            /\ ~(loads[i].live /\ loads[i].of = p) => s[i].seen = loads[i].seen
            /\ s[i].live = loads[i].live
            /\ s[i].overtaken = loads[i].overtaken
            /\ s[i].misses = loads[i].misses
  BY StoredIs
<1>2. DOMAIN s = DOMAIN loads
  <2> HIDE DEF s
  <2> QED
    BY <1>1 DEF TypeOK
<1> HIDE DEF s
<1>3. /\ m \in Seq(Load) /\ Len(m) = Len(s)
      /\ \A i \in DOMAIN s :
            /\ m[i].of = s[i].of /\ m[i].seen = s[i].seen /\ m[i].live = s[i].live
            /\ m[i].overtaken = s[i].overtaken
            /\ s[i].misses \subseteq m[i].misses
            /\ s[i].live /\ s[i].of = p => parts \subseteq m[i].misses
  BY <1>1, MissesIs
<1> HIDE DEF m
<1>4. DOMAIN m = DOMAIN loads
  BY <1>1, <1>2, <1>3
<1>5. ASSUME NEW i \in DOMAIN loads
      PROVE  /\ m[i].of = loads[i].of
             /\ m[i].live = loads[i].live
             /\ m[i].overtaken = loads[i].overtaken
             /\ loads[i].misses \subseteq m[i].misses
             /\ loads[i].live /\ loads[i].of = p => parts \subseteq m[i].misses /\ m[i].seen = loads[i].seen \cup {c}
             /\ loads[i].of # p => m[i].seen = loads[i].seen
  BY <1>1, <1>2, <1>3
<1>6. Changed(p, c, parts) = m
  BY DEF Changed, m, s
<1> QED
  BY <1>3, <1>4, <1>5, <1>6

-------------------------------------------------------------------------------
(* What a step leaves of the invariant.                                     *)

(* Nothing that is loaded or stored changes, and what was awaited still is. *)
LEMMA Undisturbed ==
    ASSUME IInv, TypeOK', UNCHANGED <<server, route, shown, loading, behind>>,
           Live' = Live, \A i \in Live : loads'[i] = loads[i],
           Awaited \subseteq Awaited', (form' = form /\ typed' = typed) \/ typed' = TRUE,
           route = List => \A i \in DOMAIN requests' : ~requests'[i].live
    PROVE  IInv'
<1>1. LoadsFollow'
  <2> SUFFICES ASSUME NEW i \in Live
               PROVE  /\ server[loads[i].of] \in loads[i].seen
                      /\ ~loads[i].overtaken /\ loads[i].of \notin Awaited' /\ (\A j \in Live : j <= i) =>
                           \A part \in Parts \ loads[i].misses, c \in loads[i].seen :
                               Answers(loads[i].of, c)[part] = Answers(loads[i].of, server[loads[i].of])[part]
                      /\ "result" \notin loads[i].misses =>
                           \A c, d \in loads[i].seen : IsMember(c, Me) /\ ~IsMember(d, Me) => Empty(d)
    BY DEF LoadsFollow
  <2>1. loads[i].of \notin Awaited' => loads[i].of \notin Awaited
    OBVIOUS
  <2> QED
    BY <2>1 DEF IInv, LoadsFollow
<1>2. Shown' = Shown /\ Truth' = Truth
  BY DEF Shown, Truth
<1>3. PageFollows'
  BY <1>2 DEF IInv, PageFollows
<1>4. FormFollows'
  BY DEF IInv, FormFollows
<1>5. MembersShown' /\ NothingLive'
  BY DEF IInv, MembersShown, NothingLive
<1> QED
  BY <1>1, <1>3, <1>4, <1>5 DEF IInv

(* A load starts: whatever is not known yet, it will bring.                 *)
LEMMA LoadStarts ==
    ASSUME IInv, TypeOK', NEW q \in Projects, server' = server, loads' = Append(loads, NewLoad(q)),
           route' # List, MembersShown'
    PROVE  IInv'
<1> DEFINE n == Len(loads) + 1
<1>1. /\ DOMAIN loads = 1..Len(loads) /\ DOMAIN loads' = 1..n /\ Len(loads) \in Nat
      /\ loads'[n] = NewLoad(q) /\ \A i \in DOMAIN loads : loads'[i] = loads[i]
  BY DEF IInv, TypeOK
<1>2. n \in Live' /\ \A i \in Live' : i <= n
  <2>1. NewLoad(q).live
    BY NewLoadIs DEF IInv
  <2> QED
    BY <1>1, <2>1 DEF Live
<1>3. \A i \in Live' : i = n \/ (i \in Live /\ loads'[i] = loads[i] /\ i < n /\ ~(n <= i))
  BY <1>1 DEF Live
<1>4. LoadsFollow'
  <2> SUFFICES ASSUME NEW i \in Live'
               PROVE  /\ server[loads'[i].of] \in loads'[i].seen
                      /\ (\A j \in Live' : j <= i) =>
                           \A part \in Parts \ loads'[i].misses, c \in loads'[i].seen :
                               Answers(loads'[i].of, c)[part] = Answers(loads'[i].of, server[loads'[i].of])[part]
                      /\ "result" \notin loads'[i].misses =>
                           \A c, d \in loads'[i].seen : IsMember(c, Me) /\ ~IsMember(d, Me) => Empty(d)
    BY DEF LoadsFollow
  <2>1. CASE i = n
    <3>1. loads'[i].of = q /\ loads'[i].seen = {server[q]}
      BY <1>1, <2>1, NewLoadIs DEF IInv
    <3> QED
      BY <3>1
  <2>2. CASE i # n
    <3>1. i \in Live /\ loads'[i] = loads[i] /\ ~(n <= i)
      BY <1>3, <2>2
    <3> QED
      BY <1>2, <3>1 DEF IInv, LoadsFollow
  <2> QED
    BY <2>1, <2>2
<1>5. Live' # {}
  BY <1>2
<1>6. PageFollows' /\ FormFollows' /\ NothingLive'
  BY <1>5 DEF PageFollows, FormFollows, NothingLive
<1> QED
  BY <1>4, <1>6 DEF IInv

(* A page is left, or there is nothing on it yet.                           *)
LEMMA PageLeft ==
    ASSUME TypeOK', NEW ls \in Seq(Load), NEW rs \in Seq(Request), LeavePage(ls, rs)
    PROVE  IInv'
<1>1. Live' = {} /\ \A i \in DOMAIN requests' : ~requests'[i].live
  BY DeadIs DEF LeavePage, Live
<1>2. shown' = Nothing /\ loading' = TRUE /\ route' = List
  BY DEF LeavePage, FreshPage
<1>3. LoadsFollow' /\ PageFollows'
  BY <1>1, <1>2 DEF LoadsFollow, PageFollows, Shown
<1>4. FormFollows' /\ MembersShown' /\ NothingLive'
  BY <1>1, <1>2 DEF FormFollows, MembersShown, NothingLive
<1> QED
  BY <1>3, <1>4 DEF IInv

(* Leaving a page keeps the types.                                           *)
LEMMA PageLeftTypes ==
    ASSUME TypeOK, server' = server, NEW ls \in Seq(Load), NEW rs \in Seq(Request), LeavePage(ls, rs)
    PROVE  TypeOK'
<1>1. loads' \in Seq(Load) /\ requests' \in Seq(Request)
  BY DeadIs DEF LeavePage
<1> QED
  BY <1>1 DEF LeavePage, FreshPage, TypeOK

(* A load ends.                                                             *)
LEMMA LoadGone ==
    ASSUME TypeOK, LoadsFollow, NEW i \in DOMAIN loads, loads' = AfterLoad(loads, i),
           UNCHANGED <<server, requests>>
    PROVE  /\ loads' \in Seq(Load) /\ LoadsFollow'
           /\ Live' = {} => Live \subseteq {i}
           /\ Live = {} => Live' = {}
<1>1. \A f \in Load : [f EXCEPT !.overtaken = TRUE] \in Load
  BY Overtaken
<1>2. loads \in Seq(Load) /\ DOMAIN loads = 1..Len(loads) /\ Len(loads) \in Nat
  BY DEF TypeOK
<1>3. /\ loads' \in Seq(Load) /\ DOMAIN loads' = 1..(Len(loads) - 1)
      /\ \A k \in DOMAIN loads' :
            loads'[k] = IF k < i THEN [loads[k] EXCEPT !.overtaken = TRUE] ELSE loads[k + 1]
  <2>1. /\ loads' \in Seq(Load) /\ Len(loads') = Len(loads) - 1
        /\ \A k \in 1..(Len(loads) - 1) :
              loads'[k] = IF k < i THEN [loads[k] EXCEPT !.overtaken = TRUE] ELSE loads[k + 1]
    BY <1>1, <1>2, AfterLoadEntries
  <2>2. DOMAIN loads' = 1..(Len(loads) - 1)
    BY <2>1
  <2> QED
    BY <2>1, <2>2
<1>4. ASSUME NEW k \in DOMAIN loads'
      PROVE  /\ k < i => loads'[k].overtaken /\ loads'[k].live = loads[k].live /\ k \in DOMAIN loads
                         /\ loads'[k].of = loads[k].of /\ loads'[k].seen = loads[k].seen
                         /\ loads'[k].misses = loads[k].misses
             /\ ~(k < i) => loads'[k] = loads[k + 1] /\ k + 1 \in DOMAIN loads /\ i < k + 1
  <2>1. CASE k < i
    <3>1. loads[k] \in Load /\ loads'[k] = [loads[k] EXCEPT !.overtaken = TRUE] /\ k \in DOMAIN loads
      BY <1>2, <1>3, <2>1
    <3> QED
      BY <2>1, <3>1, Overtaken
  <2>2. CASE ~(k < i)
    BY <1>2, <1>3, <2>2
  <2> QED
    BY <2>1, <2>2
<1>5. ASSUME NEW j \in Live, j # i
      PROVE  j < i => j \in Live'
  <2>1. j < i => j \in DOMAIN loads'
    BY <1>2, <1>3 DEF Live
  <2> QED
    BY <2>1, <1>4 DEF Live
<1>6. ASSUME NEW j \in Live, i < j
      PROVE  j - 1 \in Live'
  <2>1. j - 1 \in DOMAIN loads' /\ ~(j - 1 < i) /\ (j - 1) + 1 = j
    BY <1>2, <1>3, <1>6 DEF Live
  <2> QED
    BY <2>1, <1>4 DEF Live
<1>7. \A k \in Live' : IF k < i THEN k \in Live ELSE k + 1 \in Live
  BY <1>4 DEF Live
<1>8. Live' = {} => Live \subseteq {i}
  BY <1>2, <1>5, <1>6 DEF Live
<1>9. Awaited' = Awaited
  BY DEF Awaited
<1>10. LoadsFollow'
  <2> SUFFICES ASSUME NEW k \in Live'
               PROVE  /\ server[loads'[k].of] \in loads'[k].seen
                      /\ ~loads'[k].overtaken /\ loads'[k].of \notin Awaited /\ (\A j \in Live' : j <= k) =>
                           \A part \in Parts \ loads'[k].misses, c \in loads'[k].seen :
                               Answers(loads'[k].of, c)[part] = Answers(loads'[k].of, server[loads'[k].of])[part]
                      /\ "result" \notin loads'[k].misses =>
                           \A c, d \in loads'[k].seen : IsMember(c, Me) /\ ~IsMember(d, Me) => Empty(d)
    BY <1>9 DEF LoadsFollow
  <2>0. k \in DOMAIN loads'
    BY DEF Live
  <2>1. CASE k < i
    <3>1. k \in Live /\ loads'[k].overtaken
      BY <1>4, <1>7, <2>0, <2>1
    <3> QED
      BY <1>4, <2>0, <2>1, <3>1 DEF LoadsFollow
  <2>2. CASE ~(k < i)
    <3>1. k + 1 \in Live /\ loads'[k] = loads[k + 1]
      BY <1>4, <1>7, <2>0, <2>2
    <3>2. ASSUME \A j \in Live' : j <= k PROVE \A j \in Live : j <= k + 1
      <4> SUFFICES ASSUME NEW j \in Live, k + 1 < j PROVE FALSE
        BY <1>2, <2>0, <1>3 DEF Live
      <4>1. i < j /\ ~(j - 1 <= k)
        BY <1>2, <1>3, <2>0, <2>2 DEF Live
      <4> QED
        BY <1>6, <3>2, <4>1
    <3> QED
      BY <3>1, <3>2 DEF LoadsFollow
  <2> QED
    BY <2>1, <2>2
<1> QED
  BY <1>3, <1>7, <1>8, <1>10

(* A request is sent: the server has not done it yet.                       *)
LEMMA RequestSent ==
    ASSUME TypeOK, NEW r \in Request, ~r.done, requests' = Append(requests, r)
    PROVE  requests' \in Seq(Request) /\ Awaited' = Awaited
<1>1. /\ requests' \in Seq(Request) /\ DOMAIN requests' = DOMAIN requests \cup {Len(requests) + 1}
      /\ \A i \in DOMAIN requests : requests'[i] = requests[i]
      /\ requests'[Len(requests) + 1] = r
  BY DEF TypeOK
<1> QED
  BY <1>1 DEF Awaited

(* A request ends: only what it asked for may no longer be awaited.         *)
LEMMA RequestGone ==
    ASSUME TypeOK, NEW i \in DOMAIN requests, requests' = RemoveAt(requests, i)
    PROVE  /\ requests' \in Seq(Request)
           /\ \A j \in DOMAIN requests' : \E k \in DOMAIN requests : requests'[j] = requests[k]
           /\ Awaited \ {requests[i].of} \subseteq Awaited'
           /\ ~(requests[i].live /\ requests[i].done /\ requests[i].kind \in Following) => Awaited \subseteq Awaited'
<1>1. requests \in Seq(Request) /\ DOMAIN requests = 1..Len(requests) /\ Len(requests) \in Nat
  BY DEF TypeOK
<1>2. /\ requests' \in Seq(Request) /\ Len(requests') = Len(requests) - 1
      /\ \A k \in 1..(Len(requests) - 1) : requests'[k] = IF k < i THEN requests[k] ELSE requests[k + 1]
  BY <1>1, RemoveAtEntries
<1>3. DOMAIN requests' = 1..(Len(requests) - 1)
  BY <1>2
<1>4. ASSUME NEW k \in DOMAIN requests, k # i
      PROVE  \E j \in DOMAIN requests' : requests'[j] = requests[k]
  <2>1. CASE k < i
    <3>1. k \in DOMAIN requests' /\ requests'[k] = requests[k]
      BY <1>1, <1>2, <1>3, <2>1
    <3> QED
      BY <3>1
  <2>2. CASE i < k
    <3>1. k - 1 \in DOMAIN requests' /\ ~(k - 1 < i) /\ (k - 1) + 1 = k
      BY <1>1, <1>3, <2>2
    <3>2. requests'[k - 1] = requests[k]
      BY <1>2, <1>3, <3>1
    <3> QED
      BY <3>1, <3>2
  <2> QED
    BY <1>1, <1>4, <2>1, <2>2
<1>5. ASSUME NEW j \in DOMAIN requests'
      PROVE  \E k \in DOMAIN requests : requests'[j] = requests[k]
  <2>1. j \in DOMAIN requests /\ j + 1 \in DOMAIN requests /\ requests'[j] \in {requests[j], requests[j + 1]}
    BY <1>1, <1>2, <1>3
  <2> QED
    BY <2>1
<1>6. ASSUME NEW p \in Awaited,
             p # requests[i].of \/ ~(requests[i].live /\ requests[i].done /\ requests[i].kind \in Following)
      PROVE  p \in Awaited'
  <2>1. PICK k \in DOMAIN requests : requests[k].live /\ requests[k].done /\ requests[k].of = p
                                     /\ requests[k].kind \in Following
    BY DEF Awaited
  <2>2. k # i /\ p \in Projects
    BY <1>6, <2>1 DEF Awaited
  <2>3. PICK j \in DOMAIN requests' : requests'[j] = requests[k]
    BY <1>4, <2>2
  <2> QED
    BY <2>1, <2>2, <2>3 DEF Awaited
<1> QED
  BY <1>2, <1>5, <1>6

(* What is stored of a project changes, and the parts that no load follows  *)
(* for are written down.                                                    *)
LEMMA ServerChanged ==
    ASSUME IInv, TypeOK', NEW p \in Projects, NEW d \in Contents, NEW parts \in SUBSET Parts,
           server' = [server EXCEPT ![p] = d], loads' = Misses(Stored(p, d), p, parts),
           behind' = Behind(p, parts), UNCHANGED <<route, shown, loading, form, typed>>,
           Awaited \subseteq Awaited',
           p \in Awaited' \/ \A part \in Parts \ parts : Answers(p, d)[part] = Answers(p, server[p])[part],
           IsMember(d, Me) => IsMember(server[p], Me),
           IsMember(d, Me) \/ Empty(d) \/ "result" \in parts,
           route = List => \A i \in DOMAIN requests' : ~requests'[i].live
    PROVE  IInv'
<1>1. TypeOK /\ server'[p] = d /\ \A q \in Projects \ {p} : server'[q] = server[q]
  BY DEF IInv, TypeOK
<1>2. loads' \in Seq(Load) /\ DOMAIN loads' = DOMAIN loads /\ \A i \in DOMAIN loads : loads[i] \in Load
  <2>1. TypeOK
    BY <1>1
  <2>2. Changed(p, d, parts) \in Seq(Load) /\ DOMAIN Changed(p, d, parts) = DOMAIN loads
    BY <2>1, ChangedIs
  <2> QED
    BY <2>1, <2>2 DEF TypeOK, Changed
<1>3. ASSUME NEW i \in DOMAIN loads
      PROVE  /\ loads'[i].of = loads[i].of /\ loads'[i].live = loads[i].live
             /\ loads'[i].overtaken = loads[i].overtaken
             /\ loads[i].misses \subseteq loads'[i].misses
             /\ loads[i].live /\ loads[i].of = p => /\ parts \subseteq loads'[i].misses
                                                    /\ loads'[i].seen = loads[i].seen \cup {d}
             /\ loads[i].of # p => loads'[i].seen = loads[i].seen
  <2> DEFINE m == Changed(p, d, parts)
  <2>1. TypeOK /\ loads' = m
    BY <1>1 DEF Changed
  <2>2. /\ m[i].of = loads[i].of
        /\ m[i].live = loads[i].live
        /\ m[i].overtaken = loads[i].overtaken
        /\ loads[i].misses \subseteq m[i].misses
        /\ loads[i].live /\ loads[i].of = p => parts \subseteq m[i].misses /\ m[i].seen = loads[i].seen \cup {d}
        /\ loads[i].of # p => m[i].seen = loads[i].seen
    BY <2>1, ChangedIs
  <2> HIDE DEF m
  <2> QED
    BY <2>1, <2>2
<1>4. Live' = Live
  BY <1>2, <1>3 DEF Live
<1>5. LoadsFollow'
  <2> SUFFICES ASSUME NEW i \in Live
               PROVE  /\ server'[loads'[i].of] \in loads'[i].seen
                      /\ ~loads'[i].overtaken /\ loads'[i].of \notin Awaited' /\ (\A j \in Live : j <= i) =>
                           \A part \in Parts \ loads'[i].misses, c \in loads'[i].seen :
                               Answers(loads'[i].of, c)[part] = Answers(loads'[i].of, server'[loads'[i].of])[part]
                      /\ "result" \notin loads'[i].misses =>
                           \A c, e \in loads'[i].seen : IsMember(c, Me) /\ ~IsMember(e, Me) => Empty(e)
    BY <1>4 DEF LoadsFollow
  <2>0. i \in DOMAIN loads /\ loads[i].live /\ loads[i].of \in Projects
    BY <1>2, LoadIs DEF Live
  <2>1. /\ server[loads[i].of] \in loads[i].seen
        /\ ~loads[i].overtaken /\ loads[i].of \notin Awaited' /\ (\A j \in Live : j <= i) =>
             \A part \in Parts \ loads[i].misses, c \in loads[i].seen :
                 Answers(loads[i].of, c)[part] = Answers(loads[i].of, server[loads[i].of])[part]
        /\ "result" \notin loads[i].misses =>
             \A c, e \in loads[i].seen : IsMember(c, Me) /\ ~IsMember(e, Me) => Empty(e)
    BY DEF IInv, LoadsFollow
  <2>2. CASE loads[i].of = p
    <3>1. /\ loads'[i].of = p /\ loads'[i].seen = loads[i].seen \cup {d}
          /\ loads[i].misses \cup parts \subseteq loads'[i].misses /\ loads'[i].overtaken = loads[i].overtaken
      BY <1>3, <2>0, <2>2
    <3>2. server'[p] \in loads'[i].seen
      BY <1>1, <3>1
    <3>3. ASSUME ~loads'[i].overtaken, p \notin Awaited', \A j \in Live : j <= i,
                 NEW part \in Parts \ loads'[i].misses, NEW c \in loads'[i].seen
          PROVE  Answers(p, c)[part] = Answers(p, server'[p])[part]
      <4>1. CASE c = d
        BY <1>1, <4>1
      <4>2. CASE c \in loads[i].seen
        BY <1>1, <2>1, <2>2, <3>1, <3>3, <4>2
      <4> QED
        BY <3>1, <4>1, <4>2
    <3>4. ASSUME "result" \notin loads'[i].misses, NEW c \in loads'[i].seen, NEW e \in loads'[i].seen,
                 IsMember(c, Me), ~IsMember(e, Me)
          PROVE  Empty(e)
      <4>1. "result" \notin loads[i].misses /\ "result" \notin parts
        BY <3>1, <3>4
      <4>2. CASE e = d
        BY <3>4, <4>1, <4>2
      <4>3. CASE e \in loads[i].seen /\ c = d
        BY <2>1, <2>2, <3>4, <4>1, <4>3
      <4>4. CASE e \in loads[i].seen /\ c \in loads[i].seen
        BY <2>1, <3>4, <4>1, <4>4
      <4> QED
        BY <3>1, <4>2, <4>3, <4>4
    <3> QED
      BY <3>1, <3>2, <3>3, <3>4
  <2>3. CASE loads[i].of # p
    <3>1. /\ loads'[i].of = loads[i].of /\ loads'[i].seen = loads[i].seen
          /\ loads[i].misses \subseteq loads'[i].misses /\ loads'[i].overtaken = loads[i].overtaken
          /\ server'[loads[i].of] = server[loads[i].of]
      BY <1>1, <1>3, <2>0, <2>3
    <3> QED
      BY <2>1, <3>1
  <2> QED
    BY <2>2, <2>3
<1>6. PageFollows'
  <2> SUFFICES ASSUME Shown, Live = {}, route \notin Awaited', NEW part \in Parts \ behind'
               PROVE  shown[part] = Truth'[part]
    BY <1>4 DEF PageFollows, Shown
  <2>1. part \in Parts \ behind /\ route \in Projects
    BY DEF Behind, Shown
  <2>2. shown[part] = Truth[part]
    BY <2>1 DEF IInv, PageFollows
  <2>3. CASE route = p
    BY <1>1, <2>2, <2>3 DEF Truth, Behind
  <2>4. CASE route # p
    BY <1>1, <2>1, <2>2, <2>4 DEF Truth
  <2> QED
    BY <2>3, <2>4
<1>7. FormFollows' /\ MembersShown' /\ NothingLive'
  BY <1>4 DEF IInv, FormFollows, MembersShown, NothingLive
<1> QED
  BY <1>5, <1>6, <1>7 DEF IInv

-------------------------------------------------------------------------------
(* The steps of the user.                                                   *)

(* No page is shown, and nothing is under way.                               *)
LEMMA InitIInv == Init => IInv
<1> SUFFICES ASSUME Init PROVE IInv
  OBVIOUS
<1>1. server \in [Projects -> Contents]
  BY ConstantsAssumption DEF Init
<1>2. loads \in Seq(Load) /\ requests \in Seq(Request) /\ Live = {} /\ DOMAIN requests = {}
  BY DEF Init, Live
<1>3. TypeOK
  BY <1>1, <1>2 DEF Init, TypeOK
<1>4. LoadsFollow /\ PageFollows /\ FormFollows /\ MembersShown /\ NothingLive
  BY <1>2 DEF Init, LoadsFollow, PageFollows, FormFollows, MembersShown, NothingLive, Shown
<1> QED
  BY <1>3, <1>4 DEF IInv

(* Only the form or the dialog changes.                                     *)
LEMMA PageOnlyStep ==
    ASSUME IInv, UNCHANGED <<server, route, shown, loading, saving, loads, requests, behind>>,
           form' \in Estimates \cup {Blank}, typed' \in BOOLEAN,
           dialog' \in [kind : AdminKinds, who : People] \cup {NoDialog},
           (form' = form /\ typed' = typed) \/ typed' = TRUE
    PROVE  IInv'
<1>1. TypeOK'
  BY DEF IInv, TypeOK
<1>2. Live' = Live /\ Awaited' = Awaited
  BY DEF Live, Awaited
<1>3. route = List => \A i \in DOMAIN requests' : ~requests'[i].live
  BY DEF IInv, NothingLive
<1> QED
  BY <1>1, <1>2, <1>3, Undisturbed

(* A request is sent from the page.                                         *)
LEMMA SendStep ==
    ASSUME IInv, NEW kind \in Kinds, NEW arg, Shown, Send(kind, arg),
           kind = "save" => arg \in Estimates, kind # "save" => arg \in People, saving' \in BOOLEAN,
           UNCHANGED <<server, route, shown, loading, form, dialog, loads, behind, typed>>
    PROVE  IInv'
<1> DEFINE r == [of |-> Target(kind), kind |-> kind, arg |-> arg, live |-> TRUE, done |-> FALSE]
<1>1. Target(kind) \in Projects
  BY DEF Target, Shown, IInv, TypeOK, Views
<1>2. r \in Request /\ ~r.done
  BY <1>1 DEF Request
<1>3. requests' = Append(requests, r)
  BY DEF Send
<1> HIDE DEF r
<1>4. requests' \in Seq(Request) /\ Awaited' = Awaited
  BY <1>2, <1>3, RequestSent DEF IInv
<1>5. TypeOK'
  BY <1>4 DEF IInv, TypeOK
<1>6. Live' = Live /\ route # List
  BY ConstantsAssumption DEF Live, Shown
<1> QED
  BY <1>4, <1>5, <1>6, Undisturbed

(* A page opens and loads.                                                   *)
LEMMA OpenStep ==
    ASSUME IInv, NEW p \in Projects, Open(p)
    PROVE  IInv'
<1>1. loads' \in Seq(Load)
  <2>1. NewLoad(p) \in Load
    BY NewLoadIs DEF IInv
  <2> QED
    BY <2>1 DEF Open, IInv, TypeOK
<1>2. TypeOK'
  BY <1>1 DEF Open, FreshPage, IInv, TypeOK
<1>3. route' # List /\ MembersShown'
  BY ConstantsAssumption DEF Open, FreshPage, MembersShown
<1>4. server' = server /\ loads' = Append(loads, NewLoad(p))
  BY DEF Open
<1> QED
  BY <1>2, <1>3, <1>4, LoadStarts

(* Another project is shown in the same page.                                *)
LEMMA JumpToStep ==
    ASSUME IInv, NEW p \in Projects, JumpTo(p)
    PROVE  IInv'
<1>1. loads' \in Seq(Load)
  <2>1. NewLoad(p) \in Load
    BY NewLoadIs DEF IInv
  <2> QED
    BY <2>1 DEF JumpTo, IInv, TypeOK
<1>2. TypeOK'
  BY <1>1 DEF JumpTo, page, IInv, TypeOK
<1>3. route' # List /\ MembersShown'
  BY ConstantsAssumption DEF JumpTo, page, IInv, MembersShown
<1>4. server' = server /\ loads' = Append(loads, NewLoad(p))
  BY DEF JumpTo
<1> QED
  BY <1>2, <1>3, <1>4, LoadStarts

(* The language changes: fetchData runs again.                               *)
LEMMA ChangeLanguageStep ==
    ASSUME IInv, ChangeLanguage
    PROVE  IInv'
<1>0. route \in Projects
  BY DEF ChangeLanguage, Shown
<1>1. loads' \in Seq(Load)
  <2>1. NewLoad(route) \in Load
    BY <1>0, NewLoadIs DEF IInv
  <2> QED
    BY <2>1 DEF ChangeLanguage, IInv, TypeOK
<1>2. TypeOK'
  BY <1>1 DEF ChangeLanguage, page, IInv, TypeOK
<1>3. route' # List /\ MembersShown'
  BY <1>0, ConstantsAssumption DEF ChangeLanguage, page, IInv, MembersShown
<1>4. server' = server /\ loads' = Append(loads, NewLoad(route))
  BY DEF ChangeLanguage
<1> QED
  BY <1>0, <1>2, <1>3, <1>4, LoadStarts

(* The page is left.                                                         *)
LEMMA LeaveStep ==
    ASSUME IInv, Leave
    PROVE  IInv'
<1>1. loads \in Seq(Load) /\ requests \in Seq(Request) /\ LeavePage(loads, requests) /\ server' = server /\ TypeOK
  BY DEF Leave, IInv, TypeOK
<1> QED
  BY <1>1, PageLeft, PageLeftTypes

(* What the user does.                                                       *)
LEMMA UserStep ==
    ASSUME IInv, UserActs
    PROVE  IInv'
<1>1. ASSUME NEW p \in Projects, Open(p) \/ JumpTo(p) PROVE IInv'
  BY <1>1, OpenStep, JumpToStep
<1>2. CASE Leave \/ ChangeLanguage
  BY <1>2, LeaveStep, ChangeLanguageStep
<1>3. CASE SaveOpinion
  <2>1. form \in Estimates /\ Shown /\ Send("save", form) /\ saving' = TRUE
    BY <1>3 DEF SaveOpinion, Free, SaveEnabled, IInv, TypeOK
  <2>2. "save" \in Kinds
    BY DEF Kinds
  <2>3. UNCHANGED <<server, route, shown, loading, form, dialog, loads, behind, typed>>
    BY <1>3 DEF SaveOpinion
  <2> QED
    BY <2>1, <2>2, <2>3, SendStep
<1>4. CASE CloseDialog
  BY <1>4, PageOnlyStep DEF CloseDialog, IInv, TypeOK
<1>5. ASSUME NEW e \in Typed \cup {Blank}, Type(e) PROVE IInv'
  <2>1. form' \in Estimates \cup {Blank} /\ typed' = TRUE
    BY <1>5, ConstantsAssumption DEF Type
  <2> QED
    BY <1>5, <2>1, PageOnlyStep DEF Type, IInv, TypeOK
<1>6. ASSUME NEW r \in Offered(shown), Shown, Click(r) PROVE IInv'
  <2>1. r.kind \in Kinds \ {"save"} /\ r.arg \in People
    BY DEF Offered, Kinds, AdminKinds, AboutMember, People
  <2>2. Send(r.kind, r.arg) /\ UNCHANGED <<server, route, shown, loading, saving, form, dialog, loads, behind, typed>>
    BY <1>6 DEF Click, page
  <2> QED
    BY <1>6, <2>1, <2>2, SendStep DEF IInv, TypeOK
<1>7. ASSUME NEW d \in Dialogs(shown), OpenDialog(d) PROVE IInv'
  <2>1. d \in [kind : AdminKinds, who : People]
    BY DEF Dialogs, HeaderButtons, AdminKinds, AboutMember, People
  <2> QED
    BY <1>7, <2>1, PageOnlyStep DEF OpenDialog, IInv, TypeOK
<1>8. ASSUME NEW u \in People, Confirm(u) PROVE IInv'
  <2>1. dialog.kind \in Kinds \ {"save"}
    BY <1>8 DEF Confirm, IInv, TypeOK, Kinds, AdminKinds, AboutMember
  <2>2. /\ Shown /\ Send(dialog.kind, u)
        /\ UNCHANGED <<server, route, shown, loading, saving, form, dialog, loads, behind, typed>>
    BY <1>8 DEF Confirm, page
  <2> QED
    BY <2>1, <2>2, SendStep DEF IInv, TypeOK
<1> QED
  BY <1>1, <1>2, <1>3, <1>4, <1>5, <1>6, <1>7, <1>8 DEF UserActs

-------------------------------------------------------------------------------
(* The steps of the loads.                                                  *)

(* An answer that comes in time fills the page.                             *)
LEMMA LoadAnsweredStep ==
    ASSUME IInv, NEW i \in DOMAIN loads, LoadAnswered(i)
    PROVE  IInv'
<1> DEFINE f == loads[i]
<1>0. PICK c \in f.seen, o \in f.seen, r \in f.seen, m \in f.seen, n \in f.seen, failed \in BOOLEAN :
        /\ f.live
        /\ IsMember(c, Me) /\ IsMember(o, Me) /\ IsMember(m, Me) /\ n.exists
        /\ LET v == [ project |-> Answers(f.of, c).project,
                      opinions |-> Answers(f.of, o).opinions,
                      result |-> IF failed \/ ~IsMember(r, Me) THEN NoResult
                                 ELSE Answers(f.of, r).result,
                      members |-> Answers(f.of, m).members,
                      invitations |-> Answers(f.of, n).invitations ]
           IN  /\ shown' = v
               /\ Prefill(MyOpinion(v))
               /\ behind' = IF f.overtaken \/ f.of # route THEN Parts
                            ELSE f.misses \cup IF failed THEN {"result"} ELSE {}
        /\ loading' = FALSE
        /\ loads' = Answered(i)
        /\ UNCHANGED <<server, changes, route, saving, dialog, requests>>
  BY DEF LoadAnswered
<1>1. /\ f \in Load /\ f.of \in Projects /\ f.seen \subseteq Contents /\ f.misses \subseteq Parts
      /\ TypeOK
  BY LoadIs DEF IInv, TypeOK
<1>2. i \in Live /\ route \in Projects /\ route # List
  <2>1. i \in Live
    BY <1>0 DEF Live
  <2> QED
    BY <2>1 DEF IInv, NothingLive, TypeOK
<1>3. /\ shown'.project = Answers(f.of, c).project
      /\ shown'.opinions = Answers(f.of, o).opinions
      /\ shown'.result = IF failed \/ ~IsMember(r, Me) THEN NoResult ELSE Answers(f.of, r).result
      /\ shown'.members = Answers(f.of, m).members
      /\ shown'.invitations = Answers(f.of, n).invitations
  BY <1>0
<1>4. /\ Answers(f.of, c).project \in [id : Projects, role : Roles]
      /\ Answers(f.of, o).opinions \in [People -> Estimates \cup {NoOpinion}]
      /\ Answers(f.of, r).result \in [People -> Estimates \cup {NoOpinion}] \cup {NoResult}
      /\ Answers(f.of, m).members \in [People -> Roles]
      /\ Answers(f.of, n).invitations \in SUBSET Others
  BY <1>1, AnswersAre
<1>5. shown' \in Views
  <2>1. (IF failed \/ ~IsMember(r, Me) THEN NoResult ELSE Answers(f.of, r).result)
           \in [People -> Estimates \cup {NoOpinion}] \cup {NoResult}
    BY <1>4
  <2> QED
    BY <1>0, <1>4, <2>1 DEF Views
<1>6. IF MyOpinion(shown') # NoOpinion THEN form' = MyOpinion(shown') /\ typed' = FALSE
                                       ELSE UNCHANGED <<form, typed>>
  BY <1>0 DEF Prefill
<1>7. loads' \in Seq(Load) /\ LoadsFollow' /\ (Live' = {} => Live \subseteq {i}) /\ Awaited' = Awaited
  <2>1. loads' = AfterLoad(loads, i) /\ UNCHANGED <<server, requests>>
    BY <1>0 DEF Answered
  <2> QED
    BY <1>1, <2>1, LoadGone DEF IInv, Awaited
<1>8. TypeOK'
  <2>1. MyOpinion(shown') \in Estimates \cup {NoOpinion}
    BY <1>5 DEF Views, MyOpinion, People
  <2>2. form' \in Estimates \cup {Blank} /\ typed' \in BOOLEAN
    BY <1>1, <1>6, <2>1 DEF TypeOK
  <2>3. behind' \subseteq Parts
    BY <1>0, <1>1 DEF Parts
  <2> QED
    BY <1>0, <1>1, <1>5, <1>7, <2>2, <2>3 DEF TypeOK
<1>9. PageFollows'
  <2> SUFFICES ASSUME Live' = {}, route \notin Awaited, NEW part \in Parts \ behind'
               PROVE  shown'[part] = Truth[part]
    BY <1>0, <1>7 DEF PageFollows, Truth
  <2>1. ~f.overtaken /\ f.of = route /\ part \notin f.misses /\ (failed => part # "result")
    BY <1>0
  <2>2. \A j \in Live : j <= i
    BY <1>7 DEF IInv, TypeOK, Live
  <2>3. \A e \in f.seen : Answers(f.of, e)[part] = Truth[part]
    BY <1>2, <2>1, <2>2 DEF IInv, LoadsFollow, Truth
  <2>4. CASE part = "result"
    <3>1. CASE IsMember(r, Me)
      BY <1>3, <2>1, <2>3, <2>4, <3>1
    <3>2. CASE ~IsMember(r, Me)
      <4>1. Empty(r)
        BY <1>0, <1>2, <2>1, <2>4, <3>2 DEF IInv, LoadsFollow
      <4>2. Answers(f.of, r).result = NoResult
        BY <4>1 DEF Answers, Empty
      <4> QED
        BY <1>3, <2>3, <2>4, <3>2, <4>2
    <3> QED
      BY <3>1, <3>2
  <2>5. CASE part # "result"
    BY <1>3, <2>3, <2>5 DEF Parts
  <2> QED
    BY <2>4, <2>5
<1>10. FormFollows'
  BY <1>6 DEF FormFollows
<1>11. MembersShown'
  BY <1>0, <1>3 DEF MembersShown, Answers, IsMember
<1>12. NothingLive'
  BY <1>0, <1>2 DEF NothingLive
<1> QED
  BY <1>7, <1>8, <1>9, <1>10, <1>11, <1>12 DEF IInv

(* One that comes too late fills nothing.                                   *)
LEMMA LoadIgnoredStep ==
    ASSUME IInv, NEW i \in DOMAIN loads, ~loads[i].live \/ route = List, loads' = AfterLoad(loads, i),
           UNCHANGED <<server, route, page, requests>>
    PROVE  IInv'
<1>1. TypeOK /\ LoadsFollow /\ UNCHANGED <<shown, loading, saving, form, dialog, behind, typed>>
  BY DEF IInv, page
<1>2. i \notin Live
  BY DEF IInv, NothingLive, Live
<1>3. /\ loads' \in Seq(Load) /\ LoadsFollow'
      /\ Live' = {} => Live = {}
      /\ Live = {} => Live' = {}
  BY <1>1, <1>2, LoadGone
<1>4. Awaited' = Awaited /\ Shown' = Shown /\ Truth' = Truth
  BY <1>1 DEF Awaited, Shown, Truth
<1>5. TypeOK'
  BY <1>1, <1>3 DEF TypeOK
<1>6. PageFollows'
  BY <1>1, <1>3, <1>4 DEF IInv, PageFollows
<1>7. FormFollows' /\ MembersShown' /\ NothingLive'
  BY <1>1, <1>3 DEF IInv, FormFollows, MembersShown, NothingLive
<1> QED
  BY <1>3, <1>5, <1>6, <1>7 DEF IInv

(* A load ends, answered or not.                                             *)
LEMMA LoadStep ==
    ASSUME IInv, NEW i \in DOMAIN loads, LoadEnds(i)
    PROVE  IInv'
<1>1. CASE LoadAnswered(i)
  BY <1>1, LoadAnsweredStep
<1>2. CASE LoadDropped(i)
  BY <1>2, LoadIgnoredStep DEF LoadDropped, Answered
<1>3. CASE LoadFailed(i) /\ route = List
  BY <1>3, LoadIgnoredStep DEF LoadFailed, Answered
<1>4. CASE LoadFailed(i) /\ route # List
  <2>1. LeavePage(AfterLoad(loads, i), requests) /\ server' = server
    BY <1>4 DEF LoadFailed, Answered
  <2>2. \A f \in Load : [f EXCEPT !.overtaken = TRUE] \in Load
    BY Overtaken
  <2>3. loads \in Seq(Load) /\ requests \in Seq(Request) /\ TypeOK
    BY DEF IInv, TypeOK
  <2>4. AfterLoad(loads, i) \in Seq(Load)
    BY <2>2, <2>3, AfterLoadEntries
  <2> QED
    BY <2>1, <2>3, <2>4, PageLeft, PageLeftTypes
<1> QED
  BY <1>1, <1>2, <1>3, <1>4 DEF LoadEnds

-------------------------------------------------------------------------------
(* The steps of the server and of the requests.                             *)

(* The server stores what a request of the page says.                        *)
LEMMA ServerAcceptsStep ==
    ASSUME IInv, NEW i \in DOMAIN requests, ServerAccepts(i)
    PROVE  IInv'
<1>0. PICK r \in Request : r = requests[i]
  BY DEF IInv, TypeOK
<1>1. /\ TypeOK /\ r.of \in Projects /\ r.kind \in Kinds /\ server[r.of] \in Contents
      /\ r.kind = "save" => r.arg \in Estimates
      /\ r.kind # "save" => r.arg \in People
  BY RequestIs DEF IInv, TypeOK
<1>2. PICK c : c = After(server[r.of], Me, r)
  OBVIOUS
<1>3. PICK foreign \in SUBSET Parts :
         /\ foreign = IF r.live THEN IF r.kind = "invite" THEN {"invitations"} ELSE {} ELSE Parts
         /\ ~r.done /\ Accepts(server[r.of], Me, r)
         /\ requests' = [requests EXCEPT ![i].done = TRUE]
         /\ IF c # server[r.of]
            THEN /\ Change(r.of, c)
                 /\ loads' = Misses(Stored(r.of, c), r.of, foreign)
                 /\ behind' = Behind(r.of, foreign)
            ELSE UNCHANGED <<server, changes, loads, behind>>
         /\ UNCHANGED <<route, shown, loading, saving, form, dialog, typed>>
  BY <1>0, <1>2 DEF ServerAccepts, Parts
<1>4. /\ [r EXCEPT !.done = TRUE] \in Request
      /\ [r EXCEPT !.done = TRUE].done /\ [r EXCEPT !.done = TRUE].live = r.live
      /\ [r EXCEPT !.done = TRUE].of = r.of /\ [r EXCEPT !.done = TRUE].kind = r.kind
  BY DoneIs
<1>5. /\ requests' \in Seq(Request) /\ DOMAIN requests' = DOMAIN requests
      /\ requests'[i] = [r EXCEPT !.done = TRUE]
      /\ \A j \in DOMAIN requests : j # i => requests'[j] = requests[j]
  BY <1>0, <1>1, <1>3, <1>4 DEF TypeOK
<1>6. \A j \in DOMAIN requests' : requests'[j].live = requests[j].live
  BY <1>0, <1>4, <1>5
<1>7. route = List => \A j \in DOMAIN requests' : ~requests'[j].live
  BY <1>5, <1>6 DEF IInv, NothingLive
<1>8. Awaited \subseteq Awaited'
  BY <1>0, <1>3, <1>5 DEF Awaited
<1>9. r.live /\ r.kind \in Following => r.of \in Awaited'
  BY <1>1, <1>4, <1>5 DEF Awaited
<1>10. CASE c = server[r.of]
  <2>1. UNCHANGED <<server, route, shown, loading, saving, form, dialog, typed, loads, behind>>
    BY <1>3, <1>10
  <2>2. TypeOK' /\ Live' = Live
    BY <1>1, <1>5, <2>1 DEF TypeOK, Live
  <2> QED
    BY <1>7, <1>8, <2>1, <2>2, Undisturbed
<1>11. CASE c # server[r.of]
  <2>1. r.kind = "invite" => r.arg # Me
    BY <1>3 DEF Accepts
  <2>2. /\ c \in Contents /\ (IsMember(c, Me) => IsMember(server[r.of], Me))
        /\ IsMember(c, Me) \/ Empty(c)
        /\ r.kind = "export" => c = server[r.of]
        /\ r.kind = "invite" => c.role = server[r.of].role /\ c.opinion = server[r.of].opinion
    BY <1>1, <1>2, <1>3, <2>1, AfterIs DEF People
  <2>3. /\ server' = [server EXCEPT ![r.of] = c] /\ loads' = Misses(Stored(r.of, c), r.of, foreign)
        /\ behind' = Behind(r.of, foreign) /\ UNCHANGED <<route, shown, loading, saving, form, dialog, typed>>
    BY <1>3, <1>11 DEF Change
  <2>4. TypeOK'
    <3>1. loads' \in Seq(Load)
      BY <1>1, <2>2, <2>3, ChangedIs DEF Changed
    <3>2. behind' \subseteq Parts
      BY <1>1, <2>3 DEF Behind, TypeOK
    <3> QED
      BY <1>1, <1>5, <2>2, <2>3, <3>1, <3>2 DEF TypeOK
  <2>5. r.of \in Awaited' \/ \A part \in Parts \ foreign : Answers(r.of, c)[part] = Answers(r.of, server[r.of])[part]
    <3>1. CASE ~r.live
      BY <1>3, <3>1
    <3>2. CASE r.live /\ r.kind = "invite"
      <4>1. foreign = {"invitations"} /\ c.role = server[r.of].role /\ c.opinion = server[r.of].opinion
        BY <1>3, <2>2, <3>2
      <4> QED
        BY <4>1 DEF Answers, Parts
    <3>3. CASE r.live /\ r.kind # "invite"
      BY <1>1, <1>9, <1>11, <2>2, <3>3 DEF Following, Reloading, Kinds, AdminKinds, AboutMember
    <3> QED
      BY <3>1, <3>2, <3>3
  <2> QED
    BY <1>1, <1>7, <1>8, <2>2, <2>3, <2>4, <2>5, ServerChanged
<1> QED
  BY <1>10, <1>11

(* Somebody else changes a project.                                          *)
LEMMA OthersChangeStep ==
    ASSUME IInv, NEW p \in Busy, OthersChange(p)
    PROVE  IInv'
<1>1. TypeOK /\ p \in Projects /\ server[p] \in Contents
  BY ConstantsAssumption DEF IInv, TypeOK
<1>2. PICK c \in Theirs(server[p]) \ {server[p]} :
        /\ Change(p, c)
        /\ loads' = Misses(Stored(p, c), p, Parts)
        /\ behind' = Behind(p, Parts)
  BY DEF OthersChange
<1>3. UNCHANGED <<route, shown, loading, saving, form, dialog, requests, typed>>
  BY DEF OthersChange
<1>4. c \in Contents /\ (IsMember(c, Me) => IsMember(server[p], Me))
  BY <1>1, TheirsAre
<1>5. server' = [server EXCEPT ![p] = c]
  BY <1>2 DEF Change
<1>6. TypeOK'
  <2>1. loads' \in Seq(Load)
    BY <1>1, <1>2, <1>4, ChangedIs DEF Changed
  <2>2. behind' \subseteq Parts
    BY <1>1, <1>2 DEF Behind, TypeOK
  <2> QED
    BY <1>1, <1>3, <1>4, <1>5, <2>1, <2>2 DEF TypeOK
<1>7. Awaited' = Awaited /\ "result" \in Parts
  BY <1>3 DEF Awaited, Parts
<1>8. route = List => \A i \in DOMAIN requests' : ~requests'[i].live
  BY <1>3 DEF IInv, NothingLive
<1> QED
  BY <1>1, <1>2, <1>3, <1>4, <1>5, <1>6, <1>7, <1>8, ServerChanged

(* A request that has succeeded is followed by a load of the page that sent *)
(* it, or by leaving this page.                                             *)
LEMMA RequestAnsweredStep ==
    ASSUME IInv, NEW i \in DOMAIN requests, RequestAnswered(i)
    PROVE  IInv'
<1>0. PICK r \in Request : r = requests[i]
  BY DEF IInv, TypeOK
<1>1. TypeOK /\ r.of \in Projects /\ r.kind \in Kinds /\ server' = server
  BY RequestIs DEF IInv, RequestAnswered
<1>2. requests \in Seq(Request) /\ loads \in Seq(Load)
  BY <1>1 DEF TypeOK
<1>3. CASE r.kind = "delete_project" /\ route # List
  <2>1. LeavePage(loads, RemoveAt(requests, i))
    BY <1>0, <1>3 DEF RequestAnswered
  <2>2. RemoveAt(requests, i) \in Seq(Request)
    BY <1>2, RemoveAtEntries
  <2> QED
    BY <1>1, <1>2, <2>1, <2>2, PageLeft, PageLeftTypes
<1>4. CASE ~(r.kind = "delete_project" /\ route # List)
  <2>0. /\ requests' = RemoveAt(requests, i)
        /\ loads' = LoadsAfter(r)
        /\ saving' = IF r.live /\ r.kind = "save" THEN FALSE ELSE saving
        /\ IF r.live /\ r.kind = "withdraw" THEN form' = Blank /\ typed' = FALSE ELSE UNCHANGED <<form, typed>>
        /\ dialog' = IF r.live /\ r.kind = "transfer" /\ dialog # NoDialog /\ dialog.kind = "transfer"
                     THEN NoDialog ELSE dialog
        /\ UNCHANGED <<route, shown, loading, behind>>
    BY <1>0, <1>4 DEF RequestAnswered
  <2> DEFINE dead == [NewLoad(r.of) EXCEPT !.live = FALSE, !.seen = {}]
  <2>1. NewLoad(r.of) \in Load /\ dead \in Load /\ ~dead.live
    BY <1>1, NewLoadIs
  <2>2. LoadsAfter(r) = IF r.kind \in Reloading THEN Append(loads, IF r.live THEN NewLoad(r.of) ELSE dead) ELSE loads
    BY DEF LoadsAfter, Refetch
  <2> HIDE DEF dead
  <2>3. loads' \in Seq(Load)
    BY <1>2, <2>0, <2>1, <2>2
  <2>4. /\ requests' \in Seq(Request)
        /\ \A j \in DOMAIN requests' : \E k \in DOMAIN requests : requests'[j] = requests[k]
        /\ ~(r.live /\ r.done /\ r.kind \in Following) => Awaited \subseteq Awaited'
    BY <1>0, <1>1, <2>0, RequestGone
  <2>5. TypeOK'
    BY <1>1, <2>0, <2>3, <2>4 DEF TypeOK
  <2>6. route = List => ~r.live /\ \A j \in DOMAIN requests' : ~requests'[j].live
    BY <1>0, <2>4 DEF IInv, NothingLive
  <2>7. CASE r.live /\ r.kind \in Reloading
    <3>1. route' # List /\ loads' = Append(loads, NewLoad(r.of)) /\ MembersShown'
      BY <2>0, <2>2, <2>6, <2>7 DEF IInv, MembersShown
    <3> QED
      BY <1>1, <2>5, <3>1, LoadStarts
  <2>8. CASE ~(r.live /\ r.kind \in Reloading)
    <3>1. Awaited \subseteq Awaited'
      BY <1>4, <2>4, <2>6, <2>8 DEF Following
    <3>2. UNCHANGED <<form, typed>>
      BY <2>0, <2>8 DEF Reloading
    <3>3. Live' = Live /\ \A j \in Live : loads'[j] = loads[j]
      <4>1. CASE r.kind \in Reloading
        <5>1. loads' = Append(loads, dead)
          BY <2>0, <2>2, <2>8, <4>1
        <5>2. /\ DOMAIN loads' = DOMAIN loads \cup {Len(loads) + 1} /\ Len(loads) + 1 \notin DOMAIN loads
              /\ loads'[Len(loads) + 1] = dead /\ \A j \in DOMAIN loads : loads'[j] = loads[j]
          BY <1>2, <5>1
        <5> QED
          BY <2>1, <5>2 DEF Live
      <4>2. CASE r.kind \notin Reloading
        BY <2>0, <2>2, <4>2 DEF Live
      <4> QED
        BY <4>1, <4>2
    <3>4. UNCHANGED <<server, route, shown, loading, behind>>
      BY <1>1, <2>0
    <3> QED
      BY <2>5, <2>6, <3>1, <3>2, <3>3, <3>4, Undisturbed
  <2> QED
    BY <2>7, <2>8
<1> QED
  BY <1>3, <1>4

(* One that has failed is not: if the server has done it after all, nothing *)
(* of that project is sure any more.                                        *)
LEMMA RequestFailedStep ==
    ASSUME IInv, NEW i \in DOMAIN requests, RequestFailed(i)
    PROVE  IInv'
<1>0. PICK r \in Request : r = requests[i]
  BY DEF IInv, TypeOK
<1>1. TypeOK /\ r.of \in Projects /\ r.kind \in Kinds /\ loads \in Seq(Load)
  BY RequestIs DEF IInv, TypeOK
<1>2. PICK lost \in SUBSET Parts :
        /\ lost = IF r.live /\ r.done /\ r.kind # "export" THEN Parts ELSE {}
        /\ requests' = RemoveAt(requests, i)
        /\ saving' = IF r.live /\ r.kind = "save" THEN FALSE ELSE saving
        /\ loads' = Misses(loads, r.of, lost)
        /\ behind' = Behind(r.of, lost)
        /\ UNCHANGED <<server, changes, route, shown, loading, form, dialog, typed>>
  BY <1>0 DEF RequestFailed
<1>3. /\ requests' \in Seq(Request)
      /\ \A j \in DOMAIN requests' : \E k \in DOMAIN requests : requests'[j] = requests[k]
      /\ Awaited \ {r.of} \subseteq Awaited'
      /\ ~(r.live /\ r.done /\ r.kind \in Following) => Awaited \subseteq Awaited'
  BY <1>0, <1>1, <1>2, RequestGone
<1>4. lost = Parts \/ Awaited \subseteq Awaited'
  BY <1>2, <1>3 DEF Following, Reloading
<1>5. /\ loads' \in Seq(Load) /\ DOMAIN loads' = DOMAIN loads
      /\ \A k \in DOMAIN loads :
           /\ loads'[k].of = loads[k].of /\ loads'[k].seen = loads[k].seen
           /\ loads'[k].live = loads[k].live
           /\ loads'[k].overtaken = loads[k].overtaken
           /\ loads[k].misses \subseteq loads'[k].misses
           /\ loads[k].live /\ loads[k].of = r.of => lost \subseteq loads'[k].misses
  <2>1. /\ loads' \in Seq(Load) /\ Len(loads') = Len(loads)
        /\ \A k \in DOMAIN loads :
             /\ loads'[k].of = loads[k].of /\ loads'[k].seen = loads[k].seen
             /\ loads'[k].live = loads[k].live
             /\ loads'[k].overtaken = loads[k].overtaken
             /\ loads[k].misses \subseteq loads'[k].misses
             /\ loads[k].live /\ loads[k].of = r.of => lost \subseteq loads'[k].misses
    BY <1>1, <1>2, MissesIs
  <2> QED
    BY <1>1, <2>1
<1>6. TypeOK'
  <2>1. behind' \subseteq Parts
    BY <1>1, <1>2 DEF Behind, TypeOK
  <2> QED
    BY <1>1, <1>2, <1>3, <1>5, <2>1 DEF TypeOK
<1>7. Live' = Live
  BY <1>5 DEF Live
<1>8. LoadsFollow'
  <2> SUFFICES ASSUME NEW k \in Live
               PROVE  /\ server[loads'[k].of] \in loads'[k].seen
                      /\ ~loads'[k].overtaken /\ loads'[k].of \notin Awaited' /\ (\A j \in Live : j <= k) =>
                           \A part \in Parts \ loads'[k].misses, c \in loads'[k].seen :
                               Answers(loads'[k].of, c)[part] = Answers(loads'[k].of, server[loads'[k].of])[part]
                      /\ "result" \notin loads'[k].misses =>
                           \A c, d \in loads'[k].seen : IsMember(c, Me) /\ ~IsMember(d, Me) => Empty(d)
    BY <1>2, <1>7 DEF LoadsFollow
  <2>1. k \in DOMAIN loads /\ loads[k].live
    BY DEF Live
  <2>2. /\ loads'[k].of = loads[k].of /\ loads'[k].seen = loads[k].seen
        /\ loads'[k].overtaken = loads[k].overtaken /\ loads[k].misses \subseteq loads'[k].misses
        /\ loads[k].of = r.of => lost \subseteq loads'[k].misses
    BY <1>5, <2>1
  <2>3. /\ server[loads[k].of] \in loads[k].seen
        /\ ~loads[k].overtaken /\ loads[k].of \notin Awaited /\ (\A j \in Live : j <= k) =>
             \A part \in Parts \ loads[k].misses, c \in loads[k].seen :
                 Answers(loads[k].of, c)[part] = Answers(loads[k].of, server[loads[k].of])[part]
        /\ "result" \notin loads[k].misses =>
             \A c, d \in loads[k].seen : IsMember(c, Me) /\ ~IsMember(d, Me) => Empty(d)
    BY DEF IInv, LoadsFollow
  <2>4. CASE loads[k].of = r.of /\ lost = Parts
    BY <2>2, <2>3, <2>4 DEF Parts
  <2>5. CASE ~(loads[k].of = r.of /\ lost = Parts)
    <3>1. loads[k].of \notin Awaited' => loads[k].of \notin Awaited
      BY <1>3, <1>4, <2>5
    <3> QED
      BY <2>2, <2>3, <3>1
  <2> QED
    BY <2>4, <2>5
<1>9. PageFollows'
  <2> SUFFICES ASSUME Shown, Live = {}, route \notin Awaited', NEW part \in Parts \ behind'
               PROVE  shown[part] = Truth[part]
    BY <1>2, <1>7 DEF PageFollows, Shown, Truth
  <2>1. part \in Parts \ behind /\ ~(route = r.of /\ lost = Parts)
    BY <1>2 DEF Behind
  <2>2. route \notin Awaited
    BY <1>3, <1>4, <2>1
  <2> QED
    BY <2>1, <2>2 DEF IInv, PageFollows
<1>10. FormFollows' /\ MembersShown'
  BY <1>2, <1>7 DEF IInv, FormFollows, MembersShown
<1>11. NothingLive'
  BY <1>2, <1>3, <1>7 DEF IInv, NothingLive
<1> QED
  BY <1>6, <1>8, <1>9, <1>10, <1>11 DEF IInv

-------------------------------------------------------------------------------
(* The invariant, and what follows from it.                                 *)

(* Every action keeps IInv.                                                  *)
LEMMA IInvStep == IInv /\ [Next]_vars => IInv'
<1> SUFFICES ASSUME IInv, [Next]_vars PROVE IInv'
  OBVIOUS
<1>1. ASSUME NEW i \in DOMAIN requests, ServerAccepts(i) \/ RequestEnds(i) PROVE IInv'
  BY <1>1, ServerAcceptsStep, RequestAnsweredStep, RequestFailedStep DEF RequestEnds
<1>2. CASE UNCHANGED vars
  <2>1. UNCHANGED <<server, route, shown, loading, saving, form, dialog, behind, typed, loads, requests>>
    BY <1>2 DEF vars, page
  <2> QED
    BY <2>1, PageOnlyStep DEF IInv, TypeOK
<1> QED
  BY <1>1, <1>2, UserStep, LoadStep, OthersChangeStep DEF Next

(* IInv holds throughout.                                                    *)
LEMMA IInvCorrect == Spec => []IInv
<1> QED
  BY InitIInv, IInvStep, PTL DEF Spec

(* What is known of a settled page is what is stored.                       *)
LEMMA KnownIsTruth ==
    ASSUME IInv, Settled
    PROVE  /\ \A part \in Parts \ behind : shown[part] = Truth[part]
           /\ Known = Truth
<1>1. Shown /\ Live = {} /\ route \notin Awaited
  BY DEF Settled, Live, Awaited
<1>2. \A part \in Parts \ behind : shown[part] = Truth[part]
  BY <1>1 DEF IInv, PageFollows
<1>3. Known = [part \in Parts |-> Truth[part]]
  BY <1>2 DEF Known
<1>4. Truth = [part \in Parts |-> Truth[part]]
  BY DEF Truth, Answers, Parts
<1> QED
  BY <1>2, <1>3, <1>4

(* The page of a member who is settled is his page of the stored project.   *)
LEMMA KnownParts ==
    ASSUME IInv, Settled, behind \subseteq {"invitations"}
    PROVE  /\ route \in Projects /\ server[route] \in Contents /\ Me \in People
           /\ shown.project.role = server[route].role[Me]
           /\ shown.opinions = server[route].opinion
           /\ shown.members = server[route].role
           /\ ResultsSection(shown) # NoResult => \E u \in People : server[route].opinion[u] # NoOpinion
           /\ IsMember(server[route], Me)
<1>1. Shown /\ route \in Projects /\ server[route] \in Contents /\ Me \in People /\ shown # Nothing
  BY DEF IInv, TypeOK, Settled, Shown, People
<1>2. \A part \in {"project", "opinions", "result", "members"} : shown[part] = Truth[part]
  BY KnownIsTruth DEF Parts
<1>3. /\ Truth.project = [id |-> route, role |-> server[route].role[Me]]
      /\ Truth.opinions = server[route].opinion /\ Truth.members = server[route].role
  BY DEF Truth, Answers
<1>4. /\ shown.project = [id |-> route, role |-> server[route].role[Me]]
      /\ shown.opinions = server[route].opinion /\ shown.members = server[route].role
  BY <1>2, <1>3
<1>5. ResultsSection(shown) # NoResult => \E u \in People : server[route].opinion[u] # NoOpinion
  BY <1>4 DEF ResultsSection
<1>6. IsMember(server[route], Me)
  BY <1>1, <1>4 DEF IInv, MembersShown, IsMember
<1> QED
  BY <1>1, <1>4, <1>5, <1>6

(* The state of the page and of the calls has its types.                    *)
THEOREM TypesCorrect == Spec => []TypeOK
<1> QED
  BY IInvCorrect, PTL DEF IInv

(* A page at rest shows the project in the URL as it is stored: whatever    *)
(* the order in which loads and requests end and the user moves between     *)
(* projects, no change of the user is left unloaded.                        *)
THEOREM ScreenCorrect == Spec => []SettledIsFresh
<1>1. IInv => SettledIsFresh
  BY KnownIsTruth DEF SettledIsFresh
<1> QED
  BY <1>1, IInvCorrect, PTL

(* What such a page offers, the server accepts.                             *)
THEOREM OffersCorrect == Spec => []OfferedIsAccepted
<1>1. ASSUME IInv PROVE OfferedIsAccepted
  <2> DEFINE c == server[route]
             confirmed == {[kind |-> d.kind, arg |-> d.who] : d \in {e \in Dialogs(shown) : e.kind \in {"transfer", "delete_project"}}}
             saved == {[kind |-> "save", arg |-> e] : e \in {x \in {form} : SaveEnabled(shown, x, saving) /\ ChecksPass(x)}}
  <2> SUFFICES ASSUME Settled, behind \subseteq {"invitations"}, NEW r \in Offered(shown) \cup confirmed \cup saved
               PROVE  Accepts(c, Me, r)
    BY DEF OfferedIsAccepted
  <2>1. /\ Me \in People /\ IsMember(c, Me)
        /\ shown.project.role = c.role[Me] /\ shown.opinions = c.opinion /\ shown.members = c.role
        /\ ResultsSection(shown) # NoResult => \E u \in People : c.opinion[u] # NoOpinion
    BY <1>1, KnownParts
  <2> HIDE DEF c
  <2>2. CASE r \in Offered(shown)
    <3>1. CASE r = [kind |-> "withdraw", arg |-> Me] /\ MyOpinion(shown) # NoOpinion
      BY <2>1, <3>1 DEF Accepts, MyOpinion, AdminKinds, AboutMember
    <3>2. CASE r = [kind |-> "export", arg |-> Me] /\ ResultsSection(shown) # NoResult
      BY <2>1, <3>2 DEF Accepts, AdminKinds, AboutMember
    <3>3. ASSUME NEW u \in People, r = [kind |-> "remove", arg |-> u], shown.members[u] # "none",
                 "remove" \in MemberButtons(shown, u)
          PROVE  Accepts(c, Me, r)
      BY <2>1, <3>3 DEF Accepts, AdminKinds, AboutMember, MemberButtons, IsAdmin, IsMember
    <3> QED
      BY <2>2, <3>1, <3>2, <3>3 DEF Offered
  <2>3. CASE r \in confirmed
    <3>1. PICK d \in Dialogs(shown) : d.kind \in {"transfer", "delete_project"} /\ r = [kind |-> d.kind, arg |-> d.who]
      BY <2>3
    <3>2. CASE d = [kind |-> "delete_project", who |-> Me] /\ IsAdmin(shown)
      BY <2>1, <3>1, <3>2 DEF Accepts, IsAdmin, AdminKinds, AboutMember
    <3>3. ASSUME NEW u \in People, d = [kind |-> "transfer", who |-> u], shown.members[u] # "none",
                 "transfer" \in MemberButtons(shown, u)
          PROVE  Accepts(c, Me, r)
      BY <2>1, <3>1, <3>3 DEF Accepts, AdminKinds, AboutMember, MemberButtons, IsAdmin, IsMember
    <3> QED
      BY <3>1, <3>2, <3>3 DEF Dialogs, HeaderButtons
  <2>4. CASE r \in saved
    <3>1. r = [kind |-> "save", arg |-> form] /\ ChecksPass(form)
      BY <2>4
    <3> QED
      BY <2>1, <3>1 DEF Accepts, ChecksPass, AdminKinds, AboutMember
  <2> QED
    BY <2>2, <2>3, <2>4
<1> QED
  BY <1>1, IInvCorrect, PTL

(* And an untouched form holds the stored opinion of the user.              *)
THEOREM FormCorrect == Spec => []UntouchedForm
<1>1. ASSUME IInv PROVE UntouchedForm
  <2> SUFFICES ASSUME Settled, behind \subseteq {"invitations"}, ~typed, MyOpinion(Truth) # NoOpinion
               PROVE  form = MyOpinion(Truth)
    BY DEF UntouchedForm
  <2>1. shown.opinions = server[route].opinion
    BY <1>1, KnownParts
  <2>2. MyOpinion(shown) = MyOpinion(Truth)
    BY <2>1 DEF MyOpinion, Truth, Answers
  <2>3. shown # Nothing /\ Live = {}
    BY DEF Settled, Shown, Live
  <2> QED
    BY <1>1, <2>2, <2>3 DEF IInv, FormFollows
<1> QED
  BY <1>1, IInvCorrect, PTL

=================================================================================
