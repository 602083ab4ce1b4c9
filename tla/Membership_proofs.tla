-------------------------- MODULE Membership_proofs --------------------------
(***************************************************************************)
(* Proofs about Membership, for any number of users and requests.           *)
(***************************************************************************)
EXTENDS Membership, TLAPS

(* A transfer or a removal in flight has loaded a project.                  *)
HoldsProject(q) ==
    /\ q.pc = "old" => q.op = "transfer"
    /\ InFlight(q) /\ q.op \in Transfers => q.admin \in Users

TypeInv == TypeOK /\ \A r \in Requests : HoldsProject(request[r])

-------------------------------------------------------------------------------
(* Type correctness.                                                        *)

(* A request starts out well typed.                                         *)
LEMMA NewRequestType ==
    ASSUME NEW op \in Operations, NEW u \in Users, NEW target \in Users
    PROVE  NewRequest(op, u, target) \in RequestStates
BY DEF NewRequest, RequestStates, PCs

(* The first statement of a request.                                        *)
LEMMA BeginType ==
    ASSUME TypeInv, NEW r \in Requests, NEW new \in RequestStates, HoldsProject(new),
           Begin(r, new)
    PROVE  TypeInv'
<1>1. TypeOK'
  BY DEF TypeInv, TypeOK, Begin, database
<1>2. request' = [request EXCEPT ![r] = new]
  BY DEF Begin
<1> QED
  BY <1>1, <1>2 DEF TypeInv, TypeOK

(* The later ones.                                                          *)
LEMMA ReadType ==
    ASSUME TypeInv, NEW r \in Requests, NEW new \in RequestStates, HoldsProject(new),
           Read(r, new)
    PROVE  TypeInv'
<1>1. TypeOK'
  BY DEF TypeInv, TypeOK, Read, database
<1>2. request' = [request EXCEPT ![r] = new]
  BY DEF Read
<1> QED
  BY <1>1, <1>2 DEF TypeInv, TypeOK

(* A rollback.                                                              *)
LEMMA FailType ==
    ASSUME TypeInv, NEW r \in Requests, Fail(r)
    PROVE  TypeInv'
<1> DEFINE q == request[r]
           closed == [NewRequest(q.op, q.user, q.target) EXCEPT !.pc = "failed"]
<1>1. NewRequest(q.op, q.user, q.target) \in RequestStates
  BY NewRequestType DEF TypeInv, TypeOK, RequestStates
<1>2. closed \in RequestStates /\ closed.pc = "failed"
  BY <1>1 DEF RequestStates, PCs
<1>3. Read(r, closed)
  BY DEF Fail
<1> HIDE DEF closed
<1> QED
  BY <1>2, <1>3, ReadType DEF HoldsProject, InFlight

(* A commit of well-typed rows.                                             *)
LEMMA FinishType ==
    ASSUME TypeInv, NEW r \in Requests, NEW pc \in {"done", "failed"}, Finish(r, pc),
           accounts' \subseteq Users, admin' \in Users \cup {NotCreated, Deleted},
           members' \in [Users -> MemberRows \cup {None}],
           invitations' \in [Users -> InvitationRows \cup {None}]
    PROVE  TypeInv'
<1> DEFINE new == [request[r] EXCEPT !.pc = pc]
<1>1. new \in RequestStates /\ HoldsProject(new)
  BY DEF TypeInv, TypeOK, RequestStates, PCs, HoldsProject, InFlight
<1>2. request' = [request EXCEPT ![r] = new]
  BY DEF Finish
<1> HIDE DEF new
<1>3. TypeOK'
  BY <1>1, <1>2 DEF TypeInv, TypeOK, Finish
<1> QED
  BY <1>1, <1>2, <1>3 DEF TypeInv, TypeOK

(* A transfer that commits leaves a project, with members of either role.   *)
LEMMA TransferType ==
    ASSUME TypeInv, NEW r \in Requests, TransferOwnership(r), ~Fail(r)
    PROVE  /\ Exists /\ admin' \in Users /\ Finish(r, "done")
           /\ members' \in [Users -> MemberRows \cup {None}]
           /\ UNCHANGED <<accounts, invitations>>
<1> DEFINE q == request[r]
           updates == RoleUpdates(q)
           role(u) == (CHOOSE c \in updates : c.user = u).role
<1>1. /\ Exists /\ Finish(r, "done") /\ UNCHANGED <<accounts, invitations>>
      /\ admin' = IF q.target # q.admin THEN q.target ELSE admin
      /\ \A c \in updates : StillThere(members[c.user], c.row)
      /\ members' = [u \in Users |-> IF \E c \in updates : c.user = u
                                     THEN [members[u] EXCEPT !.role = role(u)]
                                     ELSE members[u]]
  BY DEF TransferOwnership
<1>2. \A c \in updates : c.role \in {"admin", "expert"}
  BY DEF RoleUpdates, Promotion, Demotions
<1> HIDE DEF updates
<1>3. ASSUME NEW u \in Users, \E c \in updates : c.user = u
      PROVE  [members[u] EXCEPT !.role = role(u)] \in MemberRows
  <2>1. role(u) \in {"admin", "expert"}
    BY <1>2, <1>3
  <2>2. members[u] \in MemberRows
    BY <1>1, <1>3 DEF StillThere, TypeInv, TypeOK
  <2> HIDE DEF role
  <2> QED
    BY <2>1, <2>2 DEF MemberRows
<1> HIDE DEF role
<1>4. members' \in [Users -> MemberRows \cup {None}]
  BY <1>1, <1>3 DEF TypeInv, TypeOK
<1>5. admin' \in Users
  BY <1>1 DEF Exists, TypeInv, TypeOK, RequestStates
<1> QED
  BY <1>1, <1>4, <1>5

(* Neither a merge of stale snapshots nor a cascade leads out of the types.  *)
THEOREM TypeStep == TypeInv /\ [Next]_vars => TypeInv'
<1> SUFFICES ASSUME TypeInv, [Next]_vars PROVE TypeInv'
  OBVIOUS
<1> USE DEF TypeInv
<1>1. ASSUME NEW r \in Requests, Start(r) PROVE TypeInv'
  <2>1. ASSUME NEW u \in Users, NEW target \in Users, NEW op \in Operations,
               LoadProject(r, op, u, target)
        PROVE  TypeInv'
    <3> DEFINE new == [NewRequest(op, u, target) EXCEPT !.admin = admin]
    <3>1. new \in RequestStates
      BY <2>1, NewRequestType DEF LoadProject, Exists, RequestStates
    <3>2. HoldsProject(new)
      BY <2>1 DEF LoadProject, Exists, HoldsProject, NewRequest
    <3> QED
      BY <2>1, <3>1, <3>2, BeginType DEF LoadProject
  <2>2. ASSUME NEW u \in Users, NEW op \in Answers, LoadInvitation(r, op, u) PROVE TypeInv'
    <3> DEFINE pc == IF op = "accept" THEN "member" ELSE "commit"
               new == [NewRequest(op, u, u) EXCEPT !.pc = pc, !.invitation = invitations[u]]
    <3>1. NewRequest(op, u, u) \in RequestStates /\ NewRequest(op, u, u).op = op
      BY NewRequestType DEF Operations, NewRequest
    <3>2. pc \in PCs /\ pc # "old" /\ op \notin Transfers
      BY DEF PCs, Answers, Transfers
    <3>3. invitations[u] \in InvitationRows \cup {None}
      BY DEF TypeOK
    <3>4. Begin(r, new)
      BY <2>2 DEF LoadInvitation
    <3> HIDE DEF pc
    <3>5. new \in RequestStates /\ HoldsProject(new)
      BY <3>1, <3>2, <3>3 DEF RequestStates, HoldsProject
    <3> QED
      BY <3>4, <3>5, BeginType
  <2>3. ASSUME NEW u \in Users, CheckOwnedProjects(r, u) PROVE TypeInv'
    <3> DEFINE new == [NewRequest("delete_account", u, u) EXCEPT !.pc = "commit"]
    <3>1. new \in RequestStates
      BY NewRequestType DEF Operations, RequestStates, PCs
    <3>2. HoldsProject(new)
      BY DEF HoldsProject, NewRequest, Transfers
    <3> QED
      BY <2>3, <3>1, <3>2, BeginType DEF CheckOwnedProjects
  <2> QED
    BY <1>1, <2>1, <2>2, <2>3 DEF Start, Operations
<1>2. ASSUME NEW r \in Requests, Authorize(r) PROVE TypeInv'
  <2> DEFINE pc == IF request[r].op = "delete_project" THEN "commit" ELSE "member"
             new == [request[r] EXCEPT !.pc = pc]
  <2>1. new \in RequestStates
    BY DEF TypeOK, RequestStates, PCs
  <2>2. HoldsProject(new)
    BY <1>2 DEF Authorize, HoldsProject, InFlight, TypeOK, RequestStates
  <2> QED
    BY <1>2, <2>1, <2>2, FailType, ReadType DEF Authorize
<1>3. ASSUME NEW r \in Requests, SelectMember(r) PROVE TypeInv'
  <2> DEFINE pc == IF request[r].op = "transfer" THEN "old" ELSE "commit"
             new == [request[r] EXCEPT !.pc = pc, !.member = members[request[r].target]]
  <2>1. /\ pc \in PCs /\ members[request[r].target] \in MemberRows \cup {None}
        /\ pc = "old" => request[r].op = "transfer"
    BY DEF TypeOK, RequestStates, PCs
  <2>2. Fail(r) \/ Read(r, new)
    BY <1>3 DEF SelectMember
  <2> HIDE DEF pc
  <2>3. new \in RequestStates
    BY <2>1 DEF TypeOK, RequestStates
  <2>4. HoldsProject(new)
    BY <1>3, <2>1 DEF SelectMember, HoldsProject, InFlight, TypeOK, RequestStates
  <2> QED
    BY <2>2, <2>3, <2>4, FailType, ReadType
<1>4. ASSUME NEW r \in Requests, SelectOldAdmin(r) PROVE TypeInv'
  <2>1. PICK loaded : /\ Read(r, [request[r] EXCEPT !.pc = "commit", !.old = loaded])
                      /\ loaded \in {request[r].member, members[request[r].admin]}
    BY <1>4 DEF SelectOldAdmin
  <2> DEFINE new == [request[r] EXCEPT !.pc = "commit", !.old = loaded]
  <2>2. request[r].admin \in Users
    BY <1>4 DEF SelectOldAdmin, HoldsProject, InFlight, Transfers
  <2>3. loaded \in MemberRows \cup {None}
    BY <2>1, <2>2 DEF TypeOK, RequestStates
  <2>4. new \in RequestStates
    BY <2>3 DEF TypeOK, RequestStates, PCs
  <2>5. new.pc = "commit" /\ new.admin = request[r].admin
    BY DEF TypeOK, RequestStates
  <2>6. HoldsProject(new)
    BY <2>2, <2>5 DEF HoldsProject
  <2> QED
    BY <2>1, <2>4, <2>6, ReadType
<1>5. ASSUME NEW r \in Requests, CheckInvitee(r) \/ CheckInvited(r) \/ CheckMembership(r)
      PROVE  TypeInv'
  <2>1. PICK pc \in {"invitation", "commit", "withdraw"} :
            Fail(r) \/ Read(r, [request[r] EXCEPT !.pc = pc])
    BY <1>5 DEF CheckInvitee, CheckInvited, CheckMembership
  <2>2. [request[r] EXCEPT !.pc = pc] \in RequestStates
    BY DEF TypeOK, RequestStates, PCs
  <2>3. HoldsProject([request[r] EXCEPT !.pc = pc])
    BY <1>5 DEF CheckInvitee, CheckInvited, CheckMembership, HoldsProject, InFlight,
                TypeOK, RequestStates
  <2> QED
    BY <2>1, <2>2, <2>3, FailType, ReadType
<1>6. ASSUME NEW r \in Requests, TransferOwnership(r) PROVE TypeInv'
  BY <1>6, FailType, FinishType, TransferType DEF TypeOK
<1>7. ASSUME NEW r \in Requests, RemoveMember(r) \/ DeleteProject(r) PROVE TypeInv'
  BY <1>7, FinishType DEF RemoveMember, DeleteProject, TypeOK
<1>8. ASSUME NEW r \in Requests, InviteByEmail(r) PROVE TypeInv'
  <2>1. [id |-> r, inviter |-> request[r].user] \in InvitationRows
    BY DEF InvitationRows, RowIds, TypeOK, RequestStates
  <2> QED
    BY <1>8, <2>1, FailType, FinishType DEF InviteByEmail, TypeOK
<1>9. ASSUME NEW r \in Requests,
             AcceptInvitation(r) \/ WithdrawInvitation(r) \/ DeclineInvitation(r)
      PROVE  TypeInv'
  <2>1. [id |-> r, role |-> "expert"] \in MemberRows
    BY DEF MemberRows, RowIds
  <2>2. InvitationsWithout(request[r]) \in [Users -> InvitationRows \cup {None}]
    BY DEF InvitationsWithout, TypeOK
  <2> QED
    BY <1>9, <2>1, <2>2, FailType, FinishType
       DEF AcceptInvitation, WithdrawInvitation, DeclineInvitation, TypeOK
<1>10. ASSUME NEW r \in Requests, DeleteAccount(r) PROVE TypeInv'
  <2>1. CascadeAccount(request[r].user) => /\ accounts' \subseteq Users
                                           /\ members' \in [Users -> MemberRows \cup {None}]
                                           /\ invitations' \in [Users -> InvitationRows \cup {None}]
    BY DEF CascadeAccount, TypeOK
  <2> QED
    BY <1>10, <2>1, FailType, FinishType DEF DeleteAccount, TypeOK
<1>11. ASSUME NEW r \in Requests, Crash(r) PROVE TypeInv'
  BY <1>11, FailType DEF Crash
<1>12. ASSUME NEW u \in Users, CreateProject(u) PROVE TypeInv'
  <2>1. [id |-> Before, role |-> "admin"] \in MemberRows
    BY DEF MemberRows, RowIds
  <2> QED
    BY <1>12, <2>1 DEF CreateProject, TypeOK
<1>13. CASE UNCHANGED vars
  BY <1>13 DEF vars, TypeOK
<1> QED
  BY <1>1, <1>2, <1>3, <1>4, <1>5, <1>6, <1>7, <1>8, <1>9, <1>10, <1>11, <1>12, <1>13
     DEF Next, Serve

(* Every initial project is well typed.                                     *)
LEMMA TypeInit == Init => TypeInv
<1> SUFFICES ASSUME Init PROVE TypeInv
  OBVIOUS
<1>1. PICK u \in Users :
          request = [r \in Requests |-> [NewRequest("accept", u, u) EXCEPT !.pc = "ready"]]
  BY DEF Init
<1>2. NewRequest("accept", u, u) \in RequestStates
  BY NewRequestType DEF Operations, Answers
<1>3. \A r \in Requests : request[r] \in RequestStates /\ request[r].pc = "ready"
  BY <1>1, <1>2 DEF RequestStates, PCs
<1>4. request \in [Requests -> RequestStates]
  BY <1>1, <1>3
<1>5. /\ admin \in Users \cup {NotCreated, Deleted}
      /\ members \in [Users -> MemberRows \cup {None}]
      /\ invitations \in [Users -> InvitationRows \cup {None}]
  <2>1. CASE NoProjectYet
    BY <2>1 DEF NoProjectYet
  <2>2. CASE SomeProject
    BY <2>2 DEF SomeProject, MemberRows, InvitationRows, RowIds
  <2> QED
    BY <2>1, <2>2 DEF Init
<1> QED
  BY <1>3, <1>4, <1>5 DEF Init, TypeInv, TypeOK, HoldsProject, InFlight

(* The types hold, and transfers and removals know their project.           *)
LEMMA TypeInvariant == Spec => []TypeInv
BY TypeInit, TypeStep, PTL DEF Spec

(* Whatever overlaps, the rows and snapshots keep their types, and a project *)
(* that exists has an admin.                                                 *)
THEOREM MembershipTypeCorrect == Spec => []TypeOK
BY TypeInvariant, PTL DEF TypeInv

-------------------------------------------------------------------------------
(* Referential integrity.                                                   *)

(* A transfer moves the ownership to an account, and makes no member.       *)
LEMMA TransferReferents ==
    ASSUME TypeInv, NoOrphanRows, NEW r \in Requests, TransferOwnership(r), ~Fail(r)
    PROVE  /\ Exists /\ admin' \in accounts /\ UNCHANGED <<accounts, invitations>>
           /\ \A u \in Users : members'[u] # None => members[u] # None
<1> DEFINE q == request[r]
           updates == RoleUpdates(q)
<1>1. /\ Exists /\ UNCHANGED <<accounts, invitations>>
      /\ admin' = IF q.target # q.admin THEN q.target ELSE admin
      /\ q.target # q.admin => q.target \in accounts
      /\ \A c \in updates : StillThere(members[c.user], c.row)
      /\ \A u \in Users : ~(\E c \in updates : c.user = u) => members'[u] = members[u]
  BY DEF TransferOwnership
<1> QED
  BY <1>1 DEF StillThere, NoOrphanRows

(* The project of the start has an owner and members with accounts.         *)
LEMMA OrphanInit == Init => NoOrphanRows
<1> SUFFICES ASSUME Init PROVE NoOrphanRows
  OBVIOUS
<1>1. CASE NoProjectYet
  BY <1>1, ConstantsAssumption DEF Init, NoProjectYet, NoOrphanRows, Exists
<1>2. CASE SomeProject
  BY <1>2 DEF Init, SomeProject, NoOrphanRows, Exists
<1> QED
  BY <1>1, <1>2 DEF Init

(* No commit brings back what a deletion took away.                         *)
LEMMA OrphanStep == TypeInv /\ NoOrphanRows /\ [Next]_vars => NoOrphanRows'
<1> SUFFICES ASSUME TypeInv, NoOrphanRows, [Next]_vars PROVE NoOrphanRows'
  OBVIOUS
<1> USE DEF NoOrphanRows, Exists
<1>1. ASSUME UNCHANGED database PROVE NoOrphanRows'
  BY <1>1 DEF database
<1>2. ASSUME NEW r \in Requests, NEW new, Read(r, new) \/ Begin(r, new) PROVE NoOrphanRows'
  BY <1>1, <1>2 DEF Read, Begin
<1>3. ASSUME NEW r \in Requests, TransferOwnership(r) PROVE NoOrphanRows'
  <2>1. CASE Fail(r)
    BY <1>2, <2>1 DEF Fail
  <2>2. CASE ~Fail(r)
    BY <1>3, <2>2, TransferReferents DEF TypeInv, TypeOK
  <2> QED
    BY <2>1, <2>2
<1>4. ASSUME NEW r \in Requests, RemoveMember(r) PROVE NoOrphanRows'
  BY <1>4 DEF RemoveMember, TypeInv, TypeOK
<1>5. ASSUME NEW r \in Requests, DeleteProject(r) PROVE NoOrphanRows'
  BY <1>5, ConstantsAssumption DEF DeleteProject
<1>6. ASSUME NEW r \in Requests, InviteByEmail(r) PROVE NoOrphanRows'
  BY <1>2, <1>6 DEF InviteByEmail, CanInvite, Fail, TypeInv, TypeOK
<1>7. ASSUME NEW r \in Requests,
             AcceptInvitation(r) \/ WithdrawInvitation(r) \/ DeclineInvitation(r)
      PROVE  NoOrphanRows'
  BY <1>2, <1>7 DEF AcceptInvitation, WithdrawInvitation, DeclineInvitation, CanJoin,
                    InvitationsWithout, Fail, TypeInv, TypeOK
<1>8. ASSUME NEW r \in Requests, DeleteAccount(r) PROVE NoOrphanRows'
  BY <1>2, <1>8 DEF DeleteAccount, CascadeAccount, Fail, TypeInv, TypeOK
<1>9. ASSUME NEW u \in Users, CreateProject(u) PROVE NoOrphanRows'
  BY <1>9, ConstantsAssumption DEF CreateProject, TypeInv, TypeOK
<1>10. ASSUME NEW r \in Requests,
              Start(r) \/ Authorize(r) \/ SelectMember(r) \/ SelectOldAdmin(r)
                 \/ CheckInvitee(r) \/ CheckInvited(r) \/ CheckMembership(r) \/ Crash(r)
       PROVE  NoOrphanRows'
  BY <1>2, <1>10 DEF Start, LoadProject, LoadInvitation, CheckOwnedProjects, Authorize,
                     SelectMember, SelectOldAdmin, CheckInvitee, CheckInvited,
                     CheckMembership, Crash, Fail
<1>11. CASE UNCHANGED vars
  BY <1>1, <1>11 DEF vars, database
<1> QED
  BY <1>3, <1>4, <1>5, <1>6, <1>7, <1>8, <1>9, <1>10, <1>11 DEF Next, Serve

(* Whatever overlaps, the owner of a project and everybody who belongs to it *)
(* has an account, and nobody belongs to a project that is not there.        *)
THEOREM MembershipReferences == Spec => []NoOrphanRows
BY OrphanInit, OrphanStep, TypeInvariant, PTL DEF Spec

-------------------------------------------------------------------------------
(* The two copies of the ownership.                                         *)

Transferring(q) == InFlight(q) /\ q.op \in Transfers

InSync == Exists => \A u \in Users : IsAdmin(u) <=> u = admin

(* What a transfer or removal that overlaps with no other holds agrees with  *)
(* the project, as long as that exists.                                      *)
Held(q, owner, rows) ==
    /\ owner # NotCreated
    /\ q.target # q.user
    /\ q.pc \in {"authorize", "member", "old", "commit"}
    /\ owner \in Users =>
           /\ q.admin = owner
           /\ q.pc # "authorize" => q.user = owner
           /\ q.op = "transfer" /\ q.pc \in {"old", "commit"} =>
                  q.member # None /\ q.member.role = "expert"
           /\ q.op = "transfer" /\ q.pc = "commit" => q.old = rows[owner]

Alone(r) == \A q \in Requests \ {r} : ~Transferring(request[q])

OwnershipInv ==
    Ownership \notin overlapped =>
        /\ InSync
        /\ \A r \in Requests : Transferring(request[r]) =>
               Held(request[r], admin, members) /\ Alone(r)

(* A step of r keeps what the others hold, unless it changes the owner or    *)
(* the owner's row while the project exists; then there must be no others.   *)
LEMMA OwnershipKept ==
    ASSUME TypeInv, OwnershipInv, Ownership \notin overlapped, NEW r \in Requests, NEW new,
           request' = [request EXCEPT ![r] = new],
           Transferring(new) => Held(new, admin', members') /\ Alone(r),
           \/ admin' = Deleted
           \/ admin' = admin /\ (Exists => members'[admin] = members[admin])
           \/ Alone(r),
           InSync'
    PROVE  OwnershipInv'
<1>1. \A q \in Requests : request'[q] = IF q = r THEN new ELSE request[q]
  BY DEF TypeInv, TypeOK
<1> SUFFICES ASSUME NEW p \in Requests, Transferring(request'[p])
             PROVE  /\ Held(request'[p], admin', members')
                    /\ \A q \in Requests \ {p} : ~Transferring(request'[q])
  BY DEF OwnershipInv, Alone, Transferring, InFlight, Held
<1>2. CASE p = r
  BY <1>1, <1>2 DEF Alone
<1>3. CASE p # r
  <2>1. /\ Transferring(request[p]) /\ request'[p] = request[p]
        /\ Held(request[p], admin, members) /\ Alone(p) /\ ~Alone(r)
    BY <1>1, <1>3 DEF OwnershipInv, Alone
  <2>2. ~Transferring(new)
    BY <2>1
  <2>3. Held(request[p], admin', members')
    BY <2>1, ConstantsAssumption DEF Held, Exists
  <2> QED
    BY <1>1, <2>1, <2>2, <2>3 DEF Alone
<1> QED
  BY <1>2, <1>3

(* A statement that reads leaves the ownership as it is.                    *)
LEMMA OwnershipRead ==
    ASSUME TypeInv, OwnershipInv, Ownership \notin overlapped, NEW r \in Requests, NEW new,
           Read(r, new),
           Transferring(new) => Held(new, admin, members) /\ Alone(r)
    PROVE  OwnershipInv'
BY OwnershipKept DEF Read, database, OwnershipInv, InSync, Exists, IsAdmin

(* So does a rollback.                                                      *)
LEMMA OwnershipFail ==
    ASSUME TypeInv, OwnershipInv, Ownership \notin overlapped, NEW r \in Requests, Fail(r)
    PROVE  OwnershipInv'
<1> DEFINE closed == [NewRequest(request[r].op, request[r].user, request[r].target)
                          EXCEPT !.pc = "failed"]
<1>1. Read(r, closed) /\ closed.pc = "failed"
  BY DEF Fail, NewRequest
<1>2. ~Transferring(closed)
  BY <1>1 DEF Transferring, InFlight
<1> HIDE DEF closed
<1> QED
  BY <1>1, <1>2, OwnershipRead

(* A commit ends its request, so that only the others hold anything.        *)
LEMMA OwnershipFinish ==
    ASSUME TypeInv, OwnershipInv, Ownership \notin overlapped, NEW r \in Requests,
           NEW pc \in {"done", "failed"}, Finish(r, pc),
           \/ admin' = Deleted
           \/ admin' = admin /\ (Exists => members'[admin] = members[admin])
           \/ Alone(r),
           InSync'
    PROVE  OwnershipInv'
<1> DEFINE new == [request[r] EXCEPT !.pc = pc]
<1>1. request' = [request EXCEPT ![r] = new] /\ new.pc = pc
  BY DEF Finish, TypeInv, TypeOK, RequestStates
<1>2. ~Transferring(new)
  BY <1>1 DEF Transferring, InFlight
<1> HIDE DEF new
<1> QED
  BY <1>1, <1>2, OwnershipKept

(* The first statement of a transfer or removal finds no other in flight, or *)
(* they overlap.                                                             *)
LEMMA OwnershipBegin ==
    ASSUME TypeInv, OwnershipInv, Ownership \notin overlapped', NEW r \in Requests, Start(r)
    PROVE  OwnershipInv'
<1>1. ASSUME NEW new, Begin(r, new),
             new.op \in Transfers => Held(new, admin, members)
      PROVE  OwnershipInv'
  <2>1. /\ Ownership \notin overlapped
        /\ About(new, Ownership) => ~\E q \in Requests :
               InFlight(request[q]) /\ About(request[q], Ownership)
    BY <1>1 DEF Begin
  <2>2. Transferring(new) => Alone(r)
    BY <2>1 DEF About, Transferring, Alone
  <2>3. request' = [request EXCEPT ![r] = new] /\ UNCHANGED database
    BY <1>1 DEF Begin
  <2> QED
    BY <1>1, <2>1, <2>2, <2>3, OwnershipKept
       DEF Transferring, database, OwnershipInv, InSync, Exists, IsAdmin
<1>2. ASSUME NEW op, NEW u \in Users, NEW target \in Users, LoadProject(r, op, u, target)
      PROVE  OwnershipInv'
  <2> DEFINE new == [NewRequest(op, u, target) EXCEPT !.admin = admin]
  <2>1. Begin(r, new) /\ Exists /\ (op \in Transfers => target # u)
    BY <1>2 DEF LoadProject
  <2>2. new.op \in Transfers => Held(new, admin, members)
    BY <2>1, ConstantsAssumption DEF NewRequest, Held, Exists
  <2> QED
    BY <1>1, <2>1, <2>2
<1>3. ASSUME NEW op \in Answers, NEW u \in Users, LoadInvitation(r, op, u) PROVE OwnershipInv'
  BY <1>1, <1>3 DEF LoadInvitation, NewRequest, Answers, Transfers
<1>4. ASSUME NEW u \in Users, CheckOwnedProjects(r, u) PROVE OwnershipInv'
  BY <1>1, <1>4 DEF CheckOwnedProjects, NewRequest, Transfers
<1> QED
  BY <1>2, <1>3, <1>4 DEF Start

(* A transfer alone: the row it promotes is still there, or it fails; the    *)
(* row it demotes is the owner's.                                            *)
LEMMA OwnershipTransfer ==
    ASSUME TypeInv, OwnershipInv, Ownership \notin overlapped, NEW r \in Requests,
           TransferOwnership(r)
    PROVE  OwnershipInv'
<1> DEFINE q == request[r]
           updates == RoleUpdates(q)
           promotion == [user |-> q.target, row |-> q.member, role |-> "admin"]
           demotion == [user |-> q.admin, row |-> q.old, role |-> "expert"]
           role(u) == (CHOOSE c \in updates : c.user = u).role
<1>1. CASE Fail(r)
  BY <1>1, OwnershipFail
<1>2. CASE ~Fail(r)
  <2>1. /\ Exists /\ Finish(r, "done") /\ UNCHANGED <<accounts, invitations>>
        /\ admin' = IF q.target # q.admin THEN q.target ELSE admin
        /\ \A c \in updates : StillThere(members[c.user], c.row)
        /\ members' = [u \in Users |->
                          IF \E c \in updates : c.user = u
                          THEN [members[u] EXCEPT !.role = role(u)] ELSE members[u]]
    BY <1>2 DEF TransferOwnership
  <2>2. Held(q, admin, members) /\ Alone(r) /\ InSync /\ q.op = "transfer" /\ q.pc = "commit"
    BY DEF TransferOwnership, OwnershipInv, Transferring, InFlight, Transfers
  <2>3. /\ q.admin = admin /\ q.user = admin /\ q.target # admin
        /\ q.member.role = "expert" /\ q.old = members[admin]
        /\ q.old # None /\ q.old.role = "admin"
    BY <2>1, <2>2 DEF Held, Exists, InSync, IsAdmin
  <2>4. updates = {promotion, demotion}
    BY <2>3 DEF RoleUpdates, Promotion, Demotions
  <2>5. q.target \in Users /\ admin \in Users /\ admin' = q.target
    BY <2>1, <2>3 DEF Exists, TypeInv, TypeOK, RequestStates
  <2> HIDE DEF updates
  <2>6. role(q.target) = "admin"
    <3>1. \E c \in updates : c.user = q.target
      BY <2>4
    <3>2. \A c \in updates : c.user = q.target => c.role = "admin"
      BY <2>3, <2>4
    <3> QED
      BY <3>1, <3>2, Zenon
  <2>7. role(admin) = "expert"
    <3>1. \E c \in updates : c.user = admin
      BY <2>3, <2>4
    <3>2. \A c \in updates : c.user = admin => c.role = "expert"
      BY <2>3, <2>4
    <3> QED
      BY <3>1, <3>2, Zenon
  <2> HIDE DEF role
  <2>8. /\ members[q.target] \in MemberRows /\ members[admin] \in MemberRows
    BY <2>1, <2>3, <2>4, <2>5 DEF StillThere, TypeInv, TypeOK
  <2>9. /\ members'[q.target] = [members[q.target] EXCEPT !.role = "admin"]
        /\ members'[admin] = [members[admin] EXCEPT !.role = "expert"]
        /\ \A u \in Users \ {q.target, admin} : members'[u] = members[u]
    BY <2>1, <2>3, <2>4, <2>5, <2>6, <2>7
  <2>10. /\ members'[q.target] \in MemberRows /\ members'[q.target].role = "admin"
         /\ members'[admin].role = "expert"
    BY <2>8, <2>9 DEF MemberRows
  <2>11. InSync'
    <3> SUFFICES ASSUME NEW u \in Users
                 PROVE  (members'[u] # None /\ members'[u].role = "admin") <=> u = q.target
      BY <2>5 DEF InSync, Exists, IsAdmin
    <3>1. CASE u = q.target
      BY <2>10, <3>1, ConstantsAssumption
    <3>2. CASE u = admin
      BY <2>3, <2>10, <3>2
    <3>3. CASE u \notin {q.target, admin}
      BY <2>1, <2>2, <2>9, <3>3 DEF InSync, Exists, IsAdmin
    <3> QED
      BY <3>1, <3>2, <3>3
  <2> QED
    BY <2>1, <2>2, <2>11, OwnershipFinish
<1> QED
  BY <1>1, <1>2

(* Nobody has transferred anything, and the owner is the only admin.        *)
LEMMA OwnershipInit == Init => OwnershipInv
<1> SUFFICES ASSUME Init PROVE OwnershipInv
  OBVIOUS
<1>1. \A r \in Requests : ~Transferring(request[r])
  BY DEF Init, NewRequest, Transferring, InFlight
<1>2. InSync
  <2>1. CASE NoProjectYet
    BY <2>1, ConstantsAssumption DEF NoProjectYet, InSync, Exists
  <2>2. CASE SomeProject
    <3>1. PICK owner \in Users, experts \in SUBSET Users :
              /\ admin = owner
              /\ members = [u \in Users |->
                     IF u = owner THEN [id |-> Before, role |-> "admin"]
                     ELSE IF u \in experts THEN [id |-> Before, role |-> "expert"] ELSE None]
      BY <2>2 DEF SomeProject
    <3>2. [id |-> Before, role |-> "admin"] # None
      BY ConstantsAssumption DEF MemberRows, RowIds
    <3> QED
      BY <3>1, <3>2 DEF InSync, Exists, IsAdmin
  <2> QED
    BY <2>1, <2>2 DEF Init
<1> QED
  BY <1>1, <1>2 DEF OwnershipInv

(* Invitations, answers, deletions and failures do not disturb a transfer.   *)
LEMMA OwnershipStep == TypeInv /\ NoOrphanRows /\ OwnershipInv /\ [Next]_vars => OwnershipInv'
<1> SUFFICES ASSUME TypeInv, NoOrphanRows, OwnershipInv, [Next]_vars PROVE OwnershipInv'
  OBVIOUS
<1>1. ASSUME NEW r \in Requests, Start(r) PROVE OwnershipInv'
  BY <1>1, OwnershipBegin DEF OwnershipInv
<1>2. CASE UNCHANGED vars
  BY <1>2 DEF vars, OwnershipInv, InSync, Exists, IsAdmin, Alone, Transferring, InFlight, Held
<1>3. CASE Ownership \in overlapped /\ ~\E r \in Requests : Start(r)
  <2>1. UNCHANGED overlapped
    BY <1>2, <1>3 DEF Next, Serve, Authorize, SelectMember, SelectOldAdmin, TransferOwnership,
        RemoveMember, DeleteProject, CheckInvitee, CheckInvited, InviteByEmail, CheckMembership,
        WithdrawInvitation, AcceptInvitation, DeclineInvitation, DeleteAccount, Crash,
        CreateProject, Read, Fail, Finish, vars
  <2> QED
    BY <1>3, <2>1 DEF OwnershipInv
<1> SUFFICES ASSUME Ownership \notin overlapped PROVE OwnershipInv'
  BY <1>1, <1>3
<1>s. InSync
  BY DEF OwnershipInv
<1>r. \A r \in Requests : /\ request[r] \in RequestStates
                          /\ Transferring(request[r]) =>
                                 Held(request[r], admin, members) /\ Alone(r)
  BY DEF TypeInv, TypeOK, OwnershipInv
<1>4. ASSUME NEW r \in Requests, Authorize(r) PROVE OwnershipInv'
  <2> DEFINE pc == IF request[r].op = "delete_project" THEN "commit" ELSE "member"
             new == [request[r] EXCEPT !.pc = pc]
  <2>1. CASE Fail(r)
    BY <2>1, OwnershipFail
  <2>2. CASE ~Fail(r)
    <3>1. Read(r, new) /\ IsAdmin(request[r].user) /\ request[r].pc = "authorize"
      BY <1>4, <2>2 DEF Authorize
    <3>2. Transferring(new) => Transferring(request[r]) /\ new.pc = "member"
      BY <1>r, <3>1 DEF Transferring, InFlight, Transfers, RequestStates
    <3>3. Transferring(new) => Held(new, admin, members) /\ Alone(r)
      BY <1>r, <1>s, <3>1, <3>2 DEF Held, RequestStates, InSync, Exists
    <3> HIDE DEF new
    <3> QED
      BY <3>1, <3>3, OwnershipRead
  <2> QED
    BY <2>1, <2>2
<1>5. ASSUME NEW r \in Requests, SelectMember(r) PROVE OwnershipInv'
  <2> DEFINE loaded == members[request[r].target]
             pc == IF request[r].op = "transfer" THEN "old" ELSE "commit"
             new == [request[r] EXCEPT !.pc = pc, !.member = loaded]
  <2>1. CASE Fail(r)
    BY <2>1, OwnershipFail
  <2>2. CASE ~Fail(r)
    <3>1. /\ Read(r, new) /\ loaded # None
          /\ request[r].pc = "member" /\ request[r].op \in Transfers
      BY <1>5, <2>2 DEF SelectMember
    <3>2. Transferring(request[r]) /\ Held(request[r], admin, members) /\ Alone(r)
      BY <1>r, <3>1 DEF Transferring, InFlight
    <3>3. Exists => loaded.role = "expert"
      BY <1>r, <1>s, <3>1, <3>2
         DEF Held, InSync, Exists, IsAdmin, TypeInv, TypeOK, RequestStates, MemberRows
    <3>4. /\ new.pc = pc /\ new.member = loaded /\ new.target = request[r].target
          /\ new.user = request[r].user /\ new.admin = request[r].admin
          /\ new.op = request[r].op
      BY <1>r DEF RequestStates
    <3>5. pc \in {"old", "commit"} /\ (request[r].op = "transfer" => pc = "old")
      OBVIOUS
    <3> HIDE DEF new, pc, loaded
    <3>6. Held(new, admin, members)
      BY <3>1, <3>2, <3>3, <3>4, <3>5 DEF Held, Exists
    <3> QED
      BY <3>1, <3>2, <3>6, OwnershipRead
  <2> QED
    BY <2>1, <2>2
<1>6. ASSUME NEW r \in Requests, SelectOldAdmin(r) PROVE OwnershipInv'
  <2> DEFINE loaded == IF /\ request[r].admin = request[r].target
                          /\ StillThere(members[request[r].admin], request[r].member)
                       THEN request[r].member ELSE members[request[r].admin]
             new == [request[r] EXCEPT !.pc = "commit", !.old = loaded]
  <2>1. Read(r, new) /\ request[r].pc = "old" /\ request[r].op = "transfer"
    BY <1>6 DEF SelectOldAdmin, TypeInv, HoldsProject
  <2>2. Held(request[r], admin, members) /\ Alone(r)
    BY <1>r, <2>1 DEF Transferring, InFlight, Transfers
  <2>3. Exists => loaded = members[admin]
    BY <2>1, <2>2 DEF Held, Exists
  <2>4. /\ new.pc = "commit" /\ new.old = loaded /\ new.member = request[r].member
        /\ new.target = request[r].target /\ new.user = request[r].user
        /\ new.admin = request[r].admin
    BY <1>r DEF RequestStates
  <2> HIDE DEF new, loaded
  <2>5. Held(new, admin, members)
    BY <2>1, <2>2, <2>3, <2>4 DEF Held, Exists
  <2> QED
    BY <2>1, <2>2, <2>5, OwnershipRead
<1>7. ASSUME NEW r \in Requests, CheckInvitee(r) \/ CheckInvited(r) \/ CheckMembership(r)
      PROVE  OwnershipInv'
  <2>1. PICK pc : Fail(r) \/ Read(r, [request[r] EXCEPT !.pc = pc])
    BY <1>7 DEF CheckInvitee, CheckInvited, CheckMembership
  <2>2. request[r].op \notin Transfers
    BY <1>7, <1>r DEF CheckInvitee, CheckInvited, CheckMembership, Transfers, Transferring,
                      InFlight, Held
  <2>3. ~Transferring([request[r] EXCEPT !.pc = pc])
    BY <1>r, <2>2 DEF Transferring, RequestStates
  <2> QED
    BY <2>1, <2>3, OwnershipFail, OwnershipRead
<1>8. ASSUME NEW r \in Requests, TransferOwnership(r) PROVE OwnershipInv'
  BY <1>8, OwnershipTransfer
<1>9. ASSUME NEW r \in Requests, RemoveMember(r) PROVE OwnershipInv'
  <2>1. Held(request[r], admin, members) /\ Alone(r)
    BY <1>9, <1>r DEF RemoveMember, Transferring, InFlight, Transfers
  <2>2. Exists => request[r].target # admin
    BY <1>9, <2>1 DEF RemoveMember, Held, Exists
  <2>3. InSync'
    BY <1>9, <1>s, <2>2 DEF RemoveMember, InSync, Exists, IsAdmin, TypeInv, TypeOK
  <2> QED
    BY <1>9, <2>1, <2>3, OwnershipFinish DEF RemoveMember
<1>10. ASSUME NEW r \in Requests, DeleteProject(r) PROVE OwnershipInv'
  <2>1. InSync'
    BY <1>10, ConstantsAssumption DEF DeleteProject, InSync, Exists
  <2> QED
    BY <1>10, <2>1, OwnershipFinish DEF DeleteProject
<1>11. ASSUME NEW r \in Requests,
              InviteByEmail(r) \/ WithdrawInvitation(r) \/ DeclineInvitation(r)
       PROVE  OwnershipInv'
  <2>1. Fail(r) \/ \E pc \in {"done", "failed"} : Finish(r, pc) /\ UNCHANGED <<admin, members>>
    BY <1>11 DEF InviteByEmail, WithdrawInvitation, DeclineInvitation
  <2>2. UNCHANGED <<admin, members>> => InSync'
    BY <1>s DEF InSync, Exists, IsAdmin
  <2> QED
    BY <2>1, <2>2, OwnershipFail, OwnershipFinish
<1>12. ASSUME NEW r \in Requests, AcceptInvitation(r) PROVE OwnershipInv'
  <2> DEFINE u == request[r].user
  <2>1. CASE Fail(r)
    BY <2>1, OwnershipFail
  <2>2. CASE ~Fail(r)
    <3>1. /\ Finish(r, "done") /\ admin' = admin /\ members[u] = None
          /\ members' = [members EXCEPT ![u] = [id |-> r, role |-> "expert"]]
      BY <1>12, <2>2 DEF AcceptInvitation, CanJoin
    <3>2. Exists => u # admin
      BY <1>s, <3>1 DEF InSync, Exists, IsAdmin
    <3>3. InSync' /\ (Exists => members'[admin] = members[admin])
      BY <1>s, <3>1, <3>2 DEF InSync, Exists, IsAdmin, TypeInv, TypeOK
    <3> QED
      BY <3>1, <3>3, OwnershipFinish
  <2> QED
    BY <2>1, <2>2
<1>13. ASSUME NEW r \in Requests, DeleteAccount(r) PROVE OwnershipInv'
  <2> DEFINE u == request[r].user
  <2>1. CASE Fail(r)
    BY <2>1, OwnershipFail
  <2>2. CASE ~Fail(r)
    <3>1. /\ Finish(r, "done") /\ admin' = admin /\ admin # u
          /\ members' = [members EXCEPT ![u] = None]
      BY <1>13, <2>2 DEF DeleteAccount, CascadeAccount
    <3>2. InSync' /\ (Exists => members'[admin] = members[admin])
      BY <1>s, <3>1 DEF InSync, Exists, IsAdmin, TypeInv, TypeOK
    <3> QED
      BY <3>1, <3>2, OwnershipFinish
  <2> QED
    BY <2>1, <2>2
<1>14. ASSUME NEW r \in Requests, Crash(r) PROVE OwnershipInv'
  BY <1>14, OwnershipFail DEF Crash
<1>15. ASSUME NEW u \in Users, CreateProject(u) PROVE OwnershipInv'
  <2>1. \A r \in Requests : ~Transferring(request[r])
    BY <1>15, <1>r DEF CreateProject, Held
  <2>2. \A v \in Users : members[v] = None
    BY <1>15, ConstantsAssumption DEF CreateProject, NoOrphanRows, Exists
  <2>3. InSync'
    BY <1>15, <2>2, ConstantsAssumption
       DEF CreateProject, InSync, Exists, IsAdmin, TypeInv, TypeOK, MemberRows, RowIds
  <2>4. request' = request
    BY <1>15 DEF CreateProject
  <2> QED
    BY <2>1, <2>3, <2>4 DEF OwnershipInv, Transferring, InFlight
<1> QED
  BY <1>1, <1>2, <1>4, <1>5, <1>6, <1>7, <1>8, <1>9, <1>10, <1>11, <1>12, <1>13, <1>14, <1>15
     DEF Next, Serve

(* As long as no transfers and removals of members overlap, the pointer to   *)
(* the owner and the roles of the members agree, whatever else overlaps.     *)
THEOREM OwnershipCorrect == Spec => []OwnershipInSync
<1>1. OwnershipInv => OwnershipInSync
  BY DEF OwnershipInv, OwnershipInSync, InSync
<1> QED
  BY <1>1, OwnershipInit, OwnershipStep, OrphanInit, OrphanStep, TypeInvariant, PTL DEF Spec

-------------------------------------------------------------------------------
(* The use of invitations.                                                  *)

Answering(q, u) == InFlight(q) /\ q.op \in Answers /\ q.user = u

Engaged(q, u) == Answering(q, u) \/ Answered(q, u)

(* Rows bear the name of a request that is done, or were there before.      *)
Inserted == {Before} \cup {r \in Requests : request[r].pc = "done"}

(* The invitation q has answered is neither stored nor held by an answer.   *)
UsedUp(q, u) ==
    /\ invitations[u] # None => invitations[u].id # request[q].invitation.id
    /\ \A r \in Requests \ {q} :
           Engaged(request[r], u) => request[r].invitation.id # request[q].invitation.id

AnswersAlone(r, u) == \A q \in Requests \ {r} : ~Answering(request[q], u)

InvitationInv ==
    /\ \A u \in Users : invitations[u] # None => invitations[u].id \in Inserted
    /\ \A u \in Users, r \in Requests :
           Engaged(request[r], u) => request[r].invitation.id \in Inserted
    /\ \A u \in Users \ overlapped, r \in Requests :
           /\ Answered(request[r], u) => UsedUp(r, u)
           /\ Answering(request[r], u) => AnswersAlone(r, u)

(* A row is new when it bears the name of the request that inserts it, and   *)
(* an answer either holds the invitation it began with, which is gone once   *)
(* it is done, or begins with the stored one while nobody else answers.      *)
LEMMA InvitationKept ==
    ASSUME TypeInv, InvitationInv, NEW r \in Requests, NEW new,
           request' = [request EXCEPT ![r] = new], request[r].pc # "done",
           overlapped \subseteq overlapped',
           \A u \in Users : invitations'[u] # None =>
               \/ invitations'[u] = invitations[u]
               \/ invitations'[u].id = r /\ new.pc = "done",
           \A u \in Users : Engaged(new, u) =>
               \/ /\ Answering(request[r], u) /\ new.invitation = request[r].invitation
                  /\ Answered(new, u) /\ invitations'[u] # None =>
                         invitations'[u].id # new.invitation.id
               \/ /\ ~Answered(new, u) /\ invitations[u] # None
                  /\ new.invitation = invitations[u]
                  /\ u \notin overlapped' => AnswersAlone(r, u)
    PROVE  InvitationInv'
<1> USE DEF Engaged
<1>1. \A q \in Requests : request'[q] = IF q = r THEN new ELSE request[q]
  BY DEF TypeInv, TypeOK
<1>2. Inserted \subseteq Inserted' /\ r \notin Inserted
  BY <1>1, ConstantsAssumption DEF Inserted
<1>3. new.pc = "done" => r \in Inserted'
  BY <1>1 DEF Inserted
<1>4. ASSUME NEW u \in Users, NEW q \in Requests, Answered(request[q], u)
      PROVE  q # r
  BY <1>4 DEF Answered
<1>5. ASSUME NEW u \in Users, Answered(new, u) PROVE ~Answering(new, u)
  BY <1>5 DEF Answered, Answering, InFlight
<1>6. \A u \in Users : invitations'[u] # None => invitations'[u].id \in Inserted'
  BY <1>2, <1>3 DEF InvitationInv
<1>7. ASSUME NEW u \in Users, NEW q \in Requests, Engaged(request'[q], u)
      PROVE  request'[q].invitation.id \in Inserted'
  BY <1>1, <1>2, <1>7 DEF InvitationInv
<1>8. ASSUME NEW u \in Users \ overlapped', NEW q \in Requests, Answered(request'[q], u)
      PROVE  /\ invitations'[u] # None => invitations'[u].id # request'[q].invitation.id
             /\ \A p \in Requests \ {q} : Engaged(request'[p], u) =>
                    request'[p].invitation.id # request'[q].invitation.id
  <2>1. u \in Users \ overlapped
    OBVIOUS
  <2>2. CASE q = r
    <3>1. Answering(request[r], u) /\ new.invitation = request[r].invitation
      BY <1>1, <1>8, <2>2
    <3>2. AnswersAlone(r, u)
      BY <2>1, <3>1 DEF InvitationInv
    <3>3. \A p \in Requests \ {r} : Answered(request[p], u) =>
              request[r].invitation.id # request[p].invitation.id
      BY <2>1, <3>1 DEF InvitationInv, UsedUp
    <3> QED
      BY <1>1, <1>8, <2>2, <3>1, <3>2, <3>3 DEF AnswersAlone
  <2>3. CASE q # r
    <3>1. request'[q] = request[q] /\ UsedUp(q, u)
      BY <1>1, <1>8, <2>1, <2>3 DEF InvitationInv
    <3>2. request[q].invitation.id \in Inserted
      BY <1>1, <1>8, <2>3 DEF InvitationInv
    <3>3. request[q].invitation.id # r
      BY <1>2, <3>2
    <3> QED
      BY <1>1, <2>3, <3>1, <3>3 DEF UsedUp
  <2> QED
    BY <2>2, <2>3
<1>9. ASSUME NEW u \in Users \ overlapped', NEW q \in Requests, Answering(request'[q], u),
             NEW p \in Requests \ {q}
      PROVE  ~Answering(request'[p], u)
  <2>1. u \in Users \ overlapped
    OBVIOUS
  <2> QED
    BY <1>1, <1>5, <1>9, <2>1 DEF InvitationInv, AnswersAlone
<1>10. ASSUME NEW u \in Users \ overlapped', NEW q \in Requests, Answered(request'[q], u)
       PROVE  UsedUp(q, u)'
  BY <1>8, <1>10 DEF UsedUp, Answered, Answering, InFlight
<1>11. ASSUME NEW u \in Users \ overlapped', NEW q \in Requests, Answering(request'[q], u)
       PROVE  AnswersAlone(q, u)'
  BY <1>9, <1>11 DEF AnswersAlone, Answering, InFlight
<1> QED
  BY <1>6, <1>7, <1>10, <1>11 DEF InvitationInv, Answered, Answering, InFlight

(* What only reads goes on with the invitation it holds, or fails.           *)
LEMMA InvitationRead ==
    ASSUME TypeInv, InvitationInv, NEW r \in Requests, NEW new, Read(r, new),
           request[r].pc # "done", new.pc # "done",
           InFlight(new) /\ new.op \in Answers =>
               /\ InFlight(request[r]) /\ new.op = request[r].op
               /\ new.user = request[r].user /\ new.invitation = request[r].invitation
    PROVE  InvitationInv'
BY InvitationKept DEF Read, database, Engaged, Answering, Answered

(* A rollback.                                                               *)
LEMMA InvitationFail ==
    ASSUME TypeInv, InvitationInv, NEW r \in Requests, InFlight(request[r]), Fail(r)
    PROVE  InvitationInv'
<1> DEFINE closed == [NewRequest(request[r].op, request[r].user, request[r].target)
                          EXCEPT !.pc = "failed"]
<1>1. Read(r, closed) /\ closed.pc = "failed"
  BY DEF Fail, NewRequest
<1> HIDE DEF closed
<1> QED
  BY <1>1, InvitationRead DEF InFlight

(* A commit that stores no invitation; an answer takes its own away.         *)
LEMMA InvitationFinish ==
    ASSUME TypeInv, InvitationInv, NEW r \in Requests, InFlight(request[r]),
           NEW pc \in {"done", "failed"}, Finish(r, pc),
           \A u \in Users : invitations'[u] # None => invitations'[u] = invitations[u],
           request[r].op \in Answers /\ pc = "done" =>
               invitations' = InvitationsWithout(request[r])
    PROVE  InvitationInv'
<1> DEFINE q == request[r]
           new == [q EXCEPT !.pc = pc]
<1>1. /\ request' = [request EXCEPT ![r] = new] /\ overlapped' = overlapped
      /\ new.pc = pc /\ new.op = q.op /\ new.user = q.user /\ new.invitation = q.invitation
  BY DEF Finish, TypeInv, TypeOK, RequestStates
<1> HIDE DEF new
<1>2. ASSUME NEW u \in Users, Engaged(new, u)
      PROVE  /\ Answering(q, u) /\ new.invitation = q.invitation
             /\ invitations'[u] # None => invitations'[u].id # new.invitation.id
  <2>1. pc = "done" /\ q.op \in Answers /\ q.user = u
    BY <1>1, <1>2 DEF Engaged, Answering, Answered, InFlight
  <2>2. invitations' = InvitationsWithout(q)
    BY <2>1
  <2>3. invitations'[u] # None => invitations'[u].id # q.invitation.id
    BY <2>1, <2>2 DEF InvitationsWithout, StillThere, TypeInv, TypeOK
  <2> QED
    BY <1>1, <2>1, <2>3 DEF Answering
<1>3. request[r].pc # "done" /\ overlapped \subseteq overlapped'
  BY <1>1 DEF InFlight
<1> QED
  BY <1>1, <1>2, <1>3, InvitationKept

(* Nobody has answered, and the invitations were there before.               *)
LEMMA InvitationInit == Init => InvitationInv
<1> SUFFICES ASSUME Init PROVE InvitationInv
  OBVIOUS
<1>1. \A r \in Requests : request[r].pc = "ready"
  BY DEF Init, NewRequest
<1>2. \A u \in Users : invitations[u] # None => invitations[u].id \in Inserted
  <2>1. CASE NoProjectYet
    BY <2>1 DEF NoProjectYet
  <2>2. CASE SomeProject
    BY <2>2 DEF SomeProject, Inserted
  <2> QED
    BY <2>1, <2>2 DEF Init
<1> QED
  BY <1>1, <1>2 DEF InvitationInv, Engaged, Answering, Answered, InFlight

(* An invitation is new to all who have answered one, and leaves the table   *)
(* with the answer to it, or before.                                         *)
LEMMA InvitationStep == TypeInv /\ InvitationInv /\ [Next]_vars => InvitationInv'
<1> SUFFICES ASSUME TypeInv, InvitationInv, [Next]_vars PROVE InvitationInv'
  OBVIOUS
<1>r. \A r \in Requests : request[r] \in RequestStates
  BY DEF TypeInv, TypeOK
<1>1. ASSUME NEW r \in Requests, Start(r) PROVE InvitationInv'
  <2>1. ASSUME NEW new, Begin(r, new), new.pc # "done",
               new.op \in Answers => /\ invitations[new.user] # None
                                     /\ new.invitation = invitations[new.user]
        PROVE  InvitationInv'
    <3>1. /\ request[r].pc = "ready" /\ request' = [request EXCEPT ![r] = new]
          /\ UNCHANGED database /\ overlapped \subseteq overlapped'
      BY <2>1 DEF Begin
    <3>2. ASSUME NEW u \in Users, Engaged(new, u), u \notin overlapped'
          PROVE  AnswersAlone(r, u)
      <4>1. About(new, u) /\ \A q \in Requests : InFlight(request[q]) => ~About(request[q], u)
        BY <2>1, <3>2, ConstantsAssumption DEF Begin, About, Engaged, Answering, Answered
      <4> QED
        BY <4>1, ConstantsAssumption DEF About, AnswersAlone, Answering
    <3>3. \A u \in Users : Engaged(new, u) =>
              /\ ~Answered(new, u) /\ invitations[u] # None /\ new.invitation = invitations[u]
              /\ u \notin overlapped' => AnswersAlone(r, u)
      BY <2>1, <3>2 DEF Engaged, Answering, Answered
    <3>4. request[r].pc # "done" /\ invitations' = invitations
      BY <3>1 DEF database
    <3> QED
      BY <3>1, <3>3, <3>4, InvitationKept
  <2>2. ASSUME NEW op, op \notin Answers, NEW u \in Users, NEW target \in Users,
               LoadProject(r, op, u, target)
        PROVE  InvitationInv'
    BY <2>1, <2>2 DEF LoadProject, NewRequest
  <2>3. ASSUME NEW op \in Answers, NEW u \in Users, LoadInvitation(r, op, u)
        PROVE  InvitationInv'
    <3> DEFINE pc == IF op = "accept" THEN "member" ELSE "commit"
               new == [NewRequest(op, u, u) EXCEPT !.pc = pc, !.invitation = invitations[u]]
    <3>1. new.pc # "done" /\ new.user = u /\ new.invitation = invitations[u]
      BY DEF NewRequest
    <3>2. Begin(r, new) /\ invitations[u] # None
      BY <2>3 DEF LoadInvitation
    <3> HIDE DEF new
    <3> QED
      BY <2>1, <3>1, <3>2
  <2>4. ASSUME NEW u \in Users, CheckOwnedProjects(r, u) PROVE InvitationInv'
    BY <2>1, <2>4 DEF CheckOwnedProjects, NewRequest, Answers
  <2> QED
    BY <1>1, <2>2, <2>3, <2>4 DEF Start, Transfers, Answers
<1>2. ASSUME NEW r \in Requests, Authorize(r) PROVE InvitationInv'
  <2> DEFINE pc == IF request[r].op = "delete_project" THEN "commit" ELSE "member"
             new == [request[r] EXCEPT !.pc = pc]
  <2>1. Fail(r) \/ Read(r, new)
    BY <1>2 DEF Authorize
  <2>2. InFlight(request[r])
    BY <1>2 DEF Authorize, InFlight
  <2>3. /\ new.pc # "done" /\ new.op = request[r].op /\ new.user = request[r].user
        /\ new.invitation = request[r].invitation
    BY <1>r DEF RequestStates
  <2> HIDE DEF new
  <2> QED
    BY <2>1, <2>2, <2>3, InvitationFail, InvitationRead DEF InFlight
<1>3. ASSUME NEW r \in Requests, SelectMember(r) \/ SelectOldAdmin(r) PROVE InvitationInv'
  <2>1. InFlight(request[r])
    BY <1>3 DEF SelectMember, SelectOldAdmin, InFlight
  <2>2. ASSUME NEW pc \in {"old", "commit"}, NEW row,
               \/ Read(r, [request[r] EXCEPT !.pc = pc, !.member = row])
               \/ Read(r, [request[r] EXCEPT !.pc = pc, !.old = row])
        PROVE  InvitationInv'
    <3>1. \A new \in {[request[r] EXCEPT !.pc = pc, !.member = row],
                      [request[r] EXCEPT !.pc = pc, !.old = row]} :
              /\ new.pc # "done" /\ new.op = request[r].op /\ new.user = request[r].user
              /\ new.invitation = request[r].invitation
      BY <1>r DEF RequestStates
    <3> QED
      BY <2>1, <2>2, <3>1, InvitationRead DEF InFlight
  <2>3. CASE SelectMember(r)
    <3>1. \/ Fail(r)
          \/ \E pc \in {"old", "commit"} :
                Read(r, [request[r] EXCEPT !.pc = pc, !.member = members[request[r].target]])
      BY <2>3 DEF SelectMember
    <3> QED
      BY <2>1, <2>2, <3>1, InvitationFail
  <2>4. CASE SelectOldAdmin(r)
    <3>1. \E row : Read(r, [request[r] EXCEPT !.pc = "commit", !.old = row])
      BY <2>4 DEF SelectOldAdmin
    <3> QED
      BY <2>2, <3>1
  <2> QED
    BY <1>3, <2>3, <2>4
<1>4. ASSUME NEW r \in Requests, CheckInvitee(r) \/ CheckInvited(r) \/ CheckMembership(r)
      PROVE  InvitationInv'
  <2>1. PICK pc \in {"invitation", "commit", "withdraw"} :
            Fail(r) \/ Read(r, [request[r] EXCEPT !.pc = pc])
    BY <1>4 DEF CheckInvitee, CheckInvited, CheckMembership
  <2> DEFINE new == [request[r] EXCEPT !.pc = pc]
  <2>2. InFlight(request[r])
    BY <1>4 DEF CheckInvitee, CheckInvited, CheckMembership, InFlight
  <2>3. /\ new.pc # "done" /\ new.op = request[r].op /\ new.user = request[r].user
        /\ new.invitation = request[r].invitation
    BY <1>r DEF RequestStates
  <2> HIDE DEF new
  <2>4. Fail(r) \/ Read(r, new)
    BY <2>1 DEF new
  <2> QED
    BY <2>2, <2>3, <2>4, InvitationFail, InvitationRead DEF InFlight
<1>5. ASSUME NEW r \in Requests,
             TransferOwnership(r) \/ RemoveMember(r) \/ DeleteProject(r) \/ DeleteAccount(r)
      PROVE  InvitationInv'
  <2>1. InFlight(request[r]) /\ request[r].op \notin Answers
    BY <1>5 DEF TransferOwnership, RemoveMember, DeleteProject, DeleteAccount, InFlight, Answers
  <2>2. \/ Fail(r)
        \/ /\ Finish(r, "done")
           /\ \A u \in Users : invitations'[u] # None => invitations'[u] = invitations[u]
    BY <1>5 DEF TransferOwnership, RemoveMember, DeleteProject, DeleteAccount, CascadeAccount
  <2> QED
    BY <2>1, <2>2, InvitationFail, InvitationFinish
<1>6. ASSUME NEW r \in Requests, InviteByEmail(r) PROVE InvitationInv'
  <2> DEFINE q == request[r]
             row == [id |-> r, inviter |-> q.user]
             new == [q EXCEPT !.pc = "done"]
  <2>1. InFlight(q) /\ q.op = "invite"
    BY <1>6 DEF InviteByEmail, InFlight
  <2>2. CASE Fail(r)
    BY <2>1, <2>2, InvitationFail
  <2>3. CASE ~Fail(r)
    <3>1. Finish(r, "done") /\ invitations' = [invitations EXCEPT ![q.target] = row]
      BY <1>6, <2>3 DEF InviteByEmail
    <3>2. /\ request' = [request EXCEPT ![r] = new] /\ overlapped' = overlapped
          /\ new.pc = "done" /\ new.op = q.op
      BY <1>r, <3>1 DEF Finish, RequestStates
    <3>3. \A u \in Users : invitations'[u] = invitations[u] \/ invitations'[u].id = r
      BY <3>1 DEF TypeInv, TypeOK
    <3> HIDE DEF new
    <3> QED
      BY <2>1, <3>2, <3>3, InvitationKept DEF InFlight, Engaged, Answering, Answered, Answers
  <2> QED
    BY <2>2, <2>3
<1>7. ASSUME NEW r \in Requests,
             AcceptInvitation(r) \/ WithdrawInvitation(r) \/ DeclineInvitation(r)
      PROVE  InvitationInv'
  <2>1. InFlight(request[r])
    BY <1>7 DEF AcceptInvitation, WithdrawInvitation, DeclineInvitation, InFlight
  <2>2. \/ Fail(r)
        \/ \E pc \in {"done", "failed"} :
               Finish(r, pc) /\ invitations' = InvitationsWithout(request[r])
    BY <1>7 DEF AcceptInvitation, WithdrawInvitation, DeclineInvitation
  <2>3. \A u \in Users : InvitationsWithout(request[r])[u] # None =>
                             InvitationsWithout(request[r])[u] = invitations[u]
    BY <1>r DEF InvitationsWithout, TypeInv, TypeOK, RequestStates
  <2> QED
    BY <2>1, <2>2, <2>3, InvitationFail, InvitationFinish
<1>8. ASSUME NEW r \in Requests, Crash(r) PROVE InvitationInv'
  BY <1>8, InvitationFail DEF Crash
<1>9. CASE UNCHANGED <<invitations, request, overlapped>>
  BY <1>9 DEF InvitationInv, Inserted, UsedUp, AnswersAlone, Engaged, Answering, Answered, InFlight
<1> QED
  BY <1>1, <1>2, <1>3, <1>4, <1>5, <1>6, <1>7, <1>8, <1>9
     DEF Next, Serve, CreateProject, vars

(* As long as no two answers of one user overlap, nobody becomes a member by *)
(* an invitation that he has accepted or declined before, whatever else      *)
(* overlaps: invitations, removals, deletions, crashes.                      *)
THEOREM InvitationCorrect == Spec => []InvitationUsedOnce
<1>1. TypeInv /\ InvitationInv => InvitationUsedOnce
  BY DEF InvitationInv, InvitationUsedOnce, UsedUp, Engaged
<1> QED
  BY <1>1, InvitationInit, InvitationStep, TypeInvariant, PTL DEF Spec

===============================================================================
