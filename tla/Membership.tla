------------------------------ MODULE Membership ------------------------------
(***************************************************************************)
(* Who belongs to one project and who owns it: the pointer                  *)
(* projects.admin_id, the roles in project_members, the invitations and the *)
(* accounts.  Ownership is stored twice, and every check reads the copy     *)
(* that suits it: access the role, deletion of an account the pointer.      *)
(*                                                                         *)
(* As in Opinions, a request runs in a session of its own, an action is one *)
(* SELECT of that session or its commit, and a request names the rows that  *)
(* it inserts.  A request is served once.                                   *)
(***************************************************************************)

CONSTANTS
    Users,
    Requests,
    Before,                 \* names the rows that were there at the start
    None,
    NotCreated, Deleted,    \* the admin of a project that is not there
    Ownership               \* what transfers and removals overlap about

VARIABLES
    accounts,       \* users
    admin,          \* projects.admin_id
    members,        \* project_members: the row of each user, or None
    invitations,    \* invitations: the row of each invitee, or None
    request,        \* what each request has done and what it holds
    overlapped      \* history: what two requests in flight were both about

database == <<accounts, admin, members, invitations>>
vars == <<accounts, admin, members, invitations, request, overlapped>>

RowIds == Requests \cup {Before}
MemberRows == [id : RowIds, role : {"admin", "expert"}]
InvitationRows == [id : RowIds, inviter : Users]

Transfers == {"transfer", "remove"}
Answers == {"accept", "decline"}
Operations == Transfers \cup Answers \cup {"invite", "delete_project", "delete_account"}

PCs == {"ready", "authorize", "member", "old", "invitation", "withdraw", "commit",
        "done", "failed"}

RequestStates ==
    [ pc         : PCs,
      op         : Operations,
      user       : Users,
      target     : Users,
      admin      : Users \cup {None},               \* of the loaded project
      member     : MemberRows \cup {None},          \* the loaded target
      old        : MemberRows \cup {None},          \* the loaded former owner
      invitation : InvitationRows \cup {None} ]     \* the loaded invitation

ASSUME ConstantsAssumption ==
    /\ Users \cap {None, NotCreated, Deleted, Ownership} = {}
    /\ NotCreated # Deleted
    /\ None \notin MemberRows \cup InvitationRows
    /\ Before \notin Requests

InFlight(q) == q.pc \notin {"ready", "done", "failed"}

Exists == admin \in Users

IsAdmin(u) == members[u] # None /\ members[u].role = "admin"

(* The row with the id of a loaded one is still there. *)
StillThere(stored, loaded) == stored # None /\ stored.id = loaded.id

-------------------------------------------------------------------------------
(* A request, from its first statement to its commit.                       *)

About(q, subject) ==
    IF subject = Ownership THEN q.op \in Transfers
    ELSE q.op \in Answers /\ q.user = subject

NewRequest(op, u, target) ==
    [ pc |-> "authorize", op |-> op, user |-> u, target |-> target, admin |-> None,
      member |-> None, old |-> None, invitation |-> None ]

(* get_current_user and the first SELECT of r. *)
Begin(r, new) ==
    /\ request[r].pc = "ready"
    /\ new.user \in accounts
    /\ request' = [request EXCEPT ![r] = new]
    /\ overlapped' = overlapped \cup
           {s \in Users \cup {Ownership} :
               About(new, s) /\ \E q \in Requests : InFlight(request[q]) /\ About(request[q], s)}
    /\ UNCHANGED database

(* Another SELECT of r. *)
Read(r, new) ==
    /\ request' = [request EXCEPT ![r] = new]
    /\ UNCHANGED <<database, overlapped>>

(* An exception or a crash: the session is rolled back and closed. *)
Fail(r) ==
    Read(r, [NewRequest(request[r].op, request[r].user, request[r].target)
                 EXCEPT !.pc = "failed"])

(* The commit of r ends it. *)
Finish(r, pc) ==
    /\ request' = [request EXCEPT ![r] = [@ EXCEPT !.pc = pc]]
    /\ UNCHANGED overlapped

(* RequireProjectAccess loads the project, then looks for the role.  Who is *)
(* the target of a transfer or a removal is not who asks for it.            *)
LoadProject(r, op, u, target) ==
    /\ Exists
    /\ op \in Transfers => target # u
    /\ Begin(r, [NewRequest(op, u, target) EXCEPT !.admin = admin])

Authorize(r) ==
    /\ request[r].pc = "authorize"
    /\ IF IsAdmin(request[r].user)
       THEN Read(r, [request[r] EXCEPT
                        !.pc = IF request[r].op = "delete_project" THEN "commit" ELSE "member"])
       ELSE Fail(r)

(* The membership of the target of a transfer or a removal. *)
SelectMember(r) ==
    LET loaded == members[request[r].target]
    IN  /\ request[r].pc = "member" /\ request[r].op \in Transfers
        /\ IF loaded # None
           THEN Read(r, [request[r] EXCEPT
                            !.pc = IF request[r].op = "transfer" THEN "old" ELSE "commit",
                            !.member = loaded])
           ELSE Fail(r)

-------------------------------------------------------------------------------
(* transfer_ownership                                                       *)

(* The membership of the admin of the loaded project; a row the session     *)
(* holds already keeps the loaded columns.                                  *)
SelectOldAdmin(r) ==
    LET q == request[r]
        loaded == IF q.admin = q.target /\ StillThere(members[q.admin], q.member)
                  THEN q.member ELSE members[q.admin]
    IN  /\ q.pc = "old"
        /\ Read(r, [q EXCEPT !.pc = "commit", !.old = loaded])

(* The roles it assigns, the last one to a row first. *)
Promotion(q) ==
    [user |-> q.target, row |-> q.member,
     role |-> IF q.target = q.admin /\ q.old = q.member THEN "expert" ELSE "admin"]
Demotions(q) ==
    IF q.old = None THEN {} ELSE {[user |-> q.admin, row |-> q.old, role |-> "expert"]}

(* Mutant: the former owner keeps the role. *)
PromotionOnly(q) == {c \in {Promotion(q)} : c.role # c.row.role}

(* The UPDATEs of roles that differ from the loaded ones. *)
RoleUpdates(q) == {c \in {Promotion(q)} \cup Demotions(q) : c.role # c.row.role}

(* One commit: both copies change, or none.  StaleDataError when a row is   *)
(* gone, IntegrityError when the account is.                                *)
TransferOwnership(r) ==
    LET q == request[r]
        updates == RoleUpdates(q)
        possible == /\ Exists
                    /\ q.target # q.admin => q.target \in accounts
                    /\ \A c \in updates : StillThere(members[c.user], c.row)
    IN  /\ q.pc = "commit" /\ q.op = "transfer"
        /\ IF possible
           THEN /\ admin' = IF q.target # q.admin THEN q.target ELSE admin
                /\ members' = [u \in Users |->
                       IF \E c \in updates : c.user = u
                       THEN [members[u] EXCEPT !.role =
                                (CHOOSE c \in updates : c.user = u).role]
                       ELSE members[u]]
                /\ Finish(r, "done")
                /\ UNCHANGED <<accounts, invitations>>
           ELSE Fail(r)

-------------------------------------------------------------------------------
(* remove_member, delete_project and create_project                         *)

(* A DELETE that matches no row is not an error. *)
RemoveMember(r) ==
    LET q == request[r]
    IN  /\ q.pc = "commit" /\ q.op = "remove"
        /\ members' = IF StillThere(members[q.target], q.member)
                      THEN [members EXCEPT ![q.target] = None] ELSE members
        /\ Finish(r, "done")
        /\ UNCHANGED <<accounts, admin, invitations>>

DeleteProject(r) ==
    /\ request[r].pc = "commit" /\ request[r].op = "delete_project"
    /\ admin' = Deleted
    /\ members' = [u \in Users |-> None]
    /\ invitations' = [u \in Users |-> None]
    /\ Finish(r, "done")
    /\ UNCHANGED accounts

(* Project and membership are inserted in one transaction. *)
CreateProject(u) ==
    /\ admin = NotCreated /\ u \in accounts
    /\ admin' = u
    /\ members' = [members EXCEPT ![u] = [id |-> Before, role |-> "admin"]]
    /\ UNCHANGED <<accounts, invitations, request, overlapped>>

-------------------------------------------------------------------------------
(* invite_by_email, accept_invitation and decline_invitation                *)

(* The user with this email, and no membership. *)
CheckInvitee(r) ==
    LET q == request[r]
    IN  /\ q.pc = "member" /\ q.op = "invite"
        /\ IF q.target \in accounts /\ members[q.target] = None
           THEN Read(r, [q EXCEPT !.pc = "invitation"])
           ELSE Fail(r)

CheckInvited(r) ==
    /\ request[r].pc = "invitation"
    /\ IF invitations[request[r].target] = None
       THEN Read(r, [request[r] EXCEPT !.pc = "commit"])
       ELSE Fail(r)

(* UNIQUE (project_id, invitee_id) and the foreign keys. *)
CanInvite(q) ==
    /\ Exists /\ {q.user, q.target} \subseteq accounts
    /\ invitations[q.target] = None

InviteByEmail(r) ==
    LET q == request[r]
    IN  /\ q.pc = "commit" /\ q.op = "invite"
        /\ IF CanInvite(q)
           THEN /\ invitations' = [invitations EXCEPT ![q.target] = [id |-> r, inviter |-> q.user]]
                /\ Finish(r, "done")
                /\ UNCHANGED <<accounts, admin, members>>
           ELSE Fail(r)

(* get_invitation_by_id and the check of the invitee. *)
LoadInvitation(r, op, u) ==
    /\ invitations[u] # None
    /\ Begin(r, [NewRequest(op, u, u) EXCEPT
           !.pc = IF op = "accept" THEN "member" ELSE "commit",
           !.invitation = invitations[u]])

CheckMembership(r) ==
    LET q == request[r]
    IN  /\ q.pc = "member" /\ q.op = "accept"
        /\ Read(r, [q EXCEPT !.pc = IF members[q.user] = None THEN "commit" ELSE "withdraw"])

(* The loaded invitation is deleted, if it still is there. *)
InvitationsWithout(q) ==
    IF StillThere(invitations[q.user], q.invitation)
    THEN [invitations EXCEPT ![q.user] = None] ELSE invitations

(* Who is a member already: the invitation goes, the answer is 409. *)
WithdrawInvitation(r) ==
    /\ request[r].pc = "withdraw"
    /\ invitations' = InvitationsWithout(request[r])
    /\ Finish(r, "failed")
    /\ UNCHANGED <<accounts, admin, members>>

(* UNIQUE (project_id, user_id) and the foreign keys. *)
CanJoin(u) == Exists /\ u \in accounts /\ members[u] = None

(* Mutant: the invitation stays. *)
AcceptAndKeepInvitation(r) ==
    LET q == request[r]
    IN  /\ q.pc = "commit" /\ q.op = "accept"
        /\ IF CanJoin(q.user)
           THEN /\ members' = [members EXCEPT ![q.user] = [id |-> r, role |-> "expert"]]
                /\ Finish(r, "done")
                /\ UNCHANGED <<accounts, admin, invitations>>
           ELSE Fail(r)

AcceptInvitation(r) ==
    LET q == request[r]
    IN  /\ q.pc = "commit" /\ q.op = "accept"
        /\ IF CanJoin(q.user)
           THEN /\ members' = [members EXCEPT ![q.user] = [id |-> r, role |-> "expert"]]
                /\ invitations' = InvitationsWithout(q)
                /\ Finish(r, "done")
                /\ UNCHANGED <<accounts, admin>>
           ELSE Fail(r)

DeclineInvitation(r) ==
    /\ request[r].pc = "commit" /\ request[r].op = "decline"
    /\ invitations' = InvitationsWithout(request[r])
    /\ Finish(r, "done")
    /\ UNCHANGED <<accounts, admin, members>>

-------------------------------------------------------------------------------
(* delete_current_user                                                      *)

(* get_owned_projects *)
CheckOwnedProjects(r, u) ==
    /\ admin # u
    /\ Begin(r, [NewRequest("delete_account", u, u) EXCEPT !.pc = "commit"])

(* Memberships and invitations cascade, from the invited and the inviting.  *)
CascadeAccount(u) ==
    /\ accounts' = accounts \ {u}
    /\ members' = [members EXCEPT ![u] = None]
    /\ invitations' = [v \in Users |->
           IF invitations[v] # None /\ (v = u \/ invitations[v].inviter = u)
           THEN None ELSE invitations[v]]

(* Mutant: ON DELETE SET NULL. *)
DeleteAccountSetNull(r) ==
    LET u == request[r].user
    IN  /\ request[r].pc = "commit" /\ request[r].op = "delete_account"
        /\ CascadeAccount(u)
        /\ admin' = IF admin = u THEN None ELSE admin
        /\ Finish(r, "done")

(* Mutant: without the RESTRICT. *)
DeleteAccountUnrestricted(r) ==
    LET u == request[r].user
    IN  /\ request[r].pc = "commit" /\ request[r].op = "delete_account"
        /\ CascadeAccount(u)
        /\ Finish(r, "done")
        /\ UNCHANGED admin

(* ON DELETE RESTRICT of projects.admin_id. *)
DeleteAccount(r) ==
    LET u == request[r].user
    IN  /\ request[r].pc = "commit" /\ request[r].op = "delete_account"
        /\ IF admin # u
           THEN /\ CascadeAccount(u)
                /\ Finish(r, "done")
                /\ UNCHANGED admin
           ELSE Fail(r)

-------------------------------------------------------------------------------

Start(r) ==
    \E u \in Users :
        \/ \E target \in Users, op \in Transfers \cup {"invite"} : LoadProject(r, op, u, target)
        \/ LoadProject(r, "delete_project", u, u)
        \/ \E op \in Answers : LoadInvitation(r, op, u)
        \/ CheckOwnedProjects(r, u)

Serve(r) ==
    \/ Authorize(r) \/ SelectMember(r)
    \/ SelectOldAdmin(r) \/ TransferOwnership(r)
    \/ RemoveMember(r) \/ DeleteProject(r)
    \/ CheckInvitee(r) \/ CheckInvited(r) \/ InviteByEmail(r)
    \/ CheckMembership(r) \/ WithdrawInvitation(r) \/ AcceptInvitation(r) \/ DeclineInvitation(r)
    \/ DeleteAccount(r)

(* The worker dies, a statement times out, or the database breaks a deadlock. *)
Crash(r) ==
    /\ InFlight(request[r])
    /\ Fail(r)

(* A project that is not created yet, or one with any members and invitees. *)
NoProjectYet ==
    /\ admin = NotCreated
    /\ members = [u \in Users |-> None]
    /\ invitations = [u \in Users |-> None]

SomeProject ==
    \E owner \in Users, experts, invitees \in SUBSET Users :
        /\ admin = owner
        /\ owner \notin experts /\ invitees \cap (experts \cup {owner}) = {}
        /\ members = [u \in Users |->
               IF u = owner THEN [id |-> Before, role |-> "admin"]
               ELSE IF u \in experts THEN [id |-> Before, role |-> "expert"] ELSE None]
        /\ invitations = [u \in Users |->
               IF u \in invitees THEN [id |-> Before, inviter |-> owner] ELSE None]

Init ==
    /\ accounts = Users
    /\ NoProjectYet \/ SomeProject
    /\ \E u \in Users :
           request = [r \in Requests |-> [NewRequest("accept", u, u) EXCEPT !.pc = "ready"]]
    /\ overlapped = {}

Next ==
    \/ \E r \in Requests : Start(r) \/ Serve(r) \/ Crash(r)
    \/ \E u \in Users : CreateProject(u)

Spec == Init /\ [][Next]_vars

-------------------------------------------------------------------------------

(* The rows and snapshots have their types; in particular the project that   *)
(* exists has an admin (admin_id is not nullable).                           *)
TypeOK ==
    /\ accounts \subseteq Users
    /\ admin \in Users \cup {NotCreated, Deleted}
    /\ members \in [Users -> MemberRows \cup {None}]
    /\ invitations \in [Users -> InvitationRows \cup {None}]
    /\ request \in [Requests -> RequestStates]
    /\ overlapped \subseteq Users \cup {Ownership}

(* Whatever overlaps: the owner of a project has an account, and so have its *)
(* members, its invitees and who invited them; nobody belongs to a project   *)
(* that is not there.                                                        *)
NoOrphanRows ==
    /\ Exists => admin \in accounts
    /\ \A u \in Users : members[u] # None \/ invitations[u] # None => u \in accounts /\ Exists
    /\ \A u \in Users : invitations[u] # None => invitations[u].inviter \in accounts

(* As long as no transfers and removals overlap, the two copies of the       *)
(* ownership agree - whatever else goes on: invitations, answers, deletion   *)
(* of accounts, of the target of a transfer too, and of the project.         *)
OwnershipInSync ==
    Ownership \notin overlapped /\ Exists => \A u \in Users : IsAdmin(u) <=> u = admin

Answered(q, u) == q.pc = "done" /\ q.op \in Answers /\ q.user = u

(* As long as no two answers of one user overlap, an invitation makes a      *)
(* member once, and not at all once it is declined: who has been removed     *)
(* does not come back by it.                                                 *)
InvitationUsedOnce ==
    \A u \in Users \ overlapped : \A q, r \in Requests :
        q # r /\ Answered(request[q], u) /\ Answered(request[r], u) /\ request[q].op = "accept"
            => request[q].invitation.id # request[r].invitation.id

(* transfer_ownership "Keeps both ownership sources in sync atomically": a    *)
(* former owner "is demoted to expert".  Two overlapping transfers both      *)
(* demote the owner they loaded, which leaves another one an admin.          *)
OnlyOwnerIsAdmin == Exists => \A u \in Users : IsAdmin(u) => u = admin

===============================================================================
