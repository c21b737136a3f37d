---------------------------- MODULE Communities ----------------------------
(***************************************************************************)
(* One community: its local members with their roles, its remote members,  *)
(* which are accepted follow edges, bans, join requests, one invite, one   *)
(* chat message, and the teardown of a deleted account's membership        *)
(* (routes/communities/, handlers/actor-inbox-handlers.ts and              *)
(* routes/account-teardown.ts).                                            *)
(*                                                                         *)
(* A handler first reads (community, caller, target) and later writes in   *)
(* one statement or one batch; between the two every other request may     *)
(* run.  A request remembers what it has read.                             *)
(***************************************************************************)
EXTENDS Naturals, FiniteSets

CONSTANTS
  Users,      \* local accounts
  Peers,      \* remote actors
  Requests,   \* bound: the requests of a behaviour, all concurrent
  Policies,   \* bound: [visibility, join, post] settings an owner chooses
  MaxRev      \* bound: edits of the message

VARIABLES
  comm,       \* [state, visibility, join, post]: the row of communities
  role,       \* [Users -> Roles]: community_members
  count,      \* communities.member_count
  edge,       \* [Peers -> "none" | "pending" | "accepted" | "rejected"]
  banned,     \* SUBSET (Users \union Peers): community_bans
  asked,      \* [Users -> "none" | "pending" | "accepted" | "rejected"]
  invite,     \* "none" | "open" | "expired" | "used"
  entered,    \* SUBSET Users: history, who entered on the invite
  msg,        \* NoMsg or [by, rev]
  deleting,   \* SUBSET Users: account_deletion_targets
  req         \* [Requests -> slot]

vars == <<comm, role, count, edge, banned, asked, invite, entered, msg,
          deleting, req>>

Managers == {"owner", "moderator"}
MemberRoles == Managers \union {"member"}
NoMsg == [by |-> "none", rev |-> 0]
Slot(pc, u, t, seen, arg) ==
  [pc |-> pc, by |-> u, on |-> t, seen |-> seen, arg |-> arg]
Ended == Slot("ended", "none", "none", "none", NoMsg)

Members == {u \in Users : role[u] # "none"}
Owners == {u \in Users : role[u] = "owner"}
Live == comm.state = "live"

(* communityRequiresMembership, and canViewerReadObject for one community. *)
RequiresMembership == comm.visibility = "private"
CanRead(u) == Live /\ (RequiresMembership => role[u] # "none")

(* checkPostPolicy.                                                        *)
CanPost(u) ==
  /\ RequiresMembership => role[u] # "none"
  /\ comm.post # "anyone" => role[u] # "none"
  /\ comm.post = "mods" => role[u] \in Managers
  /\ comm.post = "owners" => role[u] = "owner"

(* The join route treats an open private community as one with approval.   *)
JoinPolicy ==
  IF RequiresMembership /\ comm.join = "open" THEN "approval" ELSE comm.join

Free(r) == req[r].pc = "new"
Done(r) == req' = [req EXCEPT ![r] = Ended]
Wait(r, pc, u, t, seen, arg) ==
  req' = [req EXCEPT ![r] = Slot(pc, u, t, seen, arg)]

(* Every write of a session asserts that its account is not a target of    *)
(* deletion (createGuardedDatabase); a refused request ends.               *)
Admitted(r) == req[r].by \notin deleting

Init ==
  /\ comm = [state |-> "absent", visibility |-> "public", join |-> "open",
             post |-> "members"]
  /\ role = [u \in Users |-> "none"]
  /\ count = 0
  /\ edge = [p \in Peers |-> "none"]
  /\ banned = {}
  /\ asked = [u \in Users |-> "none"]
  /\ invite = "none"
  /\ entered = {}
  /\ msg = NoMsg
  /\ deleting = {}
  /\ req = [r \in Requests |-> [Ended EXCEPT !.pc = "new"]]

(* POST /communities: the row and its owner in one batch.                  *)
Create(u) ==
  /\ comm.state = "absent"
  /\ u \notin deleting
  /\ comm' = [comm EXCEPT !.state = "live"]
  /\ role' = [role EXCEPT ![u] = "owner"]
  /\ count' = 1
  /\ UNCHANGED <<edge, banned, asked, invite, entered, msg, deleting, req>>

(* PATCH settings: governance fields need the owner role; the read of the  *)
(* role and the update of the row are separate statements.                 *)
Settings(r, u) ==
  /\ Free(r) /\ Live /\ role[u] = "owner" /\ u \notin deleting
  /\ \E p \in Policies : Wait(r, "settings", u, "none", "none", p)
  /\ UNCHANGED <<comm, role, count, edge, banned, asked, invite, entered,
                 msg, deleting>>

SettingsWrite(r) ==
  /\ req[r].pc = "settings"
  /\ comm' = IF Admitted(r)
             THEN [comm EXCEPT !.visibility = req[r].arg.visibility,
                               !.join = req[r].arg.join,
                               !.post = req[r].arg.post]
             ELSE comm
  /\ Done(r)
  /\ UNCHANGED <<role, count, edge, banned, asked, invite, entered, msg,
                 deleting>>

-----------------------------------------------------------------------------
(* Joining and leaving.                                                    *)

(* POST join: not a member; the effective policy decides what follows.     *)
Join(r, u) ==
  /\ Free(r) /\ Live /\ role[u] = "none" /\ u \notin deleting
  /\ \/ /\ JoinPolicy = "approval"
        /\ Wait(r, "ask", u, u, asked[u], NoMsg)
     \/ /\ JoinPolicy = "invite"
        /\ invite = "open"
        /\ Wait(r, "claim", u, u, "none", NoMsg)
     \/ /\ JoinPolicy = "open"
        /\ u \notin banned
        /\ Wait(r, "enter", u, u, "none", NoMsg)
  /\ UNCHANGED <<comm, role, count, edge, banned, asked, invite, entered,
                 msg, deleting>>

(* The request row: an update of the one read, else an insert that yields  *)
(* to a row that appeared in between.                                      *)
Ask(r) ==
  LET u == req[r].by IN
  /\ req[r].pc = "ask"
  /\ asked' = IF Admitted(r) /\ (req[r].seen # "none" \/ asked[u] = "none")
              THEN [asked EXCEPT ![u] = "pending"] ELSE asked
  /\ Done(r)
  /\ UNCHANGED <<comm, role, count, edge, banned, invite, entered, msg,
                 deleting>>

(* Compare-and-set on the unused, unexpired invite, before the member row. *)
ClaimInvite(r) ==
  /\ req[r].pc = "claim"
  /\ IF invite = "open" /\ Admitted(r)
     THEN /\ invite' = "used"
          /\ req' = [req EXCEPT ![r].pc = "enterInvited"]
     ELSE Done(r) /\ UNCHANGED invite
  /\ UNCHANGED <<comm, role, count, edge, banned, asked, entered, msg,
                 deleting>>

(* prepareAddMemberStatements; and the batch of the join route, in which a *)
(* duplicate row fails the whole batch: nothing changes either way.        *)
AddMember(u) ==
  /\ role' = [role EXCEPT ![u] = IF @ = "none" THEN "member" ELSE @]
  /\ count' = IF role[u] = "none" THEN count + 1 ELSE count

EnterInvited(r) ==
  LET u == req[r].by IN
  /\ req[r].pc = "enterInvited"
  /\ IF Admitted(r) /\ role[u] = "none"
     THEN /\ AddMember(u)
          /\ entered' = entered \union {u}
          /\ req' = [req EXCEPT ![r].pc = "unban"]
     ELSE Done(r) /\ UNCHANGED <<role, count, entered>>
  /\ UNCHANGED <<comm, edge, banned, asked, invite, msg, deleting>>

(* unbanMember, a batch of its own after the member row of an invite.      *)
Unban(r) ==
  /\ req[r].pc = "unban"
  /\ banned' = IF Admitted(r) THEN banned \ {req[r].by} ELSE banned
  /\ Done(r)
  /\ UNCHANGED <<comm, role, count, edge, asked, invite, entered, msg,
                 deleting>>

(* The insert of an open join, after the ban check of its read.            *)
Enter(r) ==
  /\ req[r].pc = "enter"
  /\ IF Admitted(r) THEN AddMember(req[r].by) ELSE UNCHANGED <<role, count>>
  /\ Done(r)
  /\ UNCHANGED <<comm, edge, banned, asked, invite, entered, msg, deleting>>

(* POST leave: the role that was read picks the statement.                 *)
Leave(r, u) ==
  /\ Free(r) /\ Live /\ role[u] # "none" /\ u \notin deleting
  /\ Wait(r, IF role[u] = "owner" THEN "removeOwner" ELSE "removeMember",
          u, u, role[u], NoMsg)
  /\ UNCHANGED <<comm, role, count, edge, banned, asked, invite, entered,
                 msg, deleting>>

(* Managers remove members, owners remove managers, nobody removes itself. *)
(* A batch of removals reads every role before its first write, so each of *)
(* its elements is a removal that has read early.                          *)
CanRemove(u, t) ==
  /\ Live /\ role[u] \in Managers /\ t # u
  /\ t \in Users => role[t] # "none"
                     /\ (role[u] = "owner" \/ role[t] = "member")

(* DELETE members/:id: a target without a member row may be a remote       *)
(* member, that is a follow edge.                                          *)
Remove(r, u, t) ==
  /\ Free(r) /\ CanRemove(u, t) /\ u \notin deleting
  /\ \/ /\ t \in Users
        /\ Wait(r, IF role[t] = "owner" THEN "removeOwner"
                   ELSE "removeMember", u, t, role[t], NoMsg)
     \/ /\ t \in Peers
        /\ edge[t] # "none"
        /\ Wait(r, "removeRemote", u, t, edge[t], NoMsg)
  /\ UNCHANGED <<comm, role, count, edge, banned, asked, invite, entered,
                 msg, deleting>>

\* Mutant of DropMember: the decrement does not ask for the row.
DropMemberUnchecked(t) ==
  /\ role' = [role EXCEPT ![t] = "none"]
  /\ count' = IF count > 0 THEN count - 1 ELSE count

(* The two statements of a removal: the decrement is guarded by the row.   *)
DropMember(t) ==
  /\ role' = [role EXCEPT ![t] = "none"]
  /\ count' = IF role[t] # "none" /\ count > 0 THEN count - 1 ELSE count

(* removeMemberAtomic, or removeMemberAndBanAtomic when a manager removes. *)
RemoveMember(r) ==
  LET t == req[r].on IN
  /\ req[r].pc = "removeMember"
  /\ IF Admitted(r)
     THEN /\ DropMember(t)
          /\ banned' = IF t = req[r].by THEN banned
                       ELSE banned \union {t}
     ELSE UNCHANGED <<role, count, banned>>
  /\ Done(r)
  /\ UNCHANGED <<comm, edge, asked, invite, entered, msg, deleting>>

(* removeOwnerIfAnotherExistsInternal: each statement of the batch asks    *)
(* for another owner.                                                      *)
RemoveOwner(r) ==
  LET t == req[r].on IN
  /\ req[r].pc = "removeOwner"
  /\ IF Admitted(r) /\ Owners \ {t} # {}
     THEN /\ DropMember(t)
          /\ banned' = IF t = req[r].by \/ role[t] = "none" THEN banned
                       ELSE banned \union {t}
     ELSE UNCHANGED <<role, count, banned>>
  /\ Done(r)
  /\ UNCHANGED <<comm, edge, asked, invite, entered, msg, deleting>>

(* removeFollowBackedMemberAndBan: ban and edge in one batch.              *)
RemoveRemote(r) ==
  /\ req[r].pc = "removeRemote"
  /\ IF Admitted(r)
     THEN /\ banned' = banned \union {req[r].on}
          /\ edge' = [edge EXCEPT ![req[r].on] = "none"]
     ELSE UNCHANGED <<banned, edge>>
  /\ Done(r)
  /\ UNCHANGED <<comm, role, count, asked, invite, entered, msg, deleting>>

(* Only owners change roles, one by one or in a batch.                     *)
CanSetRole(u, t) == Live /\ role[u] = "owner" /\ role[t] # "none"

(* PATCH members/:id: the demotion of an owner takes the guarded update.   *)
SetRole(r, u, t, new) ==
  /\ Free(r) /\ CanSetRole(u, t) /\ u \notin deleting
  /\ role[t] # new
  /\ Wait(r, IF role[t] = "owner" THEN "demote" ELSE "setRole", u, t, new,
          NoMsg)
  /\ UNCHANGED <<comm, role, count, edge, banned, asked, invite, entered,
                 msg, deleting>>

(* The role update; demoteOwnerIfAnotherExists adds the guard.             *)
RoleWrite(r) ==
  LET t == req[r].on IN
  /\ req[r].pc \in {"demote", "setRole"}
  /\ role' = IF /\ Admitted(r)
                /\ role[t] # "none"
                /\ req[r].pc = "demote" => Owners \ {t} # {}
             THEN [role EXCEPT ![t] = req[r].seen] ELSE role
  /\ Done(r)
  /\ UNCHANGED <<comm, count, edge, banned, asked, invite, entered, msg,
                 deleting>>

-----------------------------------------------------------------------------
(* Requests and invites, by managers.                                      *)

(* POST requests/accept and requests/reject: a pending request of a local  *)
(* account, or a pending edge of a remote one.                             *)
Decide(r, u, t, verdict) ==
  /\ Free(r) /\ Live /\ role[u] \in Managers /\ u \notin deleting
  /\ IF t \in Users THEN asked[t] = "pending" ELSE edge[t] = "pending"
  /\ Wait(r, verdict, u, t, "none", NoMsg)
  /\ UNCHANGED <<comm, role, count, edge, banned, asked, invite, entered,
                 msg, deleting>>

(* The batch of an acceptance: member row or edge, unban, request.         *)
Accept(r) ==
  LET t == req[r].on IN
  /\ req[r].pc = "accept"
  /\ IF ~Admitted(r) THEN UNCHANGED <<role, count, edge, asked, banned>>
     ELSE /\ IF t \in Users
             THEN AddMember(t) /\ UNCHANGED edge
             ELSE /\ edge' = [edge EXCEPT ![t] =
                                IF @ = "pending" THEN "accepted" ELSE @]
                  /\ UNCHANGED <<role, count>>
          /\ banned' = banned \ {t}
          /\ asked' = [u \in Users |-> IF u = t /\ asked[u] = "pending"
                                       THEN "accepted" ELSE asked[u]]
  /\ Done(r)
  /\ UNCHANGED <<comm, invite, entered, msg, deleting>>

Reject(r) ==
  LET t == req[r].on IN
  /\ req[r].pc = "reject"
  /\ IF ~Admitted(r) THEN UNCHANGED <<edge, asked>>
     ELSE /\ edge' = [p \in Peers |-> IF p = t /\ edge[p] = "pending"
                                      THEN "none" ELSE edge[p]]
          /\ asked' = [u \in Users |-> IF u = t /\ asked[u] = "pending"
                                       THEN "rejected" ELSE asked[u]]
  /\ Done(r)
  /\ UNCHANGED <<comm, role, count, banned, invite, entered, msg, deleting>>

(* POST invites.                                                           *)
CreateInvite(u) ==
  /\ Live /\ role[u] \in Managers /\ u \notin deleting
  /\ invite = "none"
  /\ invite' = "open"
  /\ UNCHANGED <<comm, role, count, edge, banned, asked, entered, msg,
                 deleting, req>>

(* DELETE invites/:id, in whatever state the invite is.                    *)
DeleteInvite(u) ==
  /\ Live /\ role[u] \in Managers /\ u \notin deleting
  /\ invite # "none"
  /\ invite' = "deleted"
  /\ UNCHANGED <<comm, role, count, edge, banned, asked, entered, msg,
                 deleting, req>>

(* expires_at passes.                                                      *)
InviteExpires ==
  /\ invite = "open"
  /\ invite' = "expired"
  /\ UNCHANGED <<comm, role, count, edge, banned, asked, entered, msg,
                 deleting, req>>

-----------------------------------------------------------------------------
(* Remote members.                                                         *)

(* handleGroupFollow: without an edge the policy gives its status; a ban   *)
(* turns an acceptance into a refusal.  The insert comes later and yields  *)
(* to an edge that appeared.                                               *)
GroupFollow(r, p) ==
  /\ Free(r) /\ Live /\ edge[p] = "none"
  /\ comm.join = "open" => p \notin banned
  /\ Wait(r, "follow", p, p,
          CASE comm.join = "approval" -> "pending"
            [] comm.join = "invite" -> "rejected"
            [] OTHER -> "accepted", NoMsg)
  /\ UNCHANGED <<comm, role, count, edge, banned, asked, invite, entered,
                 msg, deleting>>

FollowWrite(r) ==
  /\ req[r].pc = "follow"
  /\ edge' = [edge EXCEPT ![req[r].on] = IF @ = "none" THEN req[r].seen
                                         ELSE @]
  /\ Done(r)
  /\ UNCHANGED <<comm, role, count, banned, asked, invite, entered, msg,
                 deleting>>

(* handleGroupUndo: the edge of the actor that sent it.                    *)
GroupUndo(p) ==
  /\ edge[p] # "none"
  /\ edge' = [edge EXCEPT ![p] = "none"]
  /\ UNCHANGED <<comm, role, count, banned, asked, invite, entered, msg,
                 deleting, req>>

-----------------------------------------------------------------------------
(* Chat messages.                                                          *)

(* POST messages: the policy is read, the batch of the message follows.    *)
Post(r, u) ==
  /\ Free(r) /\ Live /\ CanPost(u) /\ u \notin deleting
  /\ msg = NoMsg
  /\ Wait(r, "post", u, "none", "none", NoMsg)
  /\ UNCHANGED <<comm, role, count, edge, banned, asked, invite, entered,
                 msg, deleting>>

PostWrite(r) ==
  /\ req[r].pc = "post"
  /\ msg' = IF Admitted(r) /\ msg = NoMsg
            THEN [by |-> req[r].by, rev |-> 1] ELSE msg
  /\ Done(r)
  /\ UNCHANGED <<comm, role, count, edge, banned, asked, invite, entered,
                 deleting>>

(* findOwnedGroupMessage: readable community, own message; a manager may   *)
(* delete the message of another member.                                   *)
Owned(u, deletes) ==
  /\ CanRead(u)
  /\ msg # NoMsg
  /\ msg.by = u \/ (deletes /\ role[u] \in Managers)

Edit(r, u) ==
  /\ Free(r) /\ Owned(u, FALSE) /\ u \notin deleting
  /\ msg.rev < MaxRev
  /\ Wait(r, "edit", u, "none", "none", msg)
  /\ UNCHANGED <<comm, role, count, edge, banned, asked, invite, entered,
                 msg, deleting>>

Delete(r, u) ==
  /\ Free(r) /\ Owned(u, TRUE) /\ u \notin deleting
  /\ Wait(r, "delete", u, "none", "none", msg)
  /\ UNCHANGED <<comm, role, count, edge, banned, asked, invite, entered,
                 msg, deleting>>

(* guardGroupMessage: the write holds only if the message is still the one *)
(* that was read and the caller may still do this to it.                   *)
Unchanged(r, deletes) == msg = req[r].arg /\ Owned(req[r].by, deletes)

EditWrite(r) ==
  /\ req[r].pc = "edit"
  /\ msg' = IF Admitted(r) /\ Unchanged(r, FALSE)
            THEN [msg EXCEPT !.rev = @ + 1] ELSE msg
  /\ Done(r)
  /\ UNCHANGED <<comm, role, count, edge, banned, asked, invite, entered,
                 deleting>>

DeleteWrite(r) ==
  /\ req[r].pc = "delete"
  /\ msg' = IF Admitted(r) /\ Unchanged(r, TRUE) THEN NoMsg ELSE msg
  /\ Done(r)
  /\ UNCHANGED <<comm, role, count, edge, banned, asked, invite, entered,
                 deleting>>

-----------------------------------------------------------------------------
(* Teardown of a deleted account: hand-off, retirement, membership.        *)

(* The reservation of the account; its worker takes a request slot.        *)
BeginTeardown(r, u) ==
  /\ Free(r)
  /\ u \notin deleting
  /\ deleting' = deleting \union {u}
  /\ Wait(r, "plan", u, "none", "none", NoMsg)
  /\ UNCHANGED <<comm, role, count, edge, banned, asked, invite, entered,
                 msg>>

Staying(u) == Members \ (deleting \union {u})

(* A sole owner needs an heir among the members that stay, or the          *)
(* community is a candidate for retirement.                                *)
PlanHandoff(r) ==
  LET u == req[r].by IN
  /\ req[r].pc = "plan"
  /\ \/ /\ role[u] # "owner" \/ Owners \intersect Staying(u) # {}
        /\ Wait(r, "erase", u, "none", "none", NoMsg)
     \/ /\ role[u] = "owner" /\ Owners \intersect Staying(u) = {}
        /\ \/ \E h \in Staying(u) : Wait(r, "inherit", u, h, "none", NoMsg)
           \/ /\ Staying(u) = {}
              /\ Wait(r, "retire", u, "none", "none", NoMsg)
  /\ UNCHANGED <<comm, role, count, edge, banned, asked, invite, entered,
                 msg, deleting>>

(* The heir becomes owner, if it still is a member by then.                *)
Inherit(r) ==
  LET h == req[r].on IN
  /\ req[r].pc = "inherit"
  /\ role' = [role EXCEPT ![h] = IF @ = "none" THEN @ ELSE "owner"]
  /\ req' = [req EXCEPT ![r].pc = "erase", ![r].on = "none"]
  /\ UNCHANGED <<comm, count, edge, banned, asked, invite, entered, msg,
                 deleting>>

(* Retirement holds only while no other member stays.                      *)
Retire(r) ==
  LET u == req[r].by IN
  /\ req[r].pc = "retire"
  /\ LET gone == Live /\ Staying(u) = {} /\ role[u] = "owner" IN
     /\ comm' = IF gone THEN [comm EXCEPT !.state = "deleted"] ELSE comm
     /\ req' = [req EXCEPT ![r].pc = "erase",
                  ![r].seen = IF gone \/ comm.state = "deleted"
                              THEN "retired" ELSE "none"]
  /\ UNCHANGED <<role, count, edge, banned, asked, invite, entered, msg,
                 deleting>>

(* The batch of one membership; a retired community loses every edge,      *)
(* request, invite and ban with it.                                        *)
EraseMembership(r) ==
  LET u == req[r].by
      retired == req[r].seen = "retired" IN
  /\ req[r].pc = "erase"
  /\ DropMember(u)
  /\ edge' = IF retired THEN [p \in Peers |-> "none"] ELSE edge
  /\ banned' = IF retired THEN {} ELSE banned
  /\ asked' = IF retired THEN [v \in Users |-> "none"]
              ELSE [asked EXCEPT ![u] = "none"]
  /\ invite' = IF retired /\ invite # "none" THEN "deleted" ELSE invite
  /\ msg' = IF msg.by = u THEN NoMsg ELSE msg
  /\ Done(r)
  /\ UNCHANGED <<comm, entered, deleting>>

-----------------------------------------------------------------------------
MemberStep(r) ==
  \/ Ask(r) \/ ClaimInvite(r) \/ EnterInvited(r) \/ Unban(r) \/ Enter(r)
  \/ RemoveMember(r) \/ RemoveOwner(r) \/ RemoveRemote(r) \/ RoleWrite(r)
  \/ Accept(r) \/ Reject(r) \/ FollowWrite(r)
  \/ \E u \in Users :
       \/ Join(r, u) \/ Leave(r, u)
       \/ \E t \in Users \union Peers :
            \/ Remove(r, u, t)
            \/ \E v \in {"accept", "reject"} : Decide(r, u, t, v)
       \/ \E t \in Users, new \in MemberRoles : SetRole(r, u, t, new)
  \/ \E p \in Peers : GroupFollow(r, p)

MessageStep(r) ==
  \/ SettingsWrite(r) \/ PostWrite(r) \/ EditWrite(r) \/ DeleteWrite(r)
  \/ \E u \in Users : Settings(r, u) \/ Post(r, u) \/ Edit(r, u)
                      \/ Delete(r, u)

TeardownStep(r) ==
  \/ PlanHandoff(r) \/ Inherit(r) \/ Retire(r) \/ EraseMembership(r)
  \/ \E u \in Users : BeginTeardown(r, u)

Next ==
  \/ \E u \in Users : Create(u) \/ CreateInvite(u) \/ DeleteInvite(u)
  \/ InviteExpires
  \/ \E p \in Peers : GroupUndo(p)
  \/ \E r \in Requests : MemberStep(r) \/ MessageStep(r) \/ TeardownStep(r)

Spec == Init /\ [][Next]_vars

-----------------------------------------------------------------------------
(* Types of the rows and of the requests in flight.                        *)
TypeOK ==
  /\ comm.state \in {"absent", "live", "deleted"}
  /\ role \in [Users -> MemberRoles \union {"none"}]
  /\ count \in Nat
  /\ edge \in [Peers -> {"none", "pending", "accepted", "rejected"}]
  /\ banned \subseteq Users \union Peers
  /\ asked \in [Users -> {"none", "pending", "accepted", "rejected"}]
  /\ invite \in {"none", "open", "expired", "used", "deleted"}
  /\ entered \subseteq Users
  /\ deleting \subseteq Users
  /\ DOMAIN req = Requests

(* The denormalised member_count is the number of member rows, whatever    *)
(* joins, acceptances, removals and teardowns overlap: the count moves in  *)
(* the batch of the row and under its condition (membership-shared.ts,     *)
(* membership-join.ts).                                                    *)
CountMatches == count = Cardinality(Members)

(* One invite lets at most one account in, however many requests have read *)
(* it as unused (membership-join.ts, the claim before the member row).     *)
InviteAdmitsOne == Cardinality(entered) <= 1

(* A message changes or goes only by a step of somebody who may do so at   *)
(* that very moment, not when the request was admitted: its author in a    *)
(* community it can read, or a manager for a deletion (messages.ts,        *)
(* guardGroupMessage).  The teardown of the author is the other way out.   *)
MessageWritesAdmitted ==
  [][msg # NoMsg /\ msg' # msg =>
       \/ \E r \in Requests :
            /\ req[r].pc \in {"edit", "delete"}
            /\ req'[r] = Ended
            /\ Owned(req[r].by, req[r].pc = "delete")
       \/ msg.by \in deleting]_vars

=============================================================================
