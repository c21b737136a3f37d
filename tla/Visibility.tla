----------------------------- MODULE Visibility -----------------------------
(***************************************************************************)
(* Who may read an object.  One stored object, one room, the relations of  *)
(* a local account Me and a remote account Them, and:                      *)
(*                                                                         *)
(*  - the canonical read gate (lib/post-visibility.ts,                     *)
(*    lib/community-visibility.ts), which reads table after table while    *)
(*    other requests go on; the reply of Them to the object takes its      *)
(*    receipt to the batch that stores the reply                           *)
(*    (handlers/inbound-note-parent-admission.ts);                         *)
(*  - every surface that shows objects with a query of its own: feeds,     *)
(*    search, profiles, stories, replies, bookmarks, notifications, media  *)
(*    and the federated documents.                                         *)
(***************************************************************************)
EXTENDS Naturals, FiniteSets

CONSTANTS
  Me,          \* a local account, the reader
  Them,        \* a remote account
  Room         \* a community of this instance

VARIABLES
  obj,         \* the object row, or Absent
  expired,     \* its end time is past
  follow,      \* [{Me, Them} -> status]: of the other, by this one
  blocked,     \* Me blocks Them
  muted,       \* Me mutes Them
  operator,    \* what the operator's list holds against Them
  room,        \* "public", "private" or "deleted"
  members,     \* SUBSET {Me, Them}: rows of community_members
  ask,         \* the read gate running for a reply of Them
  replied      \* the reply is stored

relVars == <<follow, blocked, muted, operator>>
roomVars == <<room, members>>
vars == <<obj, expired, follow, blocked, muted, operator, room, members, ask,
          replied>>

Anyone == "anonymous"
Viewers == {Me, Anyone}
Elsewhere == "elsewhere"      \* an audience that is no room of this instance

ASSUME VisibilityAssumption ==
  Me # Them /\ Anyone \notin {Me, Them} /\ Room \notin {Elsewhere, "none"}

Absent == [type |-> "none"]

(* Notes as they are stored: a post, a post in the room, a room chat       *)
(* message (an audience and no room) and a post to a remote group.  The    *)
(* rows of a restricted Note may name the other account, in to/cc (to) or  *)
(* in object_recipients (projected).                                       *)
NotesOf(by, vis, place, audience, to, projected, reply) ==
  [type : {"Note"}, by : by, vis : vis, place : place, audience : audience,
   to : to, projected : projected, reply : reply]

Notes ==
  NotesOf({Me, Them}, {"public", "unlisted"}, {"none"}, {{}},
          {FALSE}, {FALSE}, {FALSE})
  \cup NotesOf({Me, Them}, {"followers", "direct"}, {"none"}, {{}},
               BOOLEAN, BOOLEAN, {FALSE})
  \cup NotesOf({Them}, {"public", "followers", "direct"}, {"none"}, {{}},
               {FALSE}, {FALSE}, {TRUE})
  \cup NotesOf({Me, Them}, {"public", "unlisted", "followers"}, {Room, "none"},
               {{Room}}, {FALSE}, {FALSE}, {FALSE})
  \cup NotesOf({Them}, {"public", "unlisted", "followers"}, {"none"},
               {{Elsewhere}}, {FALSE}, {FALSE}, {FALSE})

(* A story is stored public, with an empty audience and an end time.       *)
Stories ==
  [type : {"Story"}, by : {Me, Them}, vis : {"public"}, place : {Room, "none"},
   audience : {{}}, to : {FALSE}, projected : {FALSE}, reply : {FALSE}]

Own(w, o) == w = o.by
Open(o) == o.vis \in {"public", "unlisted"}

(***************************************************************************)
(* The operator's list, read in two ways.  The check in code looks for     *)
(* the actor, its host and the parents of its host with two labels or      *)
(* more; the SQL predicate matches every suffix, a bare top-level domain   *)
(* ("tld") too.                                                            *)
(***************************************************************************)
isActorBlockedStrict(o) == o.by = Them /\ operator = "blocked"
operatorActorNotBlockedSql(o) == o.by = Them => operator = "none"

(* excludeModeratedActors: the operator's list and the viewer's own.       *)
excludeModeratedActors(w, o) ==
  /\ operatorActorNotBlockedSql(o)
  /\ w = Me /\ o.by = Them => ~blocked /\ ~muted

Other(w, o) == w \notin {o.by, Anyone}
hasAcceptedFollow(w, o) == Other(w, o) /\ follow[w] = "accepted"
isExplicitRecipient(w, o) == Other(w, o) /\ o.to
hasProjectedRecipient(w, o) == Other(w, o) /\ o.projected

(* The author is local and blocks or mutes w.                              *)
actorSuppressesInteractionFrom(w, o) ==
  w = Them /\ o.by = Me /\ (blocked \/ muted)

(***************************************************************************)
(* The canonical gate.                                                     *)
(***************************************************************************)
communityApIdsFor(o) == ({o.place} \ {"none"}) \cup o.audience
Scoped(o) == Room \in communityApIdsFor(o)

(* canViewerReadObject, and its batched form communityReadableApIds.       *)
canViewerReadObject(w, o) ==
  Scoped(o) => /\ room # "deleted"
               /\ room = "private" => w \in members

communityReadableApIds(w, o) ==
  \/ ~Scoped(o)
  \/ room = "public"
  \/ room = "private" /\ w \in members

passesPostVisibilitySync(w, o, following, projected, past) ==
  IF o.type = "Story"
    THEN \/ Own(w, o)
         \/ ~past /\ (o.place # "none" \/ following)
    ELSE \/ Open(o)
         \/ Own(w, o)
         \/ isExplicitRecipient(w, o)
         \/ projected
         \/ o.vis = "followers" /\ following

(* canViewerReadObjectFull in one step: what the gate says of a state.     *)
MayRead(w, o) ==
  /\ ~isActorBlockedStrict(o)
  /\ \/ o.type = "Story" /\ Own(w, o)
     \/ /\ canViewerReadObject(w, o)
        /\ passesPostVisibilitySync(w, o, hasAcceptedFollow(w, o),
                                    hasProjectedRecipient(w, o), expired)

(***************************************************************************)
(* Surfaces with a query of their own: may o be shown to w.                *)
(***************************************************************************)
FeedNote(o) == o.type = "Note" /\ ~o.reply /\ o.vis # "direct"

communityPostVisibilityGate(w, o) ==
  \/ Open(o)
  \/ Own(w, o)
  \/ o.vis = "followers" /\ hasAcceptedFollow(w, o)

MemberPost(o, these) == o.audience = {} /\ o.by \in these /\ Open(o)

(* resolveCommunityRead: the room is there and open to the viewer.         *)
resolveCommunityRead(w) ==
  room # "deleted" /\ (room = "private" => w \in members)

(* GET /timeline?community=                                                *)
handleCommunityTimeline(w, o) ==
  /\ resolveCommunityRead(w)
  /\ FeedNote(o) /\ excludeModeratedActors(w, o)
  /\ \/ o.place = Room /\ communityPostVisibilityGate(w, o)
     \/ MemberPost(o, members)

(* Mutant of HomeTimeline: the room branch without its visibility gate.    *)
HomeTimelineUngated(w, o) ==
  /\ FeedNote(o) /\ excludeModeratedActors(w, o)
  /\ IF w = Anyone
       THEN o.vis = "public" /\ o.audience = {}
       ELSE \/ o.audience = {} /\ (Own(w, o) \/ hasAcceptedFollow(w, o))
            \/ w \in members /\ MemberPost(o, members \ {w})
            \/ w \in members /\ o.place = Room

(* GET /timeline: the public feed of a visitor, the home feed of a user:   *)
(* self and follows, co-members of a room, posts made to the user's rooms. *)
HomeTimeline(w, o) ==
  /\ FeedNote(o) /\ excludeModeratedActors(w, o)
  /\ IF w = Anyone
       THEN o.vis = "public" /\ o.audience = {}
       ELSE \/ o.audience = {} /\ (Own(w, o) \/ hasAcceptedFollow(w, o))
            \/ w \in members /\ MemberPost(o, members \ {w})
            \/ /\ w \in members /\ o.place = Room
               /\ communityPostVisibilityGate(w, o)

(* GET /timeline/following                                                 *)
FollowingTimeline(w, o) ==
  /\ w = Me /\ FeedNote(o) /\ o.audience = {}
  /\ excludeModeratedActors(w, o)
  /\ Own(w, o) \/ hasAcceptedFollow(w, o)

(* GET /search/posts and /search/hashtag/:tag                              *)
publicSearchableWhere(o) ==
  o.type = "Note" /\ o.vis = "public" /\ o.audience = {}
SearchPosts(w, o) == publicSearchableWhere(o) /\ excludeModeratedActors(w, o)
SearchHashtag(w, o) == publicSearchableWhere(o) /\ excludeModeratedActors(w, o)

(* GET /actors/:identifier/posts                                           *)
ProfilePosts(w, o) ==
  /\ o.type = "Note" /\ ~o.reply /\ excludeModeratedActors(w, o)
  /\ IF Own(w, o)
       THEN o.vis # "direct" /\ (o.audience = {} \/ o.place # "none")
       ELSE o.vis = "public" /\ o.audience = {}

(* GET /stories and GET /stories/:actorId, personal or of a room.          *)
resolveStoryScope(w, place) == place = "none" \/ w \in members

StoryFeed(w, o) ==
  /\ w = Me /\ o.type = "Story" /\ ~expired
  /\ resolveStoryScope(w, o.place)
  /\ o.place = "none" => Own(w, o) \/ hasAcceptedFollow(w, o)
  /\ excludeModeratedActors(w, o)

ActorStories(w, o) ==
  /\ w = Me /\ o.type = "Story" /\ ~expired
  /\ resolveStoryScope(w, o.place)
  /\ o.by = Them => ~blocked /\ ~muted
  /\ o.place = "none" => Own(w, o) \/ hasAcceptedFollow(w, o)
  /\ excludeModeratedActors(w, o)

(* GET /posts/:id                                                          *)
PostPage(w, o) ==
  /\ w = Me => excludeModeratedActors(w, o)
  /\ MayRead(w, o)

(* GET /posts/:id/replies: o is a reply, its parent may be read.           *)
filterVisibleReplies(w, o) ==
  /\ o.reply /\ excludeModeratedActors(w, o)
  /\ communityReadableApIds(w, o)
  /\ passesPostVisibilitySync(w, o, hasAcceptedFollow(w, o),
                              hasProjectedRecipient(w, o), expired)

(* GET /posts/bookmarks: o was bookmarked when it could be read.           *)
Bookmarks(w, o) ==
  /\ w = Me /\ excludeModeratedActors(w, o)
  /\ passesPostVisibilitySync(w, o, hasAcceptedFollow(w, o),
                              hasProjectedRecipient(w, o), expired)
  /\ communityReadableApIds(w, o)

(* GET /notifications: the text of o, which Them sent or Me wrote; rows of *)
(* hidden senders and of direct messages are not listed.                   *)
NotificationText(w, o) ==
  /\ w = Me /\ o.vis # "direct" /\ excludeModeratedActors(w, o)
  /\ passesPostVisibilitySync(w, o, hasAcceptedFollow(w, o),
                              hasProjectedRecipient(w, o), expired)
  /\ communityReadableApIds(w, o)

(* The outbox of an actor: what it created or boosted, for everyone.       *)
publicOutboxGate(o) ==
  /\ o.audience = {} /\ o.type = "Note" /\ Open(o)
  /\ operatorActorNotBlockedSql(o)

(* The outbox of the room's Group actor, which only a public room has.     *)
loadFederatedCommunity == room = "public"
communityOutboxGate(o) ==
  /\ loadFederatedCommunity /\ o.place = Room
  /\ o.type = "Note" /\ Open(o) /\ operatorActorNotBlockedSql(o)

(* GET /ap/objects/:id, unsigned or signed by w.                           *)
ObjectDocument(w, o) == MayRead(Anyone, o) \/ MayRead(w, o)

(* GET /media/:id of a file attached to o, which a local account uploaded; *)
(* a public answer may be kept by shared caches.                           *)
checkMediaAuthorization(w, o) == o.by = Me /\ (Own(w, o) \/ MayRead(w, o))
MediaPublic(w, o) ==
  /\ checkMediaAuthorization(w, o) /\ ~Own(w, o)
  /\ o.place = "none" /\ o.type # "Story" /\ Open(o)

Listed(w, o) ==
  \/ handleCommunityTimeline(w, o) \/ HomeTimeline(w, o)
  \/ FollowingTimeline(w, o) \/ SearchPosts(w, o) \/ SearchHashtag(w, o)
  \/ ProfilePosts(w, o) \/ StoryFeed(w, o) \/ ActorStories(w, o)
  \/ PostPage(w, o) \/ filterVisibleReplies(w, o) \/ Bookmarks(w, o)
  \/ NotificationText(w, o)

Published(o) == publicOutboxGate(o) \/ communityOutboxGate(o)

(***************************************************************************)
(* The gate as a reply of Them runs it, and the receipt it leaves.         *)
(***************************************************************************)
Idle == [pc |-> "idle"]
Deny == ask' = Idle
Pass(pc, r) == ask' = [r EXCEPT !.pc = pc]

NeedsProjection(o) ==
  /\ ~Own(Them, o) /\ o.type # "Story" /\ ~Open(o)
  /\ ~isExplicitRecipient(Them, o)

NeedsFollow(o, projected) ==
  /\ ~Own(Them, o)
  /\ \/ o.type = "Story" /\ o.place = "none"
     \/ /\ o.type # "Story" /\ o.vis = "followers"
        /\ ~isExplicitRecipient(Them, o) /\ ~projected

(* readInboundNoteParent reads the row; a parent that is not here admits   *)
(* the reply as long as it stays away.                                     *)
readInboundNoteParent ==
  /\ ask = Idle /\ ~replied
  /\ ask' = [pc |-> IF obj = Absent THEN "receipt" ELSE "operator",
             seen |-> obj, past |-> expired,
             rows |-> "none", member |-> FALSE, projected |-> FALSE,
             follows |-> FALSE, expires |-> FALSE]
  /\ UNCHANGED <<obj, expired, relVars, roomVars, replied>>

ReadOperator ==
  /\ ask.pc = "operator"
  /\ LET o == ask.seen
         story == o.type = "Story"
     IN IF isActorBlockedStrict(o) \/ (story /\ ~Own(Them, o) /\ ask.past)
          THEN Deny
          ELSE Pass(IF story /\ Own(Them, o) THEN "owner" ELSE "room",
                    [ask EXCEPT !.expires = story /\ ~Own(Them, o)])
  /\ UNCHANGED <<obj, expired, relVars, roomVars, replied>>

ReadRoom ==
  /\ ask.pc = "room"
  /\ CASE ~Scoped(ask.seen) -> Pass("recipient", ask)
       [] Scoped(ask.seen) /\ room = "deleted" -> Deny
       [] Scoped(ask.seen) /\ room = "public" ->
            Pass("recipient", [ask EXCEPT !.rows = room])
       [] Scoped(ask.seen) /\ room = "private" ->
            Pass("member", [ask EXCEPT !.rows = room])
  /\ UNCHANGED <<obj, expired, relVars, roomVars, replied>>

ReadMember ==
  /\ ask.pc = "member"
  /\ IF Them \in members THEN Pass("recipient", [ask EXCEPT !.member = TRUE])
                         ELSE Deny
  /\ UNCHANGED <<obj, expired, relVars, roomVars, replied>>

ReadRecipient ==
  /\ ask.pc = "recipient"
  /\ Pass("follow", [ask EXCEPT !.projected =
       NeedsProjection(ask.seen) /\ obj # Absent /\ obj.projected])
  /\ UNCHANGED <<obj, expired, relVars, roomVars, replied>>

ReadFollow ==
  /\ ask.pc = "follow"
  /\ LET following == /\ NeedsFollow(ask.seen, ask.projected)
                      /\ hasAcceptedFollow(Them, ask.seen)
     IN IF passesPostVisibilitySync(Them, ask.seen, following, ask.projected,
                                    ask.past)
          THEN Pass("owner", [ask EXCEPT !.follows = following])
          ELSE Deny
  /\ UNCHANGED <<obj, expired, relVars, roomVars, replied>>

(* The parent's local author must not hide the replier.                    *)
ReadOwner ==
  /\ ask.pc = "owner"
  /\ IF actorSuppressesInteractionFrom(Them, ask.seen) THEN Deny
                                                      ELSE Pass("receipt", ask)
  /\ UNCHANGED <<obj, expired, relVars, roomVars, replied>>

Snapshot(o) == [type |-> o.type, by |-> o.by, vis |-> o.vis,
                place |-> o.place, audience |-> o.audience, to |-> o.to]

communityReadAdmissionSql(r) ==
  r.rows # "none" => room = r.rows /\ (r.member => Them \in members)

(* Mutant of postReadAdmissionSql: the receipt's follow is not looked up.  *)
postReadAdmissionSqlStale(r) ==
  /\ Snapshot(obj) = Snapshot(r.seen)
  /\ operatorActorNotBlockedSql(obj)
  /\ communityReadAdmissionSql(r)
  /\ r.projected => obj.projected
  /\ r.expires => ~expired

(* Every fact the gate relied on still holds.                              *)
postReadAdmissionSql(r) ==
  /\ Snapshot(obj) = Snapshot(r.seen)
  /\ operatorActorNotBlockedSql(obj)
  /\ communityReadAdmissionSql(r)
  /\ r.follows => hasAcceptedFollow(Them, obj)
  /\ r.projected => obj.projected
  /\ r.expires => ~expired

inboundNoteParentAdmissionSql(r) ==
  IF r.seen = Absent
    THEN obj = Absent
    ELSE /\ obj # Absent /\ postReadAdmissionSql(r)
         /\ ~actorSuppressesInteractionFrom(Them, obj)

(* The batch that stores the reply, with the receipt as its guard.         *)
Commit ==
  /\ ask.pc = "receipt"
  /\ replied' = inboundNoteParentAdmissionSql(ask)
  /\ Deny
  /\ UNCHANGED <<obj, expired, relVars, roomVars>>

(***************************************************************************)
(* What changes meanwhile.                                                 *)
(***************************************************************************)
(* An object has an id of its own: none takes the place of a deleted one   *)
(* while a gate still runs for that.                                       *)
Publish ==
  /\ obj = Absent /\ ~replied
  /\ ask # Idle => ask.seen = Absent
  /\ obj' \in Notes \cup Stories
  /\ UNCHANGED <<expired, relVars, roomVars, ask, replied>>

(* A federated Update: new addressing and recipients, same kind of place.  *)
Revise ==
  /\ obj # Absent /\ obj.by = Them /\ obj.type = "Note"
  /\ obj' \in {n \in Notes : /\ n.by = Them /\ n.reply = obj.reply
                             /\ n.audience = obj.audience
                             /\ n.place = obj.place}
  /\ UNCHANGED <<expired, relVars, roomVars, ask, replied>>

Expire ==
  /\ obj # Absent /\ obj.type = "Story" /\ expired' = TRUE
  /\ UNCHANGED <<obj, relVars, roomVars, ask, replied>>

(* A gate that runs for the object goes on, and is refused by its batch.   *)
Delete ==
  /\ obj # Absent /\ obj' = Absent /\ replied' = FALSE /\ expired' = FALSE
  /\ UNCHANGED <<relVars, roomVars, ask>>

Follow(w) ==
  /\ \/ follow[w] = "none" /\ ~blocked
        /\ follow' = [follow EXCEPT ![w] = "pending"]
     \/ follow[w] = "pending" /\ follow' = [follow EXCEPT ![w] = "accepted"]
     \/ follow[w] # "none" /\ follow' = [follow EXCEPT ![w] = "none"]
  /\ UNCHANGED <<obj, expired, blocked, muted, operator, roomVars, ask, replied>>

(* A block removes the follow edges between the two.                       *)
Block ==
  /\ \/ ~blocked /\ blocked' = TRUE /\ follow' = [w \in {Me, Them} |-> "none"]
     \/ blocked /\ blocked' = FALSE /\ UNCHANGED follow
  /\ UNCHANGED <<obj, expired, muted, operator, roomVars, ask, replied>>

Mute ==
  /\ muted' = ~muted
  /\ UNCHANGED <<obj, expired, follow, blocked, operator, roomVars, ask, replied>>

OperatorBlock ==
  /\ \/ operator = "none" /\ operator' \in {"blocked", "tld"}
     \/ operator # "none" /\ operator' = "none"
  /\ UNCHANGED <<obj, expired, follow, blocked, muted, roomVars, ask, replied>>

RoomSettings ==
  /\ room # "deleted"
  /\ room' = IF room = "public" THEN "private" ELSE "public"
  /\ UNCHANGED <<obj, expired, relVars, members, ask, replied>>

Membership(a) ==
  /\ room # "deleted"
  /\ members' = IF a \in members THEN members \ {a} ELSE members \cup {a}
  /\ UNCHANGED <<obj, expired, relVars, room, ask, replied>>

(* The last owner's account is gone and no member is left.                 *)
Retire ==
  /\ room # "deleted" /\ members = {} /\ room' = "deleted"
  /\ UNCHANGED <<obj, expired, relVars, members, ask, replied>>

Init ==
  /\ obj = Absent /\ expired = FALSE
  /\ follow = [w \in {Me, Them} |-> "none"]
  /\ blocked = FALSE /\ muted = FALSE /\ operator = "none"
  /\ room = "public" /\ members = {}
  /\ ask = Idle /\ replied = FALSE

Next ==
  \/ readInboundNoteParent \/ ReadOperator \/ ReadRoom \/ ReadMember
  \/ ReadRecipient \/ ReadFollow \/ ReadOwner \/ Commit
  \/ Publish \/ Revise \/ Expire \/ Delete
  \/ Block \/ Mute \/ OperatorBlock \/ RoomSettings \/ Retire
  \/ \E a \in {Me, Them} : Follow(a) \/ Membership(a)

Spec == Init /\ [][Next]_vars

TypeOK ==
  /\ obj \in Notes \cup Stories \cup {Absent} /\ expired \in BOOLEAN
  /\ follow \in [{Me, Them} -> {"none", "pending", "accepted"}]
  /\ blocked \in BOOLEAN /\ muted \in BOOLEAN
  /\ operator \in {"none", "blocked", "tld"}
  /\ room \in {"public", "private", "deleted"} /\ members \subseteq {Me, Them}
  /\ ask.pc \in {"idle", "operator", "room", "member", "recipient",
                 "follow", "owner", "receipt"}
  /\ replied \in BOOLEAN

(* Every list, feed, page and document is as strict as the canonical read  *)
(* gate: what it shows a viewer the gate lets the viewer read, unless it   *)
(* is the viewer's own; what a viewer hides or the operator blocks is on   *)
(* no list; and what is published or cached for everyone, anyone may read. *)
SurfacesReadable ==
  obj # Absent =>
    /\ \A w \in Viewers :
         /\ Listed(w, obj) => MayRead(w, obj) \/ Own(w, obj)
         /\ Listed(w, obj) /\ w = Me => excludeModeratedActors(w, obj)
         /\ MediaPublic(w, obj) => MayRead(Anyone, obj)
    /\ Published(obj) => MayRead(Anyone, obj)

(* A federated reply is stored only if, at that moment, its author may     *)
(* read the parent and the parent's author does not hide him, or there is  *)
(* no parent here: whatever changed between the reads of the gate and the  *)
(* batch, the receipt repeats every fact the gate relied on.               *)
RepliesReadable ==
  [][replied' /\ ~replied =>
       obj = Absent \/ /\ MayRead(Them, obj)
                       /\ ~actorSuppressesInteractionFrom(Them, obj)]_vars

=============================================================================
