---------------------------- MODULE FollowGraph ----------------------------
(***************************************************************************)
(* The follow edges between local and remote actors with the denormalised  *)
(* counters of the local ones, personal blocks and mutes, operator blocks, *)
(* and the deletion and the move of a remote actor (routes/follow.ts,      *)
(* routes/follow-helpers.ts, handlers/inbox-follow-handlers.ts,            *)
(* lib/follow-edge-mutations.ts, lib/account-migration.ts,                 *)
(* lib/blocklist-purge.ts).                                                *)
(*                                                                         *)
(* A handler reads the edge and later writes one batch; what the batch     *)
(* does to a counter depends on the read, on conditions inside the batch,  *)
(* or on both.                                                             *)
(***************************************************************************)
EXTENDS ActorCache

CONSTANTS
  Local,      \* local actors
  Private     \* those that approve their followers

VARIABLES
  edge,            \* [Pairs -> "none" | "pending" | "accepted"]: follows
  followerCount,   \* [Local -> Nat]
  followingCount,  \* [Local -> Nat]
  blocks,          \* SUBSET (Local \X Actors)
  mutes,           \* SUBSET (Local \X Actors)
  opBlocked        \* SUBSET Remote: blocked_actors and blocked_domains

graphVars == <<edge, followerCount, followingCount>>
modVars == <<blocks, mutes, opBlocked>>
vars == <<cached, tomb, fail, req, edge, followerCount, followingCount,
          blocks, mutes, opBlocked>>

Actors == Local \union Remote
Pairs == {d \in Actors \X Actors :
            d[1] # d[2] /\ (d[1] \in Local \/ d[2] \in Local)}

Followers(y) == {d \in Pairs : d[2] = y /\ edge[d] = "accepted"}
Followings(x) == {d \in Pairs : d[1] = x /\ edge[d] = "accepted"}
Minus(n, k) == IF n > k THEN n - k ELSE 0

Init ==
  /\ CacheInit
  /\ edge = [d \in Pairs |-> "none"]
  /\ followerCount = [x \in Local |-> 0]
  /\ followingCount = [x \in Local |-> 0]
  /\ blocks = {} /\ mutes = {} /\ opBlocked = {}

(* The two gates every activity of a remote actor passes first.            *)
Heard(p) == p \notin opBlocked /\ p \notin tomb

(* actorIsBlockedBy and actorSuppressesInteractionFrom.                    *)
BlockedBy(y, x) == <<y, x>> \in blocks
SuppressedBy(y, x) == <<y, x>> \in blocks \union mutes

(* severFollowDirectionStatements over a set of edges: the counters lose   *)
(* what the edges contribute when the batch runs, and the edges go.        *)
Sever(D) ==
  /\ followingCount' = [x \in Local |->
       Minus(followingCount[x], Cardinality(D \intersect Followings(x)))]
  /\ followerCount' = [y \in Local |->
       Minus(followerCount[y], Cardinality(D \intersect Followers(y)))]
  /\ edge' = [d \in Pairs |-> IF d \in D THEN "none" ELSE edge[d]]

(* The edge becomes accepted and is counted at its local ends.             *)
Raise(d) ==
  /\ edge' = [edge EXCEPT ![d] = "accepted"]
  /\ followingCount' = [x \in Local |->
       followingCount[x] + (IF x = d[1] THEN 1 ELSE 0)]
  /\ followerCount' = [y \in Local |->
       followerCount[y] + (IF y = d[2] THEN 1 ELSE 0)]

Insert(d, status) ==
  IF status = "accepted" THEN Raise(d)
  ELSE /\ edge' = [edge EXCEPT ![d] = status]
       /\ UNCHANGED <<followerCount, followingCount>>

Erase(d) ==
  /\ edge' = [edge EXCEPT ![d] = "none"]
  /\ UNCHANGED <<followerCount, followingCount>>

Answer(y) == IF y \in Private THEN "pending" ELSE "accepted"
Edge(r) == <<req[r].by, req[r].on>>

-----------------------------------------------------------------------------
(* Requests of local accounts.                                             *)

(* POST /follow: not blocked, no edge; an actor that is not cached is      *)
(* fetched before the edge is written.                                     *)
Follow(r, x, y) ==
  /\ Free(r) /\ x # y /\ edge[<<x, y>>] = "none"
  /\ y \notin opBlocked /\ ~BlockedBy(y, x)
  /\ Wait(r, IF y \in Remote \ cached THEN "followFetch" ELSE "follow",
          x, y, "none")
  /\ UNCHANGED <<cacheVars, graphVars, modVars>>

(* follow_user, the tool of an assistant: local accounts only.             *)
ToolFollow(r, x, y) ==
  /\ Free(r) /\ x # y /\ y \in Local
  /\ edge[<<x, y>>] = "none" /\ ~BlockedBy(y, x)
  /\ Wait(r, "follow", x, y, "none")
  /\ UNCHANGED <<cacheVars, graphVars, modVars>>

(* handleLocalFollow: an edge that appeared meanwhile rolls the batch back *)
(* on the unique key.                                                      *)
LocalFollowWrite(r) ==
  /\ req[r].pc = "follow" /\ req[r].on \in Local
  /\ IF edge[Edge(r)] = "none" THEN Insert(Edge(r), Answer(req[r].on))
     ELSE UNCHANGED graphVars
  /\ Done(r)
  /\ UNCHANGED <<cacheVars, modVars>>

(* handleRemoteFollow: the pending edge with the Follow and its delivery.  *)
RemoteFollowWrite(r) ==
  /\ req[r].pc = "follow" /\ req[r].on \in Remote
  /\ IF edge[Edge(r)] = "none" THEN Insert(Edge(r), "pending")
     ELSE UNCHANGED graphVars
  /\ Done(r)
  /\ UNCHANGED <<cacheVars, modVars>>

(* DELETE /follow, and unfollow_user for a local target.                   *)
Unfollow(r, x, y) ==
  /\ Free(r) /\ x # y /\ edge[<<x, y>>] # "none"
  /\ Wait(r, "unfollow", x, y, edge[<<x, y>>])
  /\ UNCHANGED <<cacheVars, graphVars, modVars>>

ToolUnfollow(r, x, y) == y \in Local /\ Unfollow(r, x, y)

(* Mutant of UnfollowCounts: the decrement of the read alone.              *)
UnfollowCountsRead(d, seen) ==
  IF seen = "accepted"
  THEN /\ edge' = [edge EXCEPT ![d] = "none"]
       /\ followingCount' = [x \in Local |->
            Minus(followingCount[x], IF x = d[1] THEN 1 ELSE 0)]
       /\ followerCount' = [y \in Local |->
            Minus(followerCount[y], IF y = d[2] THEN 1 ELSE 0)]
  ELSE Erase(d)
(* The decrements are there when the edge was read accepted, and take      *)
(* effect while it still is; the edge goes in any case.                    *)
UnfollowCounts(d, seen) ==
  IF seen = "accepted" THEN Sever({d}) ELSE Erase(d)

UnfollowWrite(r) ==
  /\ req[r].pc = "unfollow"
  /\ UnfollowCounts(Edge(r), req[r].seen)
  /\ Done(r)
  /\ UNCHANGED <<cacheVars, modVars>>

(* POST /accept and POST /reject: the requester's edge is read as pending. *)
Accept(r, y, x) ==
  /\ Free(r) /\ x # y /\ edge[<<x, y>>] = "pending" /\ x \notin opBlocked
  /\ Wait(r, "accept", x, y, "pending")
  /\ UNCHANGED <<cacheVars, graphVars, modVars>>

Reject(r, y, x) ==
  /\ Free(r) /\ x # y /\ edge[<<x, y>>] = "pending"
  /\ Wait(r, "reject", x, y, "pending")
  /\ UNCHANGED <<cacheVars, graphVars, modVars>>

AcceptWrite(r) ==
  /\ req[r].pc = "accept"
  /\ IF edge[Edge(r)] = "pending" THEN Raise(Edge(r)) ELSE UNCHANGED graphVars
  /\ Done(r)
  /\ UNCHANGED <<cacheVars, modVars>>

(* POST /accept/batch reads every pending edge once and then accepts them  *)
(* one batch after another.                                                *)
AcceptBatch(r, y) ==
  LET asked == {x \in Actors \ ({y} \union opBlocked) :
                  edge[<<x, y>>] = "pending"} IN
  /\ Free(r) /\ asked # {}
  /\ req' = [req EXCEPT ![r] =
               [Slot("acceptAll", "none", y, "none") EXCEPT !.todo = asked]]
  /\ UNCHANGED <<cacheVars, graphVars, modVars>>

AcceptBatchStep(r) ==
  /\ req[r].pc = "acceptAll"
  /\ \E x \in req[r].todo :
       /\ IF edge[<<x, req[r].on>>] = "pending" THEN Raise(<<x, req[r].on>>)
          ELSE UNCHANGED graphVars
       /\ IF req[r].todo = {x} THEN Done(r)
          ELSE req' = [req EXCEPT ![r].todo = @ \ {x}]
  /\ UNCHANGED <<cacheVars, modVars>>

(* The route deletes the edge whatever it has become and touches no        *)
(* counter.                                                                *)
RejectWrite(r) ==
  /\ req[r].pc = "reject"
  /\ Erase(Edge(r))
  /\ Done(r)
  /\ UNCHANGED <<cacheVars, modVars>>

-----------------------------------------------------------------------------
(* Activities of remote actors.                                            *)

(* handleFollow.                                                           *)
InFollow(r, p, y) ==
  /\ Free(r) /\ Heard(p) /\ ~SuppressedBy(y, p) /\ edge[<<p, y>>] = "none"
  /\ Wait(r, "inFollow", p, y, "none")
  /\ UNCHANGED <<cacheVars, graphVars, modVars>>

InFollowWrite(r) ==
  /\ req[r].pc = "inFollow"
  /\ IF edge[Edge(r)] = "none" THEN Insert(Edge(r), Answer(req[r].on))
     ELSE UNCHANGED graphVars
  /\ Done(r)
  /\ UNCHANGED <<cacheVars, modVars>>

(* handleAccept, handleReject and handleUndo find the edge by the id of    *)
(* its Follow before they write.                                           *)
InAnswer(r, p, x, answer) ==
  /\ Free(r) /\ Heard(p) /\ edge[<<x, p>>] # "none"
  /\ Wait(r, answer, x, p, edge[<<x, p>>])
  /\ UNCHANGED <<cacheVars, graphVars, modVars>>

InAccept(r, p, x) == InAnswer(r, p, x, "inAccept")
InReject(r, p, x) == InAnswer(r, p, x, "inSever")

InUndo(r, p, y) ==
  /\ Free(r) /\ Heard(p)
  /\ Wait(r, "inSever", p, y, edge[<<p, y>>])
  /\ UNCHANGED <<cacheVars, graphVars, modVars>>

(* acceptRetainedFollowDirection: a counter gains what the edge does not   *)
(* yet contribute.                                                         *)
InAcceptWrite(r) ==
  /\ req[r].pc = "inAccept"
  /\ IF edge[Edge(r)] = "pending" THEN Raise(Edge(r)) ELSE UNCHANGED graphVars
  /\ Done(r)
  /\ UNCHANGED <<cacheVars, modVars>>

InSeverWrite(r) ==
  /\ req[r].pc = "inSever"
  /\ Sever({Edge(r)})
  /\ Done(r)
  /\ UNCHANGED <<cacheVars, modVars>>

(* handleRemoteActorDelete, one batch.                                     *)
DeleteActor(r, p) ==
  /\ Free(r) /\ Heard(p)
  /\ Sever({d \in Pairs : p \in {d[1], d[2]}})
  /\ DropActor(p)
  /\ Done(r)
  /\ UNCHANGED modVars

(* handleMove: the new account names the old one as its alias, and its     *)
(* document is refreshed, if it can be, before the graph is rewritten.     *)
Move(r, p, q) ==
  /\ Free(r) /\ Heard(p) /\ p # q
  /\ \/ /\ TombstoneAbsent(q)
        /\ cached' = cached \union {q}
        /\ fail' = [fail EXCEPT ![q] = NoFailure]
     \/ UNCHANGED <<cached, fail>>
  /\ Wait(r, "move", p, q, "none")
  /\ UNCHANGED <<tomb, graphVars, modVars>>

(* A followee loses the moved follower only when the new account already   *)
(* has an edge to it.                                                      *)
MoveCounts(p, q) ==
  [y \in Local |->
     IF edge[<<p, y>>] = "accepted" /\ edge[<<q, y>>] # "none"
     THEN Minus(followerCount[y], 1) ELSE followerCount[y]]

(* rewriteMovedFollowGraph: edges of the old account become the new one's  *)
(* where it has none; local followers follow again and wait.               *)
MoveEdges(p, q) ==
  [d \in Pairs |->
     CASE p \in {d[1], d[2]} -> "none"
       [] d[1] = q /\ edge[d] = "none" -> edge[<<p, d[2]>>]
       [] d[2] = q /\ edge[d] = "none" /\ edge[<<d[1], p>>] # "none" ->
            "pending"
       [] OTHER -> edge[d]]

MoveWrite(r) ==
  LET p == req[r].by  q == req[r].on IN
  /\ req[r].pc = "move"
  /\ followingCount' = [x \in Local |->
       Minus(followingCount[x], IF edge[<<x, p>>] = "accepted" THEN 1 ELSE 0)]
  /\ followerCount' = MoveCounts(p, q)
  /\ edge' = MoveEdges(p, q)
  /\ Done(r)
  /\ UNCHANGED <<cacheVars, modVars>>

-----------------------------------------------------------------------------
(* Moderation.                                                             *)

(* blockActorAndSeverFollowPair, one batch; deletePersonalActorBlock.      *)
Block(r, x, y) ==
  /\ Free(r) /\ x # y /\ ~BlockedBy(x, y)
  /\ blocks' = blocks \union {<<x, y>>}
  /\ Sever({<<x, y>>, <<y, x>>})
  /\ Done(r)
  /\ UNCHANGED <<cacheVars, mutes, opBlocked>>

Unblock(r, x, y) ==
  /\ Free(r) /\ BlockedBy(x, y)
  /\ blocks' = blocks \ {<<x, y>>}
  /\ Done(r)
  /\ UNCHANGED <<cacheVars, graphVars, mutes, opBlocked>>

Mute(r, x, y) ==
  /\ Free(r) /\ x # y /\ <<x, y>> \notin mutes
  /\ mutes' = mutes \union {<<x, y>>}
  /\ Done(r)
  /\ UNCHANGED <<cacheVars, graphVars, blocks, opBlocked>>

Unmute(r, x, y) ==
  /\ Free(r) /\ <<x, y>> \in mutes
  /\ mutes' = mutes \ {<<x, y>>}
  /\ Done(r)
  /\ UNCHANGED <<cacheVars, graphVars, blocks, opBlocked>>

(* POST /domains or /actors: the block, then the pages of the purge.       *)
OpBlock(r, p) ==
  /\ Free(r)
  /\ opBlocked' = opBlocked \union {p}
  /\ Wait(r, "purge", "none", p, "none")
  /\ UNCHANGED <<cacheVars, graphVars, blocks, mutes>>

OpUnblock(r, p) ==
  /\ Free(r) /\ p \in opBlocked
  /\ opBlocked' = opBlocked \ {p}
  /\ Done(r)
  /\ UNCHANGED <<cacheVars, graphVars, blocks, mutes>>

(* purgeRetainedInteractionEdges: a page (here one edge) of the blocked    *)
(* actor is deleted and its local ends are recounted; the request ends     *)
(* when nothing is left or when it gives up.                               *)
PurgePage(r) ==
  LET p == req[r].on
      left == {d \in Pairs : p \in {d[1], d[2]} /\ edge[d] # "none"} IN
  /\ req[r].pc = "purge"
  /\ \/ \E d \in left :
          /\ edge' = [edge EXCEPT ![d] = "none"]
          /\ followerCount' = [y \in Local |->
               IF y = d[2] THEN Cardinality(Followers(y) \ {d})
               ELSE followerCount[y]]
          /\ followingCount' = [x \in Local |->
               IF x = d[1] THEN Cardinality(Followings(x) \ {d})
               ELSE followingCount[x]]
          /\ UNCHANGED req
     \/ Done(r) /\ UNCHANGED graphVars
  /\ UNCHANGED <<cacheVars, modVars>>

-----------------------------------------------------------------------------
Related(p) == \E d \in Pairs : p \in {d[1], d[2]} /\ edge[d] # "none"

Next ==
  \/ CacheNext /\ UNCHANGED <<graphVars, modVars>>
  \/ \E r \in Requests, p \in Remote :
       Related(p) /\ p \notin opBlocked /\ Recover(r, p)
       /\ UNCHANGED <<graphVars, modVars>>
  \/ \E r \in Requests, x \in Local, y \in Actors :
       \/ Follow(r, x, y) \/ Unfollow(r, x, y)
       \/ ToolFollow(r, x, y) \/ ToolUnfollow(r, x, y)
       \/ Accept(r, x, y) \/ Reject(r, x, y)
       \/ Block(r, x, y) \/ Unblock(r, x, y) \/ Mute(r, x, y)
       \/ Unmute(r, x, y)
  \/ \E r \in Requests, p \in Remote, y \in Local :
       \/ InFollow(r, p, y) \/ InAccept(r, p, y) \/ InReject(r, p, y)
       \/ InUndo(r, p, y)
  \/ \E r \in Requests, p \in Remote :
       DeleteActor(r, p) \/ OpBlock(r, p) \/ OpUnblock(r, p)
  \/ \E r \in Requests, p, q \in Remote : Move(r, p, q)
  \/ \E r \in Requests, y \in Local : AcceptBatch(r, y)
  \/ \E r \in Requests :
       \/ LocalFollowWrite(r) \/ RemoteFollowWrite(r) \/ UnfollowWrite(r)
       \/ AcceptWrite(r) \/ AcceptBatchStep(r) \/ RejectWrite(r)
       \/ InFollowWrite(r)
       \/ InAcceptWrite(r) \/ InSeverWrite(r) \/ MoveWrite(r) \/ PurgePage(r)

Spec == Init /\ [][Next]_vars

TypeOK ==
  /\ CacheTypeOK
  /\ edge \in [Pairs -> {"none", "pending", "accepted"}]
  /\ followerCount \in [Local -> Nat] /\ followingCount \in [Local -> Nat]
  /\ blocks \subseteq Local \X Actors /\ mutes \subseteq Local \X Actors
  /\ opBlocked \subseteq Remote

(* No interleaving of the batches takes from a counter an edge that it     *)
(* never lost: a stored counter is at least the number of accepted edges.  *)
(* An under-count hides followers and, with the guards on zero, never      *)
(* heals.                                                                  *)
CountsCover ==
  \A x \in Local : /\ followerCount[x] >= Cardinality(Followers(x))
                   /\ followingCount[x] >= Cardinality(Followings(x))

=============================================================================
