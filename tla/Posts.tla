------------------------------- MODULE Posts -------------------------------
(***************************************************************************)
(* A Note, one reply to it and a story, with everything that hangs on      *)
(* them: likes, reposts, bookmarks, views, votes and shares, the counters  *)
(* kept beside them, and the activities sent out for the Note              *)
(* (routes/posts/, routes/stories/, routes/takos-tools/posts.ts).          *)
(*                                                                         *)
(* A route reads the object and the edge, prepares its statements, and     *)
(* commits them in one batch later.  Some batches check again that the     *)
(* object is there (guardObjectWrites, admissionGuard), some recompute a   *)
(* counter from its rows, some only add or subtract one.                   *)
(***************************************************************************)
EXTENDS Naturals, FiniteSets, Sequences

CONSTANTS
  Users,      \* local accounts
  Writer,     \* the author of the Note and of the story
  Replier,    \* the author of the reply
  Readers,    \* those whom Writer's objects are shown to
  Requests    \* bound: the requests of a behaviour, all concurrent

VARIABLES
  obj,        \* [Objects -> "none" | "live" | "gone"]
  expired,    \* the story is past its end time
  likes,      \* SUBSET (Users \X Objects)
  reposts,    \* SUBSET (Users \X Objects): announces
  marks,      \* SUBSET (Users \X Objects): bookmarks
  seen,       \* SUBSET ({"view", "vote", "share"} \X Users): story rows
  likeCount, repostCount, shareCount, replyCount,  \* columns of objects
  postCount,  \* [Users -> Nat]: a column of actors
  log,        \* Seq of activity types stored and sent for the Note
  req         \* [Requests -> slot]

edgeVars == <<likes, reposts, marks, seen>>
countVars == <<likeCount, repostCount, shareCount, replyCount>>
vars == <<obj, expired, likes, reposts, marks, seen, likeCount, repostCount,
          shareCount, replyCount, postCount, log, req>>

Objects == {"note", "reply", "story"}
AuthorOf(o) == IF o = "reply" THEN Replier ELSE Writer
Live(o) == obj[o] = "live"
CanSee(u, o) == Live(o) /\ (u \in Readers \/ u = AuthorOf(o))
CanSeeStory(u) == CanSee(u, "story") /\ ~expired
Minus(n, k) == IF n > k THEN n - k ELSE 0

Slot(pc, u, o) == [pc |-> pc, by |-> u, on |-> o]
Ended == Slot("ended", "none", "none")
Free(r) == req[r].pc = "new"
Done(r) == req' = [req EXCEPT ![r] = Ended]
Wait(r, pc, u, o) == req' = [req EXCEPT ![r] = Slot(pc, u, o)]

Init ==
  /\ obj = [o \in Objects |-> "none"] /\ expired = FALSE
  /\ likes = {} /\ reposts = {} /\ marks = {} /\ seen = {}
  /\ likeCount = [o \in Objects |-> 0] /\ repostCount = [o \in Objects |-> 0]
  /\ shareCount = 0 /\ replyCount = 0
  /\ postCount = [u \in Users |-> 0]
  /\ log = <<>>
  /\ req = [r \in Requests |-> [Ended EXCEPT !.pc = "new"]]

-----------------------------------------------------------------------------
(* Creating, editing, deleting.                                            *)

(* The Create of a Note, its fan-out and direct delivery jobs, prepared to *)
(* commit with the Note; and the Delete with its recipients.               *)
PreparedCreate == Append(log, "Create")
PreparedDelete(o) == IF o = "note" THEN Append(log, "Delete") ELSE log

(* POST /posts and create_post: object, counter and the Create with its    *)
(* fan-out in one batch.                                                   *)
CreatePost ==
  /\ obj["note"] = "none"
  /\ obj' = [obj EXCEPT !["note"] = "live"]
  /\ postCount' = [postCount EXCEPT ![Writer] = @ + 1]
  /\ log' = PreparedCreate
  /\ UNCHANGED <<expired, edgeVars, countVars, req>>

(* POST /stories.                                                          *)
CreateStory ==
  /\ obj["story"] = "none"
  /\ obj' = [obj EXCEPT !["story"] = "live"]
  /\ postCount' = [postCount EXCEPT ![Writer] = @ + 1]
  /\ UNCHANGED <<expired, edgeVars, countVars, log, req>>

(* A reply: its parent is readable.                                        *)
Reply(r) ==
  /\ Free(r) /\ obj["reply"] = "none" /\ CanSee(Replier, "note")
  /\ Wait(r, "reply", Replier, "reply")
  /\ UNCHANGED <<obj, expired, edgeVars, countVars, postCount, log>>

(* Replies on the parent's row are counted again by every batch.           *)
Replies(present) == IF present THEN 1 ELSE 0

(* preparePostInsertStatements: the batch fails when the parent has gone.  *)
ReplyWrite(r) ==
  /\ req[r].pc = "reply"
  /\ IF Live("note") /\ obj["reply"] = "none"
     THEN /\ obj' = [obj EXCEPT !["reply"] = "live"]
          /\ postCount' = [postCount EXCEPT ![Replier] = @ + 1]
          /\ replyCount' = Replies(TRUE)
     ELSE UNCHANGED <<obj, postCount, replyCount>>
  /\ Done(r)
  /\ UNCHANGED <<expired, edgeVars, likeCount, repostCount, shareCount, log>>

(* PATCH /posts/:id.                                                       *)
Edit(r) ==
  /\ Free(r) /\ Live("note")
  /\ Wait(r, "edit", Writer, "note")
  /\ UNCHANGED <<obj, expired, edgeVars, countVars, postCount, log>>

(* The row is updated where it is; the Update is stored in any case.       *)
EditWrite(r) ==
  /\ req[r].pc = "edit"
  /\ log' = Append(log, "Update")
  /\ Done(r)
  /\ UNCHANGED <<obj, expired, edgeVars, countVars, postCount>>

(* DELETE /posts/:id and delete_post.                                      *)
Delete(r, o) ==
  /\ Free(r) /\ Live(o)
  /\ Wait(r, "delete", AuthorOf(o), o)
  /\ UNCHANGED <<obj, expired, edgeVars, countVars, postCount, log>>

(* prepareObjectDeleteCascade: every row that hangs on the object.         *)
Cascade(o) ==
  /\ likes' = {e \in likes : e[2] # o}
  /\ reposts' = {e \in reposts : e[2] # o}
  /\ marks' = {e \in marks : e[2] # o}
  /\ seen' = IF o = "story" THEN {} ELSE seen

(* The decrement fires while the object is there, so exactly once.         *)
PostCountAfter(o) ==
  IF Live(o) THEN [postCount EXCEPT ![AuthorOf(o)] = Minus(@, 1)]
  ELSE postCount

DeleteWrite(r) ==
  LET o == req[r].on IN
  /\ req[r].pc = "delete"
  /\ Cascade(o)
  /\ postCount' = PostCountAfter(o)
  /\ obj' = [obj EXCEPT ![o] = "gone"]
  /\ replyCount' = IF o = "reply" THEN Replies(FALSE) ELSE replyCount
  /\ log' = PreparedDelete(o)
  /\ Done(r)
  /\ UNCHANGED <<expired, likeCount, repostCount, shareCount>>

(* POST /stories/delete: the cascade commits before the row goes.          *)
DeleteStory(r) ==
  /\ Free(r) /\ Live("story")
  /\ Wait(r, "storyCascade", Writer, "story")
  /\ UNCHANGED <<obj, expired, edgeVars, countVars, postCount, log>>

StoryCascade(r) ==
  /\ req[r].pc \in {"storyCascade", "sweepCascade"}
  /\ Cascade("story")
  /\ Wait(r, IF req[r].pc = "storyCascade" THEN "storyDelete"
             ELSE "sweepDelete", Writer, "story")
  /\ UNCHANGED <<obj, expired, countVars, postCount, log>>

DeleteStoryWrite(r) ==
  /\ req[r].pc = "storyDelete"
  /\ postCount' = PostCountAfter("story")
  /\ obj' = [obj EXCEPT !["story"] = "gone"]
  /\ Done(r)
  /\ UNCHANGED <<expired, edgeVars, countVars, log>>

(* Twenty-four hours pass.                                                 *)
Expire ==
  /\ Live("story") /\ ~expired
  /\ expired' = TRUE
  /\ UNCHANGED <<obj, edgeVars, countVars, postCount, log, req>>

(* cleanupExpiredStories: select, cascade, delete returning the rows this  *)
(* sweep removed, and only then the author's counter.                      *)
Sweep(r) ==
  /\ Free(r) /\ Live("story") /\ expired
  /\ Wait(r, "sweepCascade", Writer, "story")
  /\ UNCHANGED <<obj, expired, edgeVars, countVars, postCount, log>>

(* What the DELETE of the sweep returned.                                  *)
Swept(r) == {o \in {"story"} : Live(o)}

SweepDelete(r) ==
  /\ req[r].pc = "sweepDelete"
  /\ obj' = [obj EXCEPT !["story"] = "gone"]
  /\ IF Swept(r) # {} THEN Wait(r, "sweepCount", Writer, "story") ELSE Done(r)
  /\ UNCHANGED <<expired, edgeVars, countVars, postCount, log>>

SweepCount(r) ==
  /\ req[r].pc = "sweepCount"
  /\ postCount' = [postCount EXCEPT ![Writer] = Minus(@, 1)]
  /\ Done(r)
  /\ UNCHANGED <<obj, expired, edgeVars, countVars, log>>

(* A request or the sweep dies between two of its statements.              *)
Crash(r) ==
  /\ req[r].pc \notin {"new", "ended"}
  /\ Done(r)
  /\ UNCHANGED <<obj, expired, edgeVars, countVars, postCount, log>>

-----------------------------------------------------------------------------
(* Interactions.                                                           *)

(* Mutant of Guarded: the target is not checked again.                     *)
GuardedNever(o) == TRUE
(* guardObjectWrites: the target is there when the batch commits.          *)
Guarded(o) == Live(o)

(* POST like and like_post.                                                *)
Like(r, u, o) ==
  /\ Free(r) /\ CanSee(u, o) /\ <<u, o>> \notin likes
  /\ Wait(r, "like", u, o)
  /\ UNCHANGED <<obj, expired, edgeVars, countVars, postCount, log>>

Unlike(r, u, o) ==
  /\ Free(r) /\ Live(o) /\ <<u, o>> \in likes
  /\ Wait(r, "unlike", u, o)
  /\ UNCHANGED <<obj, expired, edgeVars, countVars, postCount, log>>

(* setPostLike: the counter is computed from the edges after the change.   *)
Counted(E, o) == Cardinality({e \in E : e[2] = o})

LikeWrite(r) ==
  LET e == <<req[r].by, req[r].on>> IN
  /\ req[r].pc = "like"
  /\ IF Guarded(e[2]) /\ e \notin likes
     THEN /\ likes' = likes \union {e}
          /\ likeCount' = [likeCount EXCEPT ![e[2]] =
                             IF Live(e[2]) THEN Counted(likes', e[2]) ELSE @]
     ELSE UNCHANGED <<likes, likeCount>>
  /\ Done(r)
  /\ UNCHANGED <<obj, expired, reposts, marks, seen, repostCount, shareCount,
                 replyCount, postCount, log>>

(* The counter after an unlike: the likes that remain.                     *)
UnlikeCount(e) == Counted(likes \ {e}, e[2])

UnlikeWrite(r) ==
  LET e == <<req[r].by, req[r].on>> IN
  /\ req[r].pc = "unlike"
  /\ likes' = likes \ {e}
  /\ likeCount' = [likeCount EXCEPT ![e[2]] =
                     IF Live(e[2]) THEN UnlikeCount(e) ELSE @]
  /\ Done(r)
  /\ UNCHANGED <<obj, expired, reposts, marks, seen, repostCount, shareCount,
                 replyCount, postCount, log>>

(* POST and DELETE repost; a story cannot be reposted.                     *)
Repost(r, u, o) ==
  /\ Free(r) /\ o # "story" /\ CanSee(u, o) /\ <<u, o>> \notin reposts
  /\ Wait(r, "repost", u, o)
  /\ UNCHANGED <<obj, expired, edgeVars, countVars, postCount, log>>

RepostWrite(r) ==
  LET e == <<req[r].by, req[r].on>> IN
  /\ req[r].pc = "repost"
  /\ IF Guarded(e[2]) /\ e \notin reposts
     THEN /\ reposts' = reposts \union {e}
          /\ repostCount' = [repostCount EXCEPT ![e[2]] =
                               IF Live(e[2]) THEN @ + 1 ELSE @]
     ELSE UNCHANGED <<reposts, repostCount>>
  /\ Done(r)
  /\ UNCHANGED <<obj, expired, likes, marks, seen, likeCount, shareCount,
                 replyCount, postCount, log>>

Unrepost(r, u, o) ==
  /\ Free(r) /\ Live(o) /\ <<u, o>> \in reposts
  /\ Wait(r, "unrepost", u, o)
  /\ UNCHANGED <<obj, expired, edgeVars, countVars, postCount, log>>

UnrepostWrite(r) ==
  LET e == <<req[r].by, req[r].on>> IN
  /\ req[r].pc = "unrepost"
  /\ reposts' = reposts \ {e}
  /\ repostCount' = [repostCount EXCEPT ![e[2]] =
                       IF Live(e[2]) THEN Minus(@, 1) ELSE @]
  /\ Done(r)
  /\ UNCHANGED <<obj, expired, likes, marks, seen, likeCount, shareCount,
                 replyCount, postCount, log>>

(* POST bookmark; its counterpart of the assistant does not check the      *)
(* target again (togglePostRelation).                                      *)
Bookmark(r, u, o, pc) ==
  /\ Free(r) /\ CanSee(u, o) /\ <<u, o>> \notin marks
  /\ Wait(r, pc, u, o)
  /\ UNCHANGED <<obj, expired, edgeVars, countVars, postCount, log>>

BookmarkWrite(r) ==
  LET e == <<req[r].by, req[r].on>> IN
  /\ req[r].pc \in {"mark", "toolMark"}
  /\ marks' = IF req[r].pc = "mark" /\ ~Guarded(e[2]) THEN marks
              ELSE marks \union {e}
  /\ Done(r)
  /\ UNCHANGED <<obj, expired, likes, reposts, seen, countVars, postCount, log>>

Unbookmark(r, u, o) ==
  /\ Free(r) /\ Live(o) /\ <<u, o>> \in marks
  /\ marks' = marks \ {<<u, o>>}
  /\ Done(r)
  /\ UNCHANGED <<obj, expired, likes, reposts, seen, countVars, postCount, log>>

-----------------------------------------------------------------------------
(* Stories: rows and counters without a second look at the story.          *)

StoryRow(r, u, kind) ==
  /\ Free(r) /\ CanSeeStory(u) /\ <<kind, u>> \notin seen
  /\ kind = "vote" => u # Writer
  /\ Wait(r, kind, u, "story")
  /\ UNCHANGED <<obj, expired, edgeVars, countVars, postCount, log>>

View(r, u) == StoryRow(r, u, "view")
Vote(r, u) == StoryRow(r, u, "vote")
Share(r, u) == StoryRow(r, u, "share")

(* The insert of a view, a vote, or a share with its counter.              *)
StoryRowWrite(r) ==
  LET e == <<req[r].pc, req[r].by>> IN
  /\ req[r].pc \in {"view", "vote", "share"}
  /\ seen' = seen \union {e}
  /\ shareCount' = IF req[r].pc = "share" /\ e \notin seen /\ Live("story")
                   THEN shareCount + 1 ELSE shareCount
  /\ Done(r)
  /\ UNCHANGED <<obj, expired, likes, reposts, marks, likeCount, repostCount,
                 replyCount, postCount, log>>

LikeStory(r, u) ==
  /\ Free(r) /\ CanSeeStory(u) /\ <<u, "story">> \notin likes
  /\ Wait(r, "likeStory", u, "story")
  /\ UNCHANGED <<obj, expired, edgeVars, countVars, postCount, log>>

LikeStoryWrite(r) ==
  LET e == <<req[r].by, "story">> IN
  /\ req[r].pc = "likeStory"
  /\ IF e \in likes THEN UNCHANGED <<likes, likeCount>>
     ELSE /\ likes' = likes \union {e}
          /\ likeCount' = [likeCount EXCEPT !["story"] =
                             IF Live("story") THEN @ + 1 ELSE @]
  /\ Done(r)
  /\ UNCHANGED <<obj, expired, reposts, marks, seen, repostCount, shareCount,
                 replyCount, postCount, log>>

UnlikeStory(r, u) ==
  /\ Free(r) /\ Live("story") /\ <<u, "story">> \in likes
  /\ Wait(r, "unlikeStory", u, "story")
  /\ UNCHANGED <<obj, expired, edgeVars, countVars, postCount, log>>

UnlikeStoryWrite(r) ==
  /\ req[r].pc = "unlikeStory"
  /\ likes' = likes \ {<<req[r].by, "story">>}
  /\ likeCount' = [likeCount EXCEPT !["story"] =
                     IF Live("story") THEN Minus(@, 1) ELSE @]
  /\ Done(r)
  /\ UNCHANGED <<obj, expired, reposts, marks, seen, repostCount, shareCount,
                 replyCount, postCount, log>>

-----------------------------------------------------------------------------
Next ==
  \/ CreatePost \/ CreateStory \/ Expire
  \/ \E r \in Requests :
       \/ Reply(r) \/ ReplyWrite(r) \/ Edit(r) \/ EditWrite(r)
       \/ DeleteWrite(r) \/ DeleteStory(r) \/ StoryCascade(r)
       \/ DeleteStoryWrite(r) \/ Sweep(r) \/ SweepDelete(r) \/ SweepCount(r)
       \/ LikeWrite(r) \/ UnlikeWrite(r) \/ RepostWrite(r)
       \/ UnrepostWrite(r) \/ BookmarkWrite(r) \/ StoryRowWrite(r)
       \/ LikeStoryWrite(r) \/ UnlikeStoryWrite(r) \/ Crash(r)
  \/ \E r \in Requests, o \in Objects : Delete(r, o)
  \/ \E r \in Requests, u \in Users :
       \/ View(r, u) \/ Vote(r, u) \/ Share(r, u)
       \/ LikeStory(r, u) \/ UnlikeStory(r, u)
  \/ \E r \in Requests, u \in Users, o \in Objects :
       \/ Like(r, u, o) \/ Unlike(r, u, o)
       \/ Repost(r, u, o) \/ Unrepost(r, u, o)
       \/ Bookmark(r, u, o, "mark") \/ Bookmark(r, u, o, "toolMark")
       \/ Unbookmark(r, u, o)

Spec == Init /\ [][Next]_vars

TypeOK ==
  /\ obj \in [Objects -> {"none", "live", "gone"}] /\ expired \in BOOLEAN
  /\ likes \subseteq Users \X Objects /\ reposts \subseteq Users \X Objects
  /\ marks \subseteq Users \X Objects
  /\ seen \subseteq {"view", "vote", "share"} \X Users
  /\ likeCount \in [Objects -> Nat] /\ repostCount \in [Objects -> Nat]
  /\ shareCount \in Nat /\ replyCount \in Nat /\ postCount \in [Users -> Nat]

(* Deleting a post, deleting a story and the expiry sweep race over the    *)
(* same object, and "each story is counted exactly once" (query-helpers.ts *)
(* :367): an author's post counter never falls below the author's objects. *)
PostCountCovers ==
  \A u \in Users :
    postCount[u] >= Cardinality({o \in Objects : Live(o) /\ AuthorOf(o) = u})

(* A like or a repost that was read before its Note was deleted does not   *)
(* land after the cascade: no edge outlives its object (guardObjectWrites) *)
(* for as long as no cascade will come again.                              *)
EdgesHaveObject ==
  \A e \in likes \union reposts : e[2] # "story" => Live(e[2])

(* Likes of a Note are counted exactly, and the reply counter of a live    *)
(* Note is the number of its replies, in every order of the batches.       *)
RecountsExact ==
  /\ \A o \in Objects \ {"story"} : Live(o) => likeCount[o] = Counted(likes, o)
  /\ Live("note") => replyCount = Replies(Live("reply"))

(* The activities stored for the Note tell what became of it, in whatever  *)
(* order requests commit: its Create comes first, and there is a Delete    *)
(* exactly when the Note is gone (prepareCreatedPostFederation,            *)
(* prepareDeletedPostFederation).  An Update may come behind the Delete:   *)
(* the batch of an edit does not assert that the row is there.             *)
ActivitiesTell ==
  /\ obj["note"] = "none" <=> log = <<>>
  /\ log # <<>> => log[1] = "Create"
  /\ obj["note"] = "gone" <=> \E i \in DOMAIN log : log[i] = "Delete"

=============================================================================
