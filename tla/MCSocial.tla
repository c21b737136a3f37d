------------------------------ MODULE MCSocial ------------------------------
(***************************************************************************)
(* What accounts do to one another: talks, communities, follows and posts. *)
(* The parts share no state: a behaviour is one of the part it begins with *)
(* and the others stay at their initial states.                            *)
(***************************************************************************)
EXTENDS DirectMessages, TLC

CONSTANTS
  Clients,     \* bound: requests to communities, follows and posts
  Accounts,    \* local accounts; all of them but Owner follow and post
  Distant,     \* remote actors
  Owner, Ann, Bob, Pat

ASSUME SocialAssumption ==
  /\ IsFiniteSet(Accounts) /\ IsFiniteSet(Distant) /\ Accounts \cap Distant = {}
  /\ {Owner, Ann, Bob} \subseteq Accounts /\ Pat \in Distant
  /\ Owner \notin {Ann, Bob} /\ Ann # Bob

VARIABLES
  part,
  comm, role, count, roomEdge, banned, asked, invite, entered, roomMsg,
  deleting, roomReq,
  cached, tomb, fail, followReq, followEdge, followerCount, followingCount,
  blocks, mutes, opBlocked,
  obj, expired, likes, reposts, marks, seen, likeCount, repostCount,
  shareCount, replyCount, postCount, log, postReq

(* Communities that need an invite, and private ones that anyone may join. *)
MCPolicies ==
  {[visibility |-> "public", join |-> "invite", post |-> "anyone"],
   [visibility |-> "private", join |-> "open", post |-> "members"]}

Rooms == INSTANCE Communities WITH
  Users <- Accounts, Peers <- Remote, Requests <- Clients,
  Policies <- MCPolicies, edge <- roomEdge, msg <- roomMsg, req <- roomReq

Fellows == Accounts \ {Owner}

Graph == INSTANCE FollowGraph WITH
  Local <- Fellows, Private <- {Bob}, Remote <- Distant,
  Requests <- Clients, req <- followReq, edge <- followEdge

Board == INSTANCE Posts WITH
  Users <- Fellows, Writer <- Ann, Replier <- Bob, Readers <- {Bob},
  Requests <- Clients, req <- postReq

roomVars == <<comm, role, count, roomEdge, banned, asked, invite, entered,
              roomMsg, deleting, roomReq>>
graphVars == <<cached, tomb, fail, followReq, followEdge, followerCount,
               followingCount, blocks, mutes, opBlocked>>

boardVars == <<obj, expired, likes, reposts, marks, seen, likeCount,
               repostCount, shareCount, replyCount, postCount, log, postReq>>

(* Follows and posts have no state while they do not run.                  *)
NoGraph ==
  /\ cached = 0 /\ tomb = 0 /\ fail = 0 /\ followReq = 0 /\ followEdge = 0
  /\ followerCount = 0 /\ followingCount = 0 /\ blocks = 0 /\ mutes = 0
  /\ opBlocked = 0

NoBoard ==
  /\ obj = 0 /\ expired = 0 /\ likes = 0 /\ reposts = 0 /\ marks = 0
  /\ seen = 0 /\ likeCount = 0 /\ repostCount = 0 /\ shareCount = 0
  /\ replyCount = 0 /\ postCount = 0 /\ log = 0 /\ postReq = 0

(* A community with a member who has written the message.                  *)
RoomInUse ==
  /\ \E join \in {"open", "approval"} :
       comm = [state |-> "live", visibility |-> "private", join |-> join,
               post |-> "members"]
  /\ role = [u \in Accounts |-> CASE u = Owner -> "owner" [] u = Ann -> "member"
                                [] OTHER -> "none"]
  /\ count = 2 /\ roomMsg = [by |-> Ann, rev |-> 1]
  /\ roomEdge = [p \in Remote |-> "none"] /\ banned = {} /\ invite = "none"
  /\ asked = [u \in Accounts |-> IF u = Ann THEN "accepted" ELSE "none"]
  /\ entered = {} /\ deleting = {}
  /\ roomReq = [c \in Clients |-> [Rooms!Ended EXCEPT !.pc = "new"]]

(* Accounts that follow each other, and one of them somebody else.         *)
GraphInUse ==
  LET edges == {<<Ann, Bob>>, <<Bob, Ann>>, <<Ann, Pat>>} IN
  /\ cached = {Pat} /\ tomb = {}
  /\ fail = [p \in Distant |-> Graph!NoFailure]
  /\ followReq = [c \in Clients |-> [Graph!Ended EXCEPT !.pc = "new"]]
  /\ followEdge = [d \in Graph!Pairs |->
                     IF d \in edges THEN "accepted" ELSE "none"]
  /\ followerCount = [x \in Fellows |-> IF x \in {Ann, Bob} THEN 1 ELSE 0]
  /\ followingCount = [x \in Fellows |-> CASE x = Ann -> 2 [] x = Bob -> 1 [] OTHER -> 0]
  /\ blocks = {} /\ mutes = {} /\ opBlocked = {}

(* A Note with a reply and with two likes, one of them of its author.      *)
BoardInUse ==
  /\ obj = [o \in Board!Objects |-> IF o = "story" THEN "none" ELSE "live"]
  /\ likes = {<<Ann, "note">>, <<Bob, "note">>}
  /\ likeCount = [o \in Board!Objects |-> IF o = "note" THEN 2 ELSE 0]
  /\ reposts = {} /\ marks = {} /\ seen = {} /\ expired = FALSE
  /\ repostCount = [o \in Board!Objects |-> 0] /\ shareCount = 0
  /\ replyCount = 1 /\ postCount = [u \in Fellows |-> IF u \in {Ann, Bob} THEN 1 ELSE 0]
  /\ log = <<"Create">>
  /\ postReq = [c \in Clients |-> [Board!Ended EXCEPT !.pc = "new"]]

(* Communities and posts begin empty or in use, follows in use.            *)
MCInit ==
  /\ Init
  /\ \/ part = "talks" /\ Rooms!Init /\ NoGraph /\ NoBoard
     \/ /\ marker = {} /\ NoGraph /\ NoBoard
        /\ part = "rooms" /\ (Rooms!Init \/ RoomInUse)
     \/ /\ marker = {} /\ Rooms!Init /\ NoBoard
        /\ part = "graph" /\ GraphInUse
     \/ /\ marker = {} /\ Rooms!Init /\ NoGraph
        /\ part = "board" /\ (Board!Init \/ BoardInUse)

TalkStep ==
  /\ part = "talks" /\ Next
  /\ UNCHANGED <<part, roomVars, graphVars, boardVars>>
RoomStep ==
  /\ part = "rooms" /\ Rooms!Next
  /\ UNCHANGED <<part, vars, graphVars, boardVars>>
GraphStep ==
  /\ part = "graph" /\ Graph!Next
  /\ UNCHANGED <<part, vars, roomVars, boardVars>>
BoardStep ==
  /\ part = "board" /\ Board!Next
  /\ UNCHANGED <<part, vars, roomVars, graphVars>>

MCNext == TalkStep \/ RoomStep \/ GraphStep \/ BoardStep

MCSpec == MCInit /\ [][MCNext]_<<part, vars, roomVars, graphVars, boardVars>>

(* Requests are interchangeable, and so are messages.  (An odd permutation *)
(* of the clients also swaps the two requests of the talks, which keeps    *)
(* the group small: no behaviour has requests of both kinds.)              *)
Symmetry ==
  {f \in Permutations(Clients \cup Requests \cup Msgs) :
     /\ \A S \in {Clients, Requests, Msgs} : \A x \in S : f[x] \in S
     /\ Cardinality({c \in Clients : f[c] = c}) = 1
          <=> \A r \in Requests : f[r] # r}

(* Direct messages: the receipts of a community belong to the membership   *)
(* they were made in, and a remote peer is sent what the row of a message  *)
(* said, in its order, and nothing after the Delete (DirectMessages).      *)
TalksSound == TypeOK /\ ReceiptsOfEpoch /\ WireFollowsRow

(* Communities: member_count is the number of member rows, and an invite   *)
(* lets one account in, whatever joins, removals and teardowns overlap     *)
(* (Communities).                                                          *)
RoomsSound ==
  part = "rooms" =>
    Rooms!TypeOK /\ Rooms!CountMatches /\ Rooms!InviteAdmitsOne

(* Follows: no counter falls below the accepted edges it counts, and no    *)
(* actor is cached who has a tombstone or a lasting refusal, whatever      *)
(* fetches and deletions overlap (FollowGraph, ActorCache).                *)
GraphSound ==
  part = "graph" =>
    /\ Graph!TypeOK /\ Graph!CountsCover
    /\ Graph!TombstonedNotCached /\ Graph!CachedNotRefused

(* Posts: an author's counter covers the author's objects, no like or      *)
(* repost outlives its Note, the counters that are recomputed are exact,   *)
(* and the activities stored for the Note say whether it is there, in      *)
(* every order of the batches (Posts).                                     *)
BoardSound ==
  part = "board" =>
    /\ Board!TypeOK /\ Board!PostCountCovers
    /\ Board!EdgesHaveObject /\ Board!RecountsExact /\ Board!ActivitiesTell

(* A write whose request was admitted earlier does only what it may do at  *)
(* the moment it commits: reading, entering exact mode, archiving and      *)
(* rejecting touch their own scope (DirectMessages), and a message of a    *)
(* community is changed by somebody who may change it (Communities).       *)
WritesInScope ==
  /\ ReadsScoped /\ InitKeepsUnread /\ ArchiveScoped /\ AnsweredNotRejected
  /\ Rooms!MessageWritesAdmitted
=============================================================================
