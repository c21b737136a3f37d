--------------------------- MODULE DirectMessages ---------------------------
(***************************************************************************)
(* The conversations of one local account: direct messages to and from     *)
(* peers, one community chat, what the account has read, archived and      *)
(* rejected (routes/dm/, lib/talk-read-receipts.ts, lib/talk-peer-         *)
(* archives.ts, lib/unread-counts.ts, routes/takos-tools/dm.ts).           *)
(*                                                                         *)
(* A request resolves its scope (peer or community, thread, and for a      *)
(* community the time the viewer joined) and commits its batch later.  A   *)
(* batch begins and ends with assertions on what must still hold.  Threads *)
(* of different peers may have the same historical conversation ID.        *)
(***************************************************************************)
EXTENDS Naturals, Sequences, FiniteSets

CONSTANTS
  Local,      \* peers with an account on this server
  Remote,     \* peers elsewhere
  Group,      \* the community
  Shared,     \* the peers share one historical conversation ID
  Msgs,       \* bound: messages of a behaviour
  Requests,   \* bound: requests of a behaviour, all concurrent
  MaxTime,    \* bound of the clock
  MaxRev      \* bound of a message's edits

ASSUME TalkAssumption ==
  /\ Group \notin Local \union Remote /\ Group # "legacy"
  /\ MaxTime \in Nat \ {0} /\ MaxRev \in Nat /\ Shared \in BOOLEAN

VARIABLES
  clock,
  msg,        \* [Msgs -> row], see Row
  wire,       \* [Msgs -> Seq of "Update"/"Delete" with the text]: intents
  epoch,      \* when the viewer joined Group; 0: no member
  mode,       \* [Scopes -> epoch of the exact mode, or NoMode]
  reads,      \* SUBSET (Msgs \X epochs): messages read, exact mode
  lastRead,   \* [threads -> time]: read up to, timestamp mode
  marker,     \* the coarse archive marker of a thread, and
  expanded,   \* whether it was turned into peer archives
  archived,   \* SUBSET Peers: peer archives
  blocked,    \* SUBSET Peers: by the viewer
  req         \* [Requests -> slot]

readVars == <<epoch, mode, reads, lastRead>>
archiveVars == <<marker, expanded, archived>>
vars == <<clock, msg, wire, epoch, mode, reads, lastRead, marker, expanded,
          archived, blocked, req>>

Peers == Local \union Remote
Scopes == Peers \union {Group}
NoMode == MaxTime + 1
(* resolveConversationId: the thread of earlier messages, else the pair's. *)
Thread(s) == IF Shared /\ s \in Peers THEN "legacy" ELSE s
Threads == {Thread(s) : s \in Scopes}

Row(st, s, mine, at, row) ==
  [st |-> st, peer |-> s, mine |-> mine, at |-> at, rev |-> 0, row |-> row]
NoRow == Row("none", Group, FALSE, 0, FALSE)
Live(m) == msg[m].st = "live"

Slot(pc, s, ids, at) ==
  [pc |-> pc, s |-> s, ids |-> ids, at |-> at, e |-> 0, rev |-> 0]
Ended == Slot("ended", Group, {}, 0)
Free(r) == req[r].pc = "new"
Done(r) == req' = [req EXCEPT ![r] = Ended]

Init ==
  /\ clock = 1 /\ msg = [m \in Msgs |-> NoRow] /\ wire = [m \in Msgs |-> <<>>]
  /\ epoch = 1 /\ mode = [s \in Scopes |-> NoMode] /\ reads = {}
  /\ lastRead = [t \in Threads |-> 0]
  /\ marker \in SUBSET {Thread(p) : p \in Peers} /\ expanded = {}
  /\ archived = {} /\ blocked = {}
  /\ req = [r \in Requests |-> [Ended EXCEPT !.pc = "new"]]

-----------------------------------------------------------------------------
(* Messages.                                                               *)

(* A message from a peer or in the community; what a remote server sends   *)
(* carries its own time.                                                   *)
Arrive(m, s, lag) ==
  /\ msg[m] = NoRow /\ s \notin blocked
  /\ lag = 0 \/ s \in Remote
  /\ msg' = [msg EXCEPT ![m] = Row("live", s, FALSE, clock - lag, TRUE)]
  /\ UNCHANGED <<clock, wire, readVars, archiveVars, blocked, req>>

(* POST /dm/user/:peer/messages and send_dm: the batch of a local peer     *)
(* writes the recipient row, the batch of a remote peer does not.          *)
Send(m, p) ==
  /\ msg[m] = NoRow
  /\ msg' = [msg EXCEPT ![m] = Row("live", p, TRUE, clock, p \in Local)]
  /\ UNCHANGED <<clock, wire, readVars, archiveVars, blocked, req>>

(* PATCH and DELETE /dm/messages/:id: the row and its revision are read.   *)
Own(r, m, pc) ==
  /\ Free(r) /\ Live(m) /\ msg[m].mine /\ msg[m].rev < MaxRev
  /\ req' = [req EXCEPT ![r] =
               [Slot(pc, msg[m].peer, {m}, clock) EXCEPT !.rev = msg[m].rev]]
  /\ UNCHANGED <<clock, msg, wire, readVars, archiveVars, blocked>>

(* guardedOwnedDm: the row is the one that was read.                       *)
SameRow(r, m) == Live(m) /\ msg[m].rev = req[r].rev

(* prepareDmMutationDelivery: an intent for each remote recipient.         *)
Intent(m, kind, text) ==
  IF msg[m].peer \in Remote
  THEN [wire EXCEPT ![m] = Append(@, [kind |-> kind, text |-> text])]
  ELSE wire

EditWrite(r) ==
  /\ req[r].pc = "edit"
  /\ \A m \in req[r].ids :
       IF SameRow(r, m)
       THEN /\ msg' = [msg EXCEPT ![m].rev = req[r].rev + 1]
            /\ wire' = Intent(m, "Update", req[r].rev + 1)
       ELSE UNCHANGED <<msg, wire>>
  /\ Done(r)
  /\ UNCHANGED <<clock, readVars, archiveVars, blocked>>

(* Rows of talk_message_reads go with their message (a trigger).           *)
ReadsWithout(gone) == {x \in reads : x[1] \notin gone}

DeleteWrite(r) ==
  /\ req[r].pc = "delete"
  /\ \A m \in req[r].ids :
       IF SameRow(r, m)
       THEN /\ msg' = [msg EXCEPT ![m].st = "gone"]
            /\ wire' = Intent(m, "Delete", msg[m].rev)
            /\ reads' = ReadsWithout({m})
       ELSE UNCHANGED <<msg, wire, reads>>
  /\ Done(r)
  /\ UNCHANGED <<clock, epoch, mode, lastRead, archiveVars, blocked>>

-----------------------------------------------------------------------------
(* Reading.                                                                *)

(* A message of the scope that the viewer may read.                        *)
Readable(m, s) == Live(m) /\ msg[m].peer = s /\ msg[m].row

(* Mutant of Authorized: any membership.                                   *)
AuthorizedMember(s, e) == s = Group => epoch # 0
(* scopeAuthorized: the viewer is still, and has always been, a member.    *)
Authorized(s, e) == s = Group => epoch # 0 /\ epoch = e

EpochOf(s) == IF s = Group THEN epoch ELSE 0
Exact(s, e) == mode[s] = e
Baseline(s, e) ==
  IF lastRead[Thread(s)] # 0 THEN lastRead[Thread(s)] ELSE e

(* Mutant of Ambiguous: the shared timestamp is always advanced.           *)
AmbiguousNever(s) == FALSE
(* ambiguousLegacyThreadSql: the thread holds messages of another peer.    *)
Ambiguous(s) ==
  /\ s \in Peers
  /\ \E m \in Msgs : /\ Live(m) /\ msg[m].row
                     /\ msg[m].peer \in Peers \ {s}
                     /\ Thread(msg[m].peer) = Thread(s)

(* unreadTalkObjectSql.                                                    *)
Unread(m) ==
  LET s == msg[m].peer IN
  /\ Live(m) /\ ~msg[m].mine /\ (s = Group => epoch # 0)
  /\ IF Exact(s, EpochOf(s)) THEN <<m, EpochOf(s)>> \notin reads
     ELSE msg[m].at > Baseline(s, EpochOf(s))

(* observedScope and the legacy routes: membership is read here.           *)
Open(r, pc, s, ids) ==
  /\ Free(r) /\ (s = Group => epoch # 0)
  /\ req' = [req EXCEPT ![r] = [Slot(pc, s, ids, clock) EXCEPT !.e = EpochOf(s)]]
  /\ UNCHANGED <<clock, msg, wire, readVars, archiveVars, blocked>>

(* The rows an entry into exact mode writes: what the timestamp has read.  *)
Seeded(s, e) ==
  {<<m, e>> : m \in {n \in Msgs : Readable(n, s)
                                  /\ msg[n].at <= Baseline(s, e)}}

(* initializeObservedReads.                                                *)
InitWrite(r) ==
  LET s == req[r].s e == req[r].e IN
  /\ req[r].pc = "init"
  /\ IF Authorized(s, e) /\ ~Exact(s, e)
     THEN /\ reads' = reads \union Seeded(s, e)
          /\ mode' = [mode EXCEPT ![s] = e]
     ELSE UNCHANGED <<reads, mode>>
  /\ Done(r)
  /\ UNCHANGED <<clock, msg, wire, epoch, lastRead, archiveVars, blocked>>

(* acknowledgeObservedReads: all the listed messages, or none.             *)
AckWrite(r) ==
  LET s == req[r].s e == req[r].e IN
  /\ req[r].pc = "ack"
  /\ reads' = IF /\ Authorized(s, e) /\ Exact(s, e)
                 /\ \A m \in req[r].ids : Readable(m, s)
              THEN reads \union {<<m, e>> : m \in req[r].ids}
              ELSE reads
  /\ Done(r)
  /\ UNCHANGED <<clock, msg, wire, epoch, mode, lastRead, archiveVars, blocked>>

(* applyLegacyTalkRead: a thread with another peer's messages goes into    *)
(* exact mode instead of moving the shared timestamp.                      *)
ReadWrite(r) ==
  LET s == req[r].s e == req[r].e
      exact == Exact(s, e) \/ Ambiguous(s)
      all == {<<m, e>> : m \in {n \in Msgs : Readable(n, s)}}
  IN
  /\ req[r].pc = "read"
  /\ IF Authorized(s, e)
     THEN /\ mode' = IF exact THEN [mode EXCEPT ![s] = e] ELSE mode
          /\ reads' = IF exact THEN reads \union all ELSE reads
          /\ lastRead' = IF Ambiguous(s) THEN lastRead
                         ELSE [lastRead EXCEPT ![Thread(s)] = req[r].at]
     ELSE UNCHANGED <<mode, reads, lastRead>>
  /\ Done(r)
  /\ UNCHANGED <<clock, msg, wire, epoch, archiveVars, blocked>>

(* Leaving the community clears the viewer's rows (a trigger); joining     *)
(* again begins a new epoch.                                               *)
Leave ==
  /\ epoch # 0
  /\ epoch' = 0
  /\ mode' = [mode EXCEPT ![Group] = NoMode]
  /\ reads' = {x \in reads : msg[x[1]].peer # Group}
  /\ UNCHANGED <<clock, msg, wire, lastRead, archiveVars, blocked, req>>

Rejoin ==
  /\ epoch = 0 /\ clock < MaxTime
  /\ clock' = clock + 1 /\ epoch' = clock'
  /\ UNCHANGED <<msg, wire, mode, reads, lastRead, archiveVars, blocked, req>>

Tick ==
  /\ clock < MaxTime
  /\ clock' = clock + 1
  /\ UNCHANGED <<msg, wire, readVars, archiveVars, blocked, req>>

-----------------------------------------------------------------------------
(* Archives and requests.                                                  *)

(* peerArchivedSql.                                                        *)
Archived(p) ==
  p \in archived \/ Thread(p) \in marker \ expanded

(* The peers with an indexed message in the thread.                        *)
Participants(t) ==
  {p \in Peers : Thread(p) = t /\ \E m \in Msgs : Readable(m, p)}

(* An old marker is spread over its participants, once.                    *)
Spread(t) == IF t \in marker \ expanded THEN Participants(t) ELSE {}

(* setPeerArchived.                                                        *)
ArchiveWrite(r) ==
  LET p == req[r].s t == Thread(p) spread == Spread(t) IN
  /\ req[r].pc \in {"archive", "unarchive"}
  /\ archived' = IF req[r].pc = "archive" THEN archived \union spread \union {p}
                 ELSE (archived \union spread) \ {p}
  /\ expanded' = IF t \in marker THEN expanded \union {t} ELSE expanded
  /\ Done(r)
  /\ UNCHANGED <<clock, msg, wire, readVars, marker, blocked>>

(* A peer who wrote and has no indexed answer is a message request.        *)
Replied(p) == \E m \in Msgs : Readable(m, p) /\ msg[m].mine
Incoming(p) == {m \in Msgs : Readable(m, p) /\ ~msg[m].mine}
Pending(p) == Incoming(p) # {} /\ ~Replied(p)

(* POST /requests/reject selects the page and prepares its cascade.        *)
Reject(r, p, pc) ==
  /\ Free(r) /\ Pending(p)
  /\ req' = [req EXCEPT ![r] = Slot(pc, p, Incoming(p), clock)]
  /\ UNCHANGED <<clock, msg, wire, readVars, archiveVars, blocked>>

(* The guard of the page's batch.                                          *)
Unanswered(p) == ~Replied(p)

RejectWrite(r) ==
  LET p == req[r].s ids == req[r].ids IN
  /\ req[r].pc \in {"reject", "rejectBlock"}
  /\ IF Unanswered(p) /\ \A m \in ids : Readable(m, p)
     THEN /\ msg' = [m \in Msgs |-> IF m \in ids
                                    THEN [msg[m] EXCEPT !.st = "gone"]
                                    ELSE msg[m]]
          /\ reads' = ReadsWithout(ids)
          /\ IF req[r].pc = "reject" THEN Done(r)
             ELSE req' = [req EXCEPT ![r].pc = "block"]
     ELSE UNCHANGED <<msg, reads>> /\ Done(r)
  /\ UNCHANGED <<clock, wire, epoch, mode, lastRead, archiveVars, blocked>>

RejectBlock(r) ==
  /\ req[r].pc = "block"
  /\ blocked' = IF Unanswered(req[r].s) THEN blocked \union {req[r].s}
                ELSE blocked
  /\ Done(r)
  /\ UNCHANGED <<clock, msg, wire, readVars, archiveVars>>

-----------------------------------------------------------------------------
Next ==
  \/ Leave \/ Rejoin \/ Tick
  \/ \E m \in Msgs, s \in Scopes, lag \in {0, 1} : Arrive(m, s, lag)
  \/ \E m \in Msgs, p \in Peers : Send(m, p)
  \/ \E r \in Requests, m \in Msgs : Own(r, m, "edit") \/ Own(r, m, "delete")
  \/ \E r \in Requests, s \in Scopes :
       \/ Open(r, "init", s, {}) \/ Open(r, "read", s, {})
       \/ \E m \in Msgs : Readable(m, s) /\ Open(r, "ack", s, {m})
  \/ \E r \in Requests, p \in Peers :
       \/ Open(r, "archive", p, {}) \/ Open(r, "unarchive", p, {})
       \/ Reject(r, p, "reject") \/ Reject(r, p, "rejectBlock")
  \/ \E r \in Requests :
       \/ EditWrite(r) \/ DeleteWrite(r) \/ InitWrite(r) \/ AckWrite(r)
       \/ ReadWrite(r) \/ ArchiveWrite(r) \/ RejectWrite(r) \/ RejectBlock(r)

Spec == Init /\ [][Next]_vars

TypeOK ==
  /\ clock \in 1..MaxTime /\ epoch \in 0..MaxTime
  /\ mode \in [Scopes -> 0..NoMode] /\ reads \subseteq Msgs \X (0..MaxTime)
  /\ lastRead \in [Threads -> 0..MaxTime]
  /\ marker \subseteq Threads /\ expanded \subseteq marker
  /\ archived \subseteq Peers /\ blocked \subseteq Peers

(* "A peer-scoped legacy operation must not advance the shared timestamp   *)
(* of a different peer that happens to have the same historical            *)
(* conversation ID": what one scope reads leaves the unread messages of    *)
(* every other scope unread.                                               *)
ReadsScoped ==
  [][\A r \in Requests :
       InitWrite(r) \/ AckWrite(r) \/ ReadWrite(r) =>
         \A m \in Msgs : msg[m].peer # req[r].s => (Unread(m) <=> Unread(m)')
    ]_vars

(* Entering exact mode changes nothing the viewer sees: no message becomes *)
(* unread or read by it.                                                   *)
InitKeepsUnread ==
  [][\A r \in Requests :
       InitWrite(r) => \A m \in Msgs : Unread(m) <=> Unread(m)']_vars

(* A receipt of the community belongs to the membership it was made in:    *)
(* none of an earlier epoch is written by a request that was under way     *)
(* while the viewer left and joined again.                                 *)
ReceiptsOfEpoch ==
  /\ \A x \in reads : msg[x[1]].peer = Group => epoch # 0 /\ x[2] = epoch
  /\ mode[Group] \in {NoMode, epoch} /\ (epoch = 0 => mode[Group] = NoMode)

(* Concurrent edits and a delete of one message: its peers are sent what   *)
(* the row says, in the order in which it said it, and nothing after the   *)
(* Delete (guardedOwnedDm).                                                *)
WireFollowsRow ==
  \A m \in Msgs :
    /\ \A i \in 1..Len(wire[m]) : wire[m][i].kind = "Delete" => i = Len(wire[m])
    /\ Live(m) /\ msg[m].peer \in Remote =>
         Len(wire[m]) = msg[m].rev
         /\ \A i \in 1..Len(wire[m]) : wire[m][i].text = i

(* Archiving or unarchiving one peer leaves the other peers of a shared    *)
(* thread as they were ("Retry cannot re-seed a peer the reader has        *)
(* already explicitly unarchived", talk-peer-archives.ts:44).              *)
ArchiveScoped ==
  [][\A r \in Requests :
       ArchiveWrite(r) =>
         \A p \in Participants(Thread(req[r].s)) \ {req[r].s} :
           Archived(p) <=> Archived(p)']_vars

(* An answer that commits before the page's batch saves the conversation:  *)
(* rejecting never removes messages of a peer who has an indexed answer.   *)
AnsweredNotRejected ==
  [][\A r \in Requests :
       RejectWrite(r) /\ Replied(req[r].s) => msg' = msg]_vars

=============================================================================
