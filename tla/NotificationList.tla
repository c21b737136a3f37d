-------------------------- MODULE NotificationList --------------------------
(***************************************************************************)
(* The notifications of one account (routes/notifications.ts and           *)
(* lib/notification-eligibility.ts): the rows of its inbox, the markers of *)
(* what it archived, the cleanup of old markers, statement by statement    *)
(* and in several workers at once, and a client that reads the list page   *)
(* by page while rows come and go.                                         *)
(***************************************************************************)
EXTENDS Naturals, FiniteSets

CONSTANTS
  MaxRows,       \* bound on notifications; a row's number is its identifier
  MaxTime,       \* bound on the creation times; several rows may share one
  Limit,         \* rows of a page
  CleanupBatch,  \* markers one cleanup takes
  Workers        \* isolates that clean up

VARIABLES
  inbox,         \* [1..MaxRows -> [at, read], at = 0: no row]
  sent,          \* rows written so far
  archived,      \* [1..MaxRows -> "no", "kept" or "old"]
  hidden,        \* rows of actors the account blocks or mutes
  now,           \* the clock that stamps new rows
  clean,         \* [Workers -> a cleanup's list, its file and its stage]
  ran,           \* workers whose last cleanup is within the interval
  put,           \* rows the account archived and did not take back
  walk           \* the client's walk through the pages

tableVars == <<inbox, sent, archived, hidden, now>>
vars == <<inbox, sent, archived, hidden, now, clean, ran, put, walk>>

Rows == 1..MaxRows
NoRow == [at |-> 0, read |-> FALSE]
Held == {r \in Rows : inbox[r].at # 0}

(* notificationEligibilityWhere: the list, the badge and the pushes share  *)
(* it; view is the archived list or the ordinary one.                      *)
notificationEligibilityWhere(view) ==
  {r \in Held \ hidden : (archived[r] # "no") = (view = "archived")}

Listed == notificationEligibilityWhere("default")
unreadCount == Cardinality({r \in Listed : ~inbox[r].read})

NoWalk == [on |-> FALSE, at |-> 0, id |-> 0, seen |-> {}, stayed |-> {}]

(* Only rows listed at every moment of a walk count; a walk that has ended *)
(* is forgotten with the next change of the list.                          *)
Staying(t) == [t EXCEPT !.stayed = IF t.on THEN @ \cap Listed' ELSE {},
                        !.seen = IF t.on THEN @ ELSE {}]

(***************************************************************************)
(* Cleanup of markers past their retention.                                *)
(***************************************************************************)
NoCleanup == [stage |-> "none", ids |-> {}]

(* Every read of the list or the badge starts one, at most one per         *)
(* interval and worker.                                                    *)
maybeCleanupArchivedNotifications(w) ==
  /\ clean[w] = NoCleanup /\ w \notin ran
  /\ ran' = ran \cup {w}
  /\ \E ids \in SUBSET {r \in Rows : archived[r] = "old"} :
       /\ Cardinality(ids) <= CleanupBatch
       /\ ids = {} => \A r \in Rows : archived[r] # "old"
       /\ clean' = [clean EXCEPT ![w] =
            IF ids = {} THEN NoCleanup ELSE [stage |-> "inbox", ids |-> ids]]
  /\ UNCHANGED <<tableVars, put, walk>>

(* Mutant of DeleteInbox: the marker goes first.                           *)
DeleteInboxLast(w) ==
  /\ clean[w].stage = "inbox"
  /\ archived' = [r \in Rows |->
                    IF r \in clean[w].ids THEN "no" ELSE archived[r]]
  /\ clean' = [clean EXCEPT ![w].stage = "marker"]
  /\ UNCHANGED <<inbox, sent, hidden, now, ran, put>>
  /\ walk' = Staying(walk)

DeleteInbox(w) ==
  /\ clean[w].stage = "inbox"
  /\ inbox' = [r \in Rows |-> IF r \in clean[w].ids THEN NoRow ELSE inbox[r]]
  /\ clean' = [clean EXCEPT ![w].stage = "marker"]
  /\ UNCHANGED <<sent, archived, hidden, now, ran, put>>
  /\ walk' = Staying(walk)

DeleteMarkers(w) ==
  /\ clean[w].stage = "marker"
  /\ archived' = [r \in Rows |->
                    IF r \in clean[w].ids THEN "no" ELSE archived[r]]
  /\ clean' = [clean EXCEPT ![w] = NoCleanup]
  /\ UNCHANGED <<inbox, sent, hidden, now, ran, put>>
  /\ walk' = Staying(walk)

(* The isolate goes away; its successor has an empty map of last runs.     *)
WorkerGone(w) ==
  /\ clean' = [clean EXCEPT ![w] = NoCleanup] /\ ran' = ran \ {w}
  /\ <<clean, ran>> # <<clean', ran'>>
  /\ UNCHANGED <<tableVars, put, walk>>

pruneArchivedCleanupTimestamps(w) ==
  /\ w \in ran /\ ran' = ran \ {w}
  /\ UNCHANGED <<tableVars, clean, put, walk>>

(***************************************************************************)
(* The client's walk.                                                      *)
(***************************************************************************)
(* Rows after the cursor, in the order (created, identifier) descending.   *)
notifCursorPredicate(r, at, id) ==
  \/ inbox[r].at < at
  \/ inbox[r].at = at /\ r < id

(* ORDER BY created DESC, identifier DESC: s comes before r.               *)
Before(s, r) ==
  \/ inbox[s].at > inbox[r].at
  \/ inbox[s].at = inbox[r].at /\ s > r

(* GET /: the first rows after the cursor, and a cursor at the last one    *)
(* when there are more.  The walk starts without a cursor.                 *)
ListPage ==
  /\ LET first == ~walk.on
         rest == {r \in Listed :
                    first \/ notifCursorPredicate(r, walk.at, walk.id)}
         page == {r \in rest :
                    Cardinality({s \in rest : Before(s, r)}) < Limit}
         last == CHOOSE r \in page : \A s \in page \ {r} : Before(s, r)
         stayed == IF first THEN Listed ELSE walk.stayed
         seen == IF first THEN page ELSE walk.seen \cup page
     IN walk' = IF page = rest
                  THEN [NoWalk EXCEPT !.seen = seen, !.stayed = stayed]
                  ELSE [on |-> TRUE, at |-> inbox[last].at, id |-> last,
                        seen |-> seen, stayed |-> stayed]
  /\ UNCHANGED <<tableVars, clean, ran, put>>

(***************************************************************************)
(* What the account does, and what arrives.                                *)
(***************************************************************************)
Notify ==
  /\ sent < MaxRows /\ sent' = sent + 1
  /\ inbox' = [inbox EXCEPT ![sent + 1] = [at |-> now, read |-> FALSE]]
  /\ UNCHANGED <<archived, hidden, now, clean, ran, put>>
  /\ walk' = Staying(walk)

Tick ==
  /\ now < MaxTime /\ now' = now + 1
  /\ UNCHANGED <<inbox, sent, archived, hidden, clean, ran, put, walk>>

(* Markers are made only of rows that are there.                           *)
Marked(ids) == [r \in Rows |-> IF r \in ids \cap Held /\ archived[r] = "no"
                                 THEN "kept" ELSE archived[r]]

batchArchiveInsert(r) ==
  /\ r \in Held /\ archived' = Marked({r}) /\ put' = put \cup {r}
  /\ UNCHANGED <<inbox, sent, hidden, now, clean, ran>>
  /\ walk' = Staying(walk)

archiveAllInboxRows ==
  /\ Held # {} /\ archived' = Marked(Held) /\ put' = put \cup Held
  /\ UNCHANGED <<inbox, sent, hidden, now, clean, ran>>
  /\ walk' = Staying(walk)

Unarchive(r) ==
  /\ archived[r] # "no" /\ archived' = [archived EXCEPT ![r] = "no"]
  /\ put' = put \ {r}
  /\ UNCHANGED <<inbox, sent, hidden, now, clean, ran>>
  /\ walk' = Staying(walk)

(* A marker reaches the end of its retention.                              *)
Expire(r) ==
  /\ archived[r] = "kept" /\ archived' = [archived EXCEPT ![r] = "old"]
  /\ UNCHANGED <<inbox, sent, hidden, now, clean, ran, put, walk>>

(* POST /read of some rows, or of every row the badge counts.              *)
ReadRows(ids) ==
  /\ \E r \in ids : ~inbox[r].read
  /\ inbox' = [r \in Rows |-> IF r \in ids THEN [inbox[r] EXCEPT !.read = TRUE]
                                           ELSE inbox[r]]
  /\ UNCHANGED <<sent, archived, hidden, now, clean, ran, put, walk>>

markAllEligibleNotificationsRead == unreadCount > 0 /\ ReadRows(Listed)

(* The account blocks or mutes the sender of r, or takes it back.          *)
Hide(r) ==
  /\ r \in Held
  /\ hidden' = IF r \in hidden THEN hidden \ {r} ELSE hidden \cup {r}
  /\ UNCHANGED <<inbox, sent, archived, now, clean, ran, put>>
  /\ walk' = Staying(walk)

Init ==
  /\ inbox = [r \in Rows |-> NoRow] /\ sent = 0
  /\ archived = [r \in Rows |-> "no"] /\ hidden = {} /\ now = 1
  /\ clean = [w \in Workers |-> NoCleanup] /\ ran = {} /\ put = {}
  /\ walk = NoWalk

Next ==
  \/ \E w \in Workers :
       \/ maybeCleanupArchivedNotifications(w) \/ DeleteInbox(w)
       \/ DeleteMarkers(w) \/ WorkerGone(w)
       \/ pruneArchivedCleanupTimestamps(w)
  \/ ListPage \/ Notify \/ Tick \/ archiveAllInboxRows
  \/ markAllEligibleNotificationsRead
  \/ \E r \in Rows :
       \/ batchArchiveInsert(r) \/ Unarchive(r) \/ Expire(r) \/ Hide(r)
       \/ r \in Held /\ ReadRows({r})

Spec == Init /\ [][Next]_vars

TypeOK ==
  /\ \A r \in Rows : inbox[r].at \in 0..now /\ inbox[r].read \in BOOLEAN
  /\ archived \in [Rows -> {"no", "kept", "old"}]
  /\ put \subseteq Rows /\ walk.seen \subseteq Rows

(* What the account archived never comes back to the list, the badge or a  *)
(* push by itself: not between the statements of a cleanup, not when one   *)
(* dies between them, not when two overlap.                                *)
ArchivedStaysAway == put \cap Listed = {}

(* A walk through the pages shows every row that was listed all the time,  *)
(* whatever arrived, left or shared a creation time meanwhile.             *)
WalkIsComplete == ~walk.on => walk.stayed \subseteq walk.seen

=============================================================================
