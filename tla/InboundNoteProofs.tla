------------------------- MODULE InboundNoteProofs -------------------------
(***************************************************************************)
(* What holds of InboundNote for every set of Updates, every number of     *)
(* deliveries and every bound: a deleted Note is gone, an Update that was  *)
(* acknowledged is applied, a retained Note carries the accepted Updates   *)
(* in the order of their admission, its Create has notified, and what was  *)
(* answered 2xx has been dispatched.                                       *)
(***************************************************************************)
EXTENDS InboundNote, WellFoundedInduction, TLAPS

-----------------------------------------------------------------------------
(* The inductive invariant.                                                *)

Early == {"owed", "claim", "clear", "release", "acked"}
Deleting == {"receipt", "object", "cascade", "row"}

\* The part of TypeOK the proofs need.
Shape ==
  /\ note = NoNote \/ note.base # "none"
  /\ events \in Seq(Updates) /\ head.applied \in 0..Len(events)
  /\ {receipt, inbox} \subseteq BOOLEAN
  /\ DOMAIN processed = Activities /\ DOMAIN run = Deliveries

Applied(u) == \E i \in 1..head.applied : events[i] = u

\* A delivery of the Delete that got past its receipt finds it there, and the
\* Note is without notification when its row goes and gone when it finishes.
DeleteRun(d) ==
  /\ run[d].pc \in Deleting => Act(d) = "delete"
  /\ Act(d) = "delete" => run[d].pc \in Early \cup Deleting \cup {"finish"}
  /\ run[d].pc \in {"object", "cascade", "row"} => receipt
  /\ run[d].pc = "row" /\ purge = "no" => ~inbox
  /\ Act(d) = "delete" /\ run[d].pc = "finish" => receipt /\ note = NoNote

\* An Update past its admission is in the queue, unless the Note is deleted, and
\* when it finishes a Note that is retained has it applied.
UpdateRun(d) ==
  /\ run[d].pc = "admit" => Act(d) \in Updates
  /\ Act(d) \in Updates =>
    /\ run[d].pc \notin {"known", "target", "edge", "notify"} \cup Deleting
    /\ run[d].pc \notin Early \cup {"admit"} => receipt \/ Admitted(Act(d))
    /\ run[d].pc = "finish" => receipt \/ note = NoNote \/ Applied(Act(d))

\* The Note a handler has read or written is one.
Snapshot(d) ==
  /\ run[d].before = NoNote \/ run[d].before.base # "none"
  /\ run[d].pc = "notify" => run[d].before # NoNote

\* Without a purge nobody is notified of a Note that is absent.
NoGhost == note = NoNote /\ purge = "no" => ~inbox

Done ==
  /\ processed["delete"] = 1 => receipt /\ note = NoNote
  /\ \A u \in Updates : processed[u] = 1 =>
       receipt \/ (Admitted(u) /\ (note = NoNote \/ Applied(u)))

Inv == /\ Shape /\ NoGhost /\ Done
       /\ \A d \in Deliveries : DeleteRun(d) /\ UpdateRun(d) /\ Snapshot(d)

-----------------------------------------------------------------------------
(* Lemmas about deliveries and about a step of one of them.                *)

LEMMA ActType == \A d \in Deliveries : Act(d) \in Activities
BY InboundAssumption DEF Deliveries, Act, Sent

\* The first step of each handler.
LEMMA HandlerIs ==
  /\ Handler("delete") = "receipt"
  /\ \A a \in Activities : a # "delete" => Handler(a) \in {"head", "admit", "known"}
  /\ \A a \in Activities : Handler(a) = "admit" => a \in Updates
  /\ \A u \in Updates : Handler(u) = "admit"
<1>1. Handler("delete") = "receipt"
  BY InboundAssumption DEF Handler
<1>2. \A u \in Updates : Handler(u) = "admit"
  BY InboundAssumption DEF Handler
<1>3. Handler("create") = "head" /\ Handler("announce") = "known"
  BY InboundAssumption DEF Handler
<1>4. QED BY <1>1, <1>2, <1>3 DEF Activities, Author

LEMMA FreshFields == \A pc : Fresh(pc).pc = pc /\ Fresh(pc).before = NoNote
BY DEF Fresh, Snap

LEMMA GoTo ==
  ASSUME NEW d \in Deliveries, NEW pc, DOMAIN run = Deliveries, Go(d, pc)
  PROVE  /\ DOMAIN run' = Deliveries
         /\ run'[d].pc = pc /\ run'[d].before = NoNote
         /\ \A e \in Deliveries : e # d => run'[e] = run[e]
BY FreshFields DEF Go, Becomes

\* What a step may do to the rows that the other deliveries rely on.
Stable ==
  /\ receipt => receipt'
  /\ receipt /\ note = NoNote => note' = NoNote
  /\ \A u \in Updates : Admitted(u) => Admitted(u)'
  /\ \A u \in Updates : Admitted(u) /\ (note = NoNote \/ Applied(u)) =>
       receipt' \/ note' = NoNote \/ Applied(u)'
  /\ purge' = "no" => purge = "no"
  /\ purge' = "no" /\ receipt /\ inbox' => inbox

LEMMA OthersKeep ==
  ASSUME Inv, Stable, NEW e \in Deliveries, run'[e] = run[e]
  PROVE  DeleteRun(e)' /\ UpdateRun(e)' /\ Snapshot(e)'
<1>1. DeleteRun(e)'
  BY DEF Inv, Stable, DeleteRun, Early, Deleting
<1>2. UpdateRun(e)'
  <2> DEFINE u == Act(e)
  <2>2. UpdateRun(e)
    BY DEF Inv
  <2>1. SUFFICES ASSUME u \in Updates PROVE UpdateRun(e)'
    BY <2>2 DEF UpdateRun, Act
  <2>3. run[e].pc \notin Early \cup {"admit"} => receipt' \/ Admitted(u)'
    BY <2>1, <2>2 DEF UpdateRun, Stable
  <2>4. run[e].pc = "finish" => receipt' \/ note' = NoNote \/ Applied(u)'
    <3>1. run[e].pc = "finish" => receipt \/ Admitted(u)
      BY <2>1, <2>2 DEF UpdateRun, Early
    <3>2. QED BY <2>1, <2>2, <3>1 DEF UpdateRun, Stable
  <2>5. QED BY <2>1, <2>2, <2>3, <2>4 DEF UpdateRun, Act
<1>3. Snapshot(e)'
  BY DEF Inv, Snapshot
<1>4. QED BY <1>1, <1>2, <1>3

LEMMA Frame ==
  ASSUME Inv, Stable, processed' = processed, Shape', NoGhost', NEW d \in Deliveries,
         \A e \in Deliveries : e # d => run'[e] = run[e],
         DeleteRun(d)', UpdateRun(d)', Snapshot(d)'
  PROVE  Inv'
<1>1. Done'
  BY DEF Inv, Done, Stable
<1>2. \A e \in Deliveries : DeleteRun(e)' /\ UpdateRun(e)' /\ Snapshot(e)'
  BY OthersKeep
<1>3. QED BY <1>1, <1>2 DEF Inv

\* A step that only moves a delivery on.
LEMMA QuietFrame ==
  ASSUME Inv, UNCHANGED <<noteVars, processed, purge>>, DOMAIN run' = Deliveries,
         NEW d \in Deliveries, \A e \in Deliveries : e # d => run'[e] = run[e],
         DeleteRun(d)', UpdateRun(d)', Snapshot(d)'
  PROVE  Inv'
<1>1. Stable
  BY DEF Stable, noteVars, Admitted, Applied
<1>2. Shape' /\ NoGhost'
  BY DEF Inv, Shape, NoGhost, noteVars
<1>3. processed' = processed
  OBVIOUS
<1>4. QED BY <1>1, <1>2, <1>3, Frame

LEMMA EarlyKeeps ==
  ASSUME NEW d \in Deliveries, run'[d].pc \in Early, run'[d].before = NoNote
  PROVE  DeleteRun(d)' /\ UpdateRun(d)' /\ Snapshot(d)'
BY DEF DeleteRun, UpdateRun, Snapshot, Early, Deleting

LEMMA QuietEarly ==
  ASSUME Inv, UNCHANGED <<noteVars, processed, purge>>, NEW d \in Deliveries,
         NEW pc \in Early, Go(d, pc)
  PROVE  Inv'
<1>1. DOMAIN run = Deliveries
  BY DEF Inv, Shape
<1>2. QED BY <1>1, GoTo, EarlyKeeps, QuietFrame

\* A step that moves a delivery on with a snapshot.
LEMMA BecomesRun ==
  ASSUME NEW d \in Deliveries, NEW r, DOMAIN run = Deliveries, Becomes(d, r)
  PROVE  /\ DOMAIN run' = Deliveries /\ run'[d] = r
         /\ \A e \in Deliveries : e # d => run'[e] = run[e]
BY DEF Becomes

LEMMA SnapFields ==
  ASSUME NEW pc, NEW m, NEW n, NEW c, NEW l, NEW b
  PROVE  LET r == Snap(pc, m, n, c, l, b) IN
         r.pc = pc /\ r.applied = m /\ r.latest = n /\ r.before = b
BY DEF Snap

-----------------------------------------------------------------------------
(* The steps that only move a delivery on.                                 *)

LEMMA QuietStep ==
  ASSUME Inv, NEW d \in Deliveries,
         Receive(d) \/ Claim(d) \/ ClearClaim(d) \/ Release(d) \/ LoadHead(d) \/ LoadEvents(d)
         \/ ReadNote(d) \/ Conflict(d) \/ ReadObject(d) \/ LookUp(d) \/ ReadTarget(d)
         \/ HandlerFails(d) \/ Crash(d)
  PROVE  Inv'
<1> USE DEF At
<1>0. /\ UNCHANGED <<noteVars, processed, purge>> /\ DOMAIN run = Deliveries
      /\ DeleteRun(d) /\ UpdateRun(d) /\ Snapshot(d)
  BY DEF Inv, Shape, Receive, Claim, ClearClaim, Release, LoadHead, LoadEvents, ReadNote,
         Conflict, ReadObject, LookUp, ReadTarget, HandlerFails, Crash
<1>1. CASE Receive(d)
  <2>1. \E pc \in Early : Go(d, pc)
    BY <1>1 DEF Receive, Early
  <2>2. QED BY <1>0, <2>1, QuietEarly
<1>2. CASE Claim(d)
  <2>1. CASE Go(d, "acked")
    BY <1>0, <2>1, QuietEarly DEF Early
  <2>2. CASE Go(d, Handler(Act(d)))
    <3>1. /\ DOMAIN run' = Deliveries
          /\ run'[d].pc = Handler(Act(d)) /\ run'[d].before = NoNote
          /\ \A e \in Deliveries : e # d => run'[e] = run[e]
      BY <1>0, <2>2, GoTo
    <3>2. DeleteRun(d)'
      BY <3>1, HandlerIs, ActType DEF DeleteRun, Deleting, Early
    <3>3. UpdateRun(d)' /\ Snapshot(d)'
      BY <3>1, HandlerIs, ActType DEF UpdateRun, Snapshot, Deleting, Early
    <3>4. QED BY <1>0, <3>1, <3>2, <3>3, QuietFrame
  <2>3. QED BY <1>2, <2>1, <2>2 DEF Claim
<1>3. CASE ClearClaim(d) \/ Release(d) \/ HandlerFails(d) \/ Crash(d)
  <2>1. \E pc \in Early : Go(d, pc)
    BY <1>3 DEF ClearClaim, Release, HandlerFails, Crash, Idle, Go, Early
  <2>2. QED BY <1>0, <2>1, QuietEarly
<1>4. CASE LoadHead(d)
  <2>1. /\ DOMAIN run' = Deliveries
        /\ run'[d].pc = "events" /\ run'[d].before = NoNote
        /\ \A e \in Deliveries : e # d => run'[e] = run[e]
    <3> DEFINE r == Snap("events", head.applied, 0, head.creation, FALSE, NoNote)
    <3>1. Becomes(d, r)
      BY <1>4 DEF LoadHead
    <3>2. r.pc = "events" /\ r.before = NoNote
      BY DEF Snap
    <3> HIDE DEF r
    <3>3. QED BY <1>0, <3>1, <3>2, BecomesRun
  <2>2. DeleteRun(d)' /\ UpdateRun(d)' /\ Snapshot(d)'
    BY <1>0, <1>4, <2>1
       DEF LoadHead, DeleteRun, UpdateRun, Snapshot, Early, Deleting, noteVars, Admitted
  <2>3. QED BY <1>0, <2>1, <2>2, QuietFrame
<1>5. CASE LoadEvents(d)
  <2>1. /\ DOMAIN run' = Deliveries
        /\ run'[d].pc = AfterEvents(d) /\ run'[d].before = NoNote
        /\ \A e \in Deliveries : e # d => run'[e] = run[e]
    BY <1>0, <1>5, BecomesRun, SnapFields, GoTo DEF LoadEvents
  <2>2. AfterEvents(d) \in {"note", "conflict", "release"}
    BY DEF AfterEvents
  <2>3. DeleteRun(d)' /\ UpdateRun(d)' /\ Snapshot(d)'
    BY <1>0, <1>5, <2>1, <2>2
       DEF LoadEvents, DeleteRun, UpdateRun, Snapshot, Early, Deleting, noteVars, Admitted
  <2>4. QED BY <1>0, <2>1, <2>3, QuietFrame
<1>6. CASE ReadNote(d)
  <2>1. /\ DOMAIN run' = Deliveries
        /\ \/ run'[d].pc = "finish" /\ run'[d].before = NoNote /\ note = NoNote
           \/ run'[d].pc = "commit" /\ run'[d].before = note
        /\ \A e \in Deliveries : e # d => run'[e] = run[e]
    BY <1>0, <1>6, BecomesRun, SnapFields, GoTo DEF ReadNote, ReadEnds
  <2>2. DeleteRun(d)' /\ UpdateRun(d)' /\ Snapshot(d)'
    BY <1>0, <1>6, <2>1
       DEF ReadNote, DeleteRun, UpdateRun, Snapshot, Early, Deleting, noteVars, Admitted,
           Inv, Shape
  <2>3. QED BY <1>0, <2>1, <2>2, QuietFrame
<1>7. CASE Conflict(d)
  <2>1. /\ DOMAIN run' = Deliveries
        /\ run'[d].pc = AfterConflict(d) /\ run'[d].before = NoNote
        /\ \A e \in Deliveries : e # d => run'[e] = run[e]
    BY <1>0, <1>7, GoTo DEF Conflict
  <2>2. /\ AfterConflict(d) \in {"release", "target", "finish"}
        /\ Act(d) \in Updates => AfterConflict(d) = "release"
                                 \/ (AfterConflict(d) = "finish" /\ receipt)
    BY InboundAssumption DEF AfterConflict, Superseded
  <2>3. DeleteRun(d)' /\ UpdateRun(d)' /\ Snapshot(d)'
    BY <1>0, <1>7, <2>1, <2>2
       DEF Conflict, DeleteRun, UpdateRun, Snapshot, Early, Deleting, noteVars
  <2>4. QED BY <1>0, <2>1, <2>3, QuietFrame
<1>8. CASE ReadObject(d)
  <2>1. /\ DOMAIN run' = Deliveries
        /\ \/ run'[d].pc = "finish" /\ run'[d].before = NoNote /\ note = NoNote
           \/ run'[d].pc = "cascade" /\ run'[d].before = note
        /\ \A e \in Deliveries : e # d => run'[e] = run[e]
    <3> DEFINE r == Snap("cascade", 0, 0, "none", FALSE, note)
    <3>1. (note = NoNote /\ Go(d, "finish")) \/ Becomes(d, r)
      BY <1>8 DEF ReadObject
    <3>2. r.pc = "cascade" /\ r.before = note
      BY DEF Snap
    <3> HIDE DEF r
    <3>3. QED BY <1>0, <3>1, <3>2, BecomesRun, GoTo
  <2>2. DeleteRun(d)' /\ UpdateRun(d)' /\ Snapshot(d)'
    BY <1>0, <1>8, <2>1, InboundAssumption
       DEF ReadObject, DeleteRun, UpdateRun, Snapshot, Early, Deleting, noteVars, Inv, Shape
  <2>3. QED BY <1>0, <2>1, <2>2, QuietFrame
<1>9. CASE LookUp(d) \/ ReadTarget(d)
  <2>1. PICK pc \in {"target", "head", "finish", "edge"} : Go(d, pc)
    BY <1>9 DEF LookUp, ReadTarget
  <2>2. /\ DOMAIN run' = Deliveries
        /\ run'[d].pc = pc /\ run'[d].before = NoNote
        /\ \A e \in Deliveries : e # d => run'[e] = run[e]
    BY <1>0, <2>1, GoTo
  <2>3. Act(d) # "delete" /\ Act(d) \notin Updates
    BY <1>0, <1>9 DEF LookUp, ReadTarget, DeleteRun, UpdateRun, Early, Deleting
  <2>4. DeleteRun(d)' /\ UpdateRun(d)' /\ Snapshot(d)'
    BY <2>2, <2>3 DEF DeleteRun, UpdateRun, Snapshot, Early, Deleting
  <2>5. QED BY <1>0, <2>2, <2>4, QuietFrame
<1>10. QED BY <1>1, <1>2, <1>3, <1>4, <1>5, <1>6, <1>7, <1>8, <1>9

-----------------------------------------------------------------------------
(* The steps that write the rows the invariant is about.                   *)

LEMMA CommitDispatchStep == ASSUME Inv, NEW d \in Deliveries, CommitDispatch(d) PROVE Inv'
<1> USE DEF At
<1>0. /\ UNCHANGED <<noteVars, purge>> /\ DOMAIN run = Deliveries /\ DOMAIN processed = Activities
      /\ DeleteRun(d) /\ UpdateRun(d) /\ Snapshot(d) /\ run[d].pc = "finish" /\ Done
  BY DEF Inv, Shape, CommitDispatch
<1>1. CASE Go(d, "release") /\ UNCHANGED processed
  BY <1>0, <1>1, QuietEarly DEF Early
<1>2. CASE Go(d, "clear") /\ processed' = [processed EXCEPT ![Act(d)] = 1]
  <2>1. /\ DOMAIN run' = Deliveries
        /\ run'[d].pc \in Early /\ run'[d].before = NoNote
        /\ \A e \in Deliveries : e # d => run'[e] = run[e]
    BY <1>0, <1>2, GoTo DEF Early
  <2>2. DeleteRun(d)' /\ UpdateRun(d)' /\ Snapshot(d)'
    BY <2>1, EarlyKeeps
  <2>3. Stable /\ Shape' /\ NoGhost'
    BY <1>0, <1>2, <2>1, ActType DEF Inv, Shape, NoGhost, Stable, noteVars, Admitted, Applied
  <2>4. \A e \in Deliveries : DeleteRun(e)' /\ UpdateRun(e)' /\ Snapshot(e)'
    BY <2>1, <2>2, <2>3, OthersKeep
  <2>5. processed'["delete"] = 1 => receipt' /\ note' = NoNote
    BY <1>0, <1>2 DEF Done, DeleteRun, noteVars, Activities, Author
  <2>6. ASSUME NEW u \in Updates, processed'[u] = 1
        PROVE  receipt' \/ (Admitted(u)' /\ (note' = NoNote \/ Applied(u)'))
    <3>1. receipt \/ (Admitted(u) /\ (note = NoNote \/ Applied(u)))
      <4>1. CASE u = Act(d)
        BY <1>0, <4>1 DEF UpdateRun, Early
      <4>2. CASE u # Act(d)
        BY <1>0, <1>2, <2>6, <4>2 DEF Done, Activities, Author
      <4>3. QED BY <4>1, <4>2
    <3>2. QED BY <1>0, <3>1 DEF noteVars, Admitted, Applied
  <2>7. Done'
    BY <2>5, <2>6 DEF Done
  <2>8. QED BY <2>3, <2>4, <2>7 DEF Inv
<1>3. QED BY <1>1, <1>2 DEF CommitDispatch

LEMMA AdmitStep == ASSUME Inv, NEW d \in Deliveries, AdmitUpdate(d) PROVE Inv'
<1> USE DEF At
<1> DEFINE u == Act(d)
<1>0. /\ UNCHANGED <<note, head, receipt, inbox, processed, purge>> /\ DOMAIN run = Deliveries
      /\ DeleteRun(d) /\ UpdateRun(d) /\ run[d].pc = "admit"
      /\ events \in Seq(Updates) /\ head.applied \in 0..Len(events)
  BY DEF Inv, Shape, AdmitUpdate
<1>1. u \in Updates
  BY <1>0 DEF UpdateRun
<1>2. /\ receipt \/ events' = events \/ events' = Append(events, u)
      /\ Len(events) <= Len(events') /\ events' \in Seq(Updates)
      /\ \A i \in 1..Len(events) : events'[i] = events[i]
  BY <1>0, <1>1 DEF AdmitUpdate
<1>3. Stable
  BY <1>0, <1>2 DEF Stable, Admitted, Applied
<1>5. PICK pc \in {"finish", "head", "release"} :
        Go(d, pc) /\ (pc = "finish" => receipt) /\ (pc = "head" => receipt \/ HasRoom(u))
  BY <1>0 DEF AdmitUpdate
<1>6. /\ DOMAIN run' = Deliveries
      /\ run'[d].pc = pc /\ run'[d].before = NoNote
      /\ \A e \in Deliveries : e # d => run'[e] = run[e]
  BY <1>0, <1>5, GoTo
<1>4. Shape' /\ NoGhost'
  BY <1>0, <1>2, <1>6 DEF Inv, Shape, NoGhost
<1>7. pc = "head" => receipt' \/ Admitted(u)'
  <2>1. Admitted(u) => Admitted(u)'
    BY <1>3, <1>1 DEF Stable
  <2>2. CASE ~receipt /\ ~Admitted(u) /\ HasRoom(u)
    <3>1. events' = Append(events, u)
      BY <2>2 DEF AdmitUpdate
    <3>2. Len(events') = Len(events) + 1 /\ events'[Len(events) + 1] = u
      BY <1>0, <1>1, <3>1
    <3>3. QED BY <1>0, <3>2 DEF Admitted, Act
  <2>3. QED BY <1>0, <1>5, <2>1, <2>2
<1>8. DeleteRun(d)' /\ UpdateRun(d)' /\ Snapshot(d)'
  BY <1>0, <1>1, <1>5, <1>6, <1>7, InboundAssumption
     DEF DeleteRun, UpdateRun, Snapshot, Early, Deleting, Act
<1>9. processed' = processed /\ DOMAIN run' = Deliveries
  BY <1>0, <1>6
<1>10. QED BY <1>3, <1>4, <1>6, <1>8, <1>9, Frame

LEMMA ProjectedIsNote ==
  ASSUME NEW d, NEW r, r.before = NoNote \/ r.before.base # "none"
  PROVE  Projected(d, r) # NoNote /\ Projected(d, r).base # "none"
<1>1. Projected(d, r).base # "none"
  BY DEF Projected
<1>2. NoNote.base = "none"
  BY DEF NoNote
<1>3. QED BY <1>1, <1>2

LEMMA CommitProjectionStep ==
  ASSUME Inv, NEW d \in Deliveries, CommitProjection(d) PROVE Inv'
<1> USE DEF At
<1> DEFINE r == run[d]
           next == Snap("notify", r.latest, r.latest, Creator(d, r), FALSE, Projected(d, r))
<1>0. /\ UNCHANGED <<events, receipt, inbox, processed, purge>> /\ DOMAIN run = Deliveries
      /\ DeleteRun(d) /\ UpdateRun(d) /\ Snapshot(d) /\ r.pc = "commit"
      /\ events \in Seq(Updates) /\ head.applied \in 0..Len(events)
  BY DEF Inv, Shape, CommitProjection
<1>1. CASE (Go(d, "release") \/ Go(d, "conflict")) /\ UNCHANGED <<note, head>>
  <2>1. PICK pc \in {"release", "conflict"} : Go(d, pc)
    BY <1>1
  <2>2. /\ DOMAIN run' = Deliveries
        /\ run'[d].pc = pc /\ run'[d].before = NoNote
        /\ \A e \in Deliveries : e # d => run'[e] = run[e]
    BY <1>0, <2>1, GoTo
  <2>3. DeleteRun(d)' /\ UpdateRun(d)' /\ Snapshot(d)'
    BY <1>0, <1>1, <2>2 DEF DeleteRun, UpdateRun, Snapshot, Early, Deleting, Admitted
  <2>4. Stable /\ Shape' /\ NoGhost'
    BY <1>0, <1>1, <2>2 DEF Inv, Shape, NoGhost, Stable, Admitted, Applied
  <2>5. QED BY <1>0, <2>2, <2>3, <2>4, Frame
<1>2. CASE /\ WindowHolds(r) /\ note' = Projected(d, r) /\ head'.applied = r.latest
           /\ \/ AfterCommit(d) # "notify" /\ Go(d, AfterCommit(d))
              \/ AfterCommit(d) = "notify" /\ Becomes(d, next)
  <2>1. /\ ~receipt /\ note' # NoNote /\ note'.base # "none"
        /\ head'.applied = Len(events)
    BY <1>0, <1>2, ProjectedIsNote DEF WindowHolds, Snapshot
  <2>2. \A u \in Updates : Admitted(u) => Applied(u)'
    BY <1>0, <2>1 DEF Admitted, Applied
  <2>3. Stable
    BY <1>0, <2>1, <2>2 DEF Stable, Admitted
  <2>4. /\ DOMAIN run' = Deliveries
        /\ \/ run'[d].pc = AfterCommit(d) /\ run'[d].before = NoNote /\ AfterCommit(d) # "notify"
           \/ /\ AfterCommit(d) = "notify" /\ run'[d].pc = "notify"
              /\ run'[d].before = Projected(d, r)
        /\ \A e \in Deliveries : e # d => run'[e] = run[e]
    <3>1. (AfterCommit(d) # "notify" /\ Go(d, AfterCommit(d)))
          \/ (AfterCommit(d) = "notify" /\ Becomes(d, next))
      BY <1>2
    <3>2. next.pc = "notify" /\ next.before = Projected(d, r)
      BY DEF Snap
    <3> HIDE DEF next
    <3>3. QED BY <1>0, <3>1, <3>2, BecomesRun, GoTo
  <2>5. /\ AfterCommit(d) \in {"target", "notify", "finish"}
        /\ Act(d) \in Updates => AfterCommit(d) = "finish"
    BY InboundAssumption DEF AfterCommit
  <2>6. Act(d) \in Updates => Admitted(Act(d)) /\ Applied(Act(d))'
    BY <1>0, <2>1, <2>2 DEF UpdateRun, Early
  <2>7. DeleteRun(d)' /\ Snapshot(d)'
    BY <1>0, <1>2, <2>1, <2>4, <2>5, ProjectedIsNote
       DEF DeleteRun, Snapshot, Early, Deleting
  <2>8. UpdateRun(d)'
    BY <1>0, <2>3, <2>4, <2>5, <2>6 DEF UpdateRun, Early, Deleting, Stable, Act, Applied, Admitted
  <2>9. Shape' /\ NoGhost'
    BY <1>0, <2>1, <2>4 DEF Inv, Shape, NoGhost
  <2>10. QED BY <1>0, <2>3, <2>4, <2>7, <2>8, <2>9, Frame
<1>3. CASE ~r.lost /\ WindowHolds(r)
  <2>1. note' = Projected(d, r) /\ head' = [applied |-> r.latest, creation |-> Creator(d, r)]
    BY <1>3 DEF CommitProjection
  <2>2. \/ AfterCommit(d) # "notify" /\ Go(d, AfterCommit(d))
        \/ AfterCommit(d) = "notify" /\ Becomes(d, next)
    BY <1>3 DEF CommitProjection
  <2>3. head'.applied = r.latest
    BY <2>1
  <2>4. QED BY <1>2, <1>3, <2>1, <2>2, <2>3
<1>4. CASE r.lost \/ ~WindowHolds(r)
  BY <1>1, <1>4 DEF CommitProjection
<1>5. QED BY <1>3, <1>4

LEMMA NotifyStep == ASSUME Inv, NEW d \in Deliveries, Notify(d) PROVE Inv'
<1> USE DEF At
<1>0. /\ UNCHANGED <<note, events, head, receipt, processed, purge>> /\ DOMAIN run = Deliveries
      /\ DeleteRun(d) /\ UpdateRun(d) /\ Snapshot(d) /\ run[d].pc = "notify"
      /\ inbox' = (inbox \/ WindowHolds(run[d])) /\ inbox \in BOOLEAN
  BY DEF Inv, Shape, Notify
<1>1. WindowHolds(run[d]) => ~receipt /\ note # NoNote
  BY <1>0 DEF WindowHolds, Snapshot
<1>2. PICK pc \in {"finish", "conflict"} : Go(d, pc)
  BY DEF Notify
<1>3. /\ DOMAIN run' = Deliveries
      /\ run'[d].pc = pc /\ run'[d].before = NoNote
      /\ \A e \in Deliveries : e # d => run'[e] = run[e]
  BY <1>0, <1>2, GoTo
<1>4. Act(d) # "delete" /\ Act(d) \notin Updates
  BY <1>0 DEF DeleteRun, UpdateRun, Early, Deleting
<1>5. DeleteRun(d)' /\ UpdateRun(d)' /\ Snapshot(d)'
  BY <1>3, <1>4 DEF DeleteRun, UpdateRun, Snapshot, Early, Deleting
<1>6. inbox' => inbox \/ (~receipt /\ note # NoNote)
  BY <1>0, <1>1
<1>7. inbox' \in BOOLEAN
  BY <1>0
<1>8. Stable /\ Shape' /\ NoGhost'
  BY <1>0, <1>3, <1>6, <1>7 DEF Inv, Shape, NoGhost, Stable, Admitted, Applied
<1>9. QED BY <1>0, <1>3, <1>5, <1>8, Frame

LEMMA DeleteStep ==
  ASSUME Inv, NEW d \in Deliveries, WriteReceipt(d) \/ Cascade(d) \/ DeleteRow(d) PROVE Inv'
<1> USE DEF At
<1>0. /\ UNCHANGED <<events, head, processed, purge>> /\ DOMAIN run = Deliveries
      /\ DeleteRun(d) /\ UpdateRun(d) /\ Snapshot(d) /\ Act(d) = "delete"
      /\ Act(d) \notin Updates
  BY InboundAssumption
     DEF Inv, Shape, WriteReceipt, Cascade, DeleteRow, DeleteRun, Deleting
<1>1. CASE WriteReceipt(d)
  <2>1. /\ DOMAIN run' = Deliveries
        /\ run'[d].pc = "object" /\ run'[d].before = NoNote
        /\ \A e \in Deliveries : e # d => run'[e] = run[e]
    BY <1>0, <1>1, GoTo DEF WriteReceipt
  <2>2. receipt' = TRUE /\ UNCHANGED <<note, inbox>>
    BY <1>1 DEF WriteReceipt
  <2>3. Stable /\ Shape' /\ NoGhost'
    BY <1>0, <2>1, <2>2 DEF Inv, Shape, NoGhost, Stable, Admitted, Applied
  <2>4. DeleteRun(d)' /\ UpdateRun(d)' /\ Snapshot(d)'
    BY <1>0, <2>1, <2>2 DEF DeleteRun, UpdateRun, Snapshot, Early, Deleting, Act
  <2>5. QED BY <1>0, <2>1, <2>3, <2>4, Frame
<1>2. CASE Cascade(d) \/ DeleteRow(d)
  <2>0. receipt /\ receipt' = receipt
    BY <1>0, <1>2 DEF Cascade, DeleteRow, DeleteRun
  <2>1. CASE Go(d, "release") /\ UNCHANGED <<note, inbox>>
    <3>1. UNCHANGED <<note, events, head, receipt, inbox, processed, purge>>
      BY <1>0, <2>0, <2>1
    <3>2. /\ DOMAIN run' = Deliveries
          /\ run'[d].pc \in Early /\ run'[d].before = NoNote
          /\ \A e \in Deliveries : e # d => run'[e] = run[e]
      BY <1>0, <2>1, GoTo DEF Early
    <3>3. Stable /\ Shape' /\ NoGhost'
      BY <3>1, <3>2 DEF Inv, Shape, NoGhost, Stable, Admitted, Applied
    <3>4. QED BY <1>0, <3>2, <3>3, EarlyKeeps, Frame
  <2>2. CASE /\ run[d].pc = "cascade" /\ inbox' = FALSE /\ UNCHANGED note
             /\ Becomes(d, Snap("row", 0, 0, "none", FALSE, note))
    <3> DEFINE r == Snap("row", 0, 0, "none", FALSE, note)
    <3>1. r.pc = "row" /\ r.before = note
      BY DEF Snap
    <3> HIDE DEF r
    <3>2. /\ DOMAIN run' = Deliveries
          /\ run'[d].pc = "row" /\ run'[d].before = note
          /\ \A e \in Deliveries : e # d => run'[e] = run[e]
      BY <1>0, <2>2, <3>1, BecomesRun DEF r
    <3>3. Stable /\ Shape' /\ NoGhost'
      BY <1>0, <2>0, <2>2, <3>2 DEF Inv, Shape, NoGhost, Stable, Admitted, Applied
    <3>4. DeleteRun(d)' /\ UpdateRun(d)' /\ Snapshot(d)'
      BY <1>0, <2>0, <2>2, <3>2
         DEF DeleteRun, UpdateRun, Snapshot, Early, Deleting, Act, Inv, Shape
    <3>5. QED BY <1>0, <3>2, <3>3, <3>4, Frame
  <2>3. CASE run[d].pc = "row" /\ note' = NoNote /\ Go(d, "finish") /\ UNCHANGED inbox
    <3>1. /\ DOMAIN run' = Deliveries
          /\ run'[d].pc = "finish" /\ run'[d].before = NoNote
          /\ \A e \in Deliveries : e # d => run'[e] = run[e]
      BY <1>0, <2>3, GoTo
    <3>2. Stable /\ Shape' /\ NoGhost'
      BY <1>0, <2>0, <2>3, <3>1 DEF Inv, Shape, NoGhost, Stable, Admitted, Applied, DeleteRun
    <3>3. DeleteRun(d)' /\ UpdateRun(d)' /\ Snapshot(d)'
      BY <1>0, <2>0, <2>3, <3>1 DEF DeleteRun, UpdateRun, Snapshot, Early, Deleting, Act
    <3>4. QED BY <1>0, <3>1, <3>2, <3>3, Frame
  <2>4. QED BY <1>2, <2>1, <2>2, <2>3 DEF Cascade, DeleteRow
<1>3. QED BY <1>1, <1>2

LEMMA WriteEdgeStep == ASSUME Inv, NEW d \in Deliveries, WriteEdge(d) PROVE Inv'
<1> USE DEF At
<1>0. /\ UNCHANGED <<note, events, head, receipt, inbox, processed, purge>>
      /\ DOMAIN run = Deliveries /\ DeleteRun(d) /\ UpdateRun(d) /\ run[d].pc = "edge"
  BY DEF Inv, Shape, WriteEdge
<1>1. /\ DOMAIN run' = Deliveries
      /\ run'[d].pc = "finish" /\ run'[d].before = NoNote
      /\ \A e \in Deliveries : e # d => run'[e] = run[e]
  BY <1>0, GoTo DEF WriteEdge
<1>2. DeleteRun(d)' /\ UpdateRun(d)' /\ Snapshot(d)'
  BY <1>0, <1>1 DEF DeleteRun, UpdateRun, Snapshot, Early, Deleting, Act
<1>3. Stable /\ Shape' /\ NoGhost'
  BY <1>0, <1>1 DEF Inv, Shape, NoGhost, Stable, Admitted, Applied
<1>4. QED BY <1>0, <1>1, <1>2, <1>3, Frame

\* Steps of no delivery: a lease, and the purge.
LEMMA OutsideStep ==
  ASSUME Inv, (\E a \in Activities : LeaseExpires(a)) \/ Block \/ Purging PROVE Inv'
<1>0. /\ UNCHANGED <<events, head, receipt, run>> /\ Shape /\ NoGhost /\ Done
      /\ purge' = "no" => UNCHANGED <<note, inbox, purge, processed>>
      /\ note' \in {note, NoNote} /\ inbox' \in {inbox, FALSE}
      /\ processed' = processed
         \/ processed' = [a \in Activities |-> IF a \in Author THEN 0 ELSE processed[a]]
  BY DEF LeaseExpires, Block, Purging, PurgeCascade, PurgeRow, PurgeActivities, noteVars,
         Inv, Shape
<1>1. Shape' /\ NoGhost'
  <2>1. DOMAIN processed' = Activities
    BY <1>0 DEF Shape
  <2>2. Shape'
    BY <1>0, <2>1 DEF Shape
  <2>3. NoGhost'
    BY <1>0 DEF NoGhost
  <2>4. QED BY <2>2, <2>3
<1>2. Stable
  BY <1>0 DEF Stable, Admitted, Applied
<1>3. Done'
  <2>1. \A a \in Activities : processed'[a] = 1 => processed[a] = 1
    BY <1>0
  <2>2. "delete" \in Activities /\ Updates \subseteq Activities
    BY DEF Activities, Author
  <2>3. processed'["delete"] = 1 => receipt' /\ note' = NoNote
    BY <1>0, <2>1, <2>2 DEF Done
  <2>4. \A u \in Updates : processed'[u] = 1 =>
          receipt' \/ (Admitted(u)' /\ (note' = NoNote \/ Applied(u)'))
    BY <1>0, <1>2, <2>1, <2>2 DEF Done, Stable
  <2>5. QED BY <2>3, <2>4 DEF Done
<1>4. QED BY <1>0, <1>1, <1>2, <1>3, OthersKeep DEF Inv

-----------------------------------------------------------------------------
(* The theorems.                                                           *)

LEMMA InitInv == Init => Inv
<1> SUFFICES ASSUME Init PROVE Inv
  OBVIOUS
<1>1. DOMAIN run = Deliveries /\ DOMAIN processed = Activities
  BY DEF Init
<1>2. \A d \in Deliveries : run[d].pc = "owed" /\ run[d].before = NoNote
  BY FreshFields DEF Init, Idle
<1>3. Shape /\ NoGhost
  <2>1. note = NoNote /\ events = <<>> /\ head.applied = 0 /\ receipt = FALSE /\ inbox = FALSE
    BY DEF Init
  <2>2. events \in Seq(Updates) /\ Len(events) = 0
    BY <2>1
  <2>3. head.applied \in 0..Len(events)
    BY <2>1, <2>2
  <2>4. Shape
    BY <1>1, <2>1, <2>2, <2>3 DEF Shape
  <2>5. NoGhost
    BY <2>1 DEF NoGhost
  <2>6. QED BY <2>4, <2>5
<1>4. \A a \in Activities : processed[a] = 0
  BY DEF Init
<1>5. Done
  <2>1. "delete" \in Activities /\ Updates \subseteq Activities
    BY DEF Activities, Author
  <2>2. QED BY <1>4, <2>1 DEF Done
<1>6. \A d \in Deliveries : DeleteRun(d) /\ UpdateRun(d) /\ Snapshot(d)
  BY <1>2 DEF DeleteRun, UpdateRun, Snapshot, Early, Deleting
<1>7. QED BY <1>3, <1>5, <1>6 DEF Inv

LEMMA StutterInv == Inv /\ UNCHANGED vars => Inv'
<1> SUFFICES ASSUME Inv, UNCHANGED vars PROVE Inv'
  OBVIOUS
<1>1. UNCHANGED <<note, events, head, receipt, inbox, processed, run, purge>>
  BY DEF vars, noteVars
<1>2. Shape' /\ NoGhost'
  BY <1>1 DEF Inv, Shape, NoGhost
<1>3. Stable
  BY <1>1 DEF Stable, Admitted, Applied
<1>4. Done'
  BY <1>1, <1>3 DEF Inv, Done, Stable
<1>5. QED BY <1>1, <1>2, <1>3, <1>4, OthersKeep DEF Inv

LEMMA NextInv == Inv /\ [Next]_vars => Inv'
<1> SUFFICES ASSUME Inv, Next PROVE Inv'
  BY StutterInv
<1>1. CASE \E d \in Deliveries : Step(d) \/ HandlerFails(d) \/ Crash(d)
  BY <1>1, QuietStep, CommitDispatchStep, AdmitStep, CommitProjectionStep, NotifyStep,
     DeleteStep, WriteEdgeStep DEF Step
<1>2. CASE (\E a \in Activities : LeaseExpires(a)) \/ Block \/ Purging
  BY <1>2, OutsideStep
<1>3. QED BY <1>1, <1>2 DEF Next

(* The inductive invariant of every behaviour, from which the theorems on    *)
(* the Delete and on the Updates follow.                                     *)
THEOREM Invariant == Spec => []Inv
BY InitInv, NextInv, PTL DEF Spec

(* A Delete that was committed has its Note gone and, without an operator    *)
(* purge, nobody notified of it: handleDelete writes its receipt before it   *)
(* reads the object and every insert asserts that there is none.             *)
THEOREM DeleteWins == Spec => []DeletedIsGone
<1>1. Inv => DeletedIsGone
  BY DEF Inv, Done, NoGhost, DeletedIsGone
<1>2. QED BY <1>1, Invariant, PTL

(* An Update that was acknowledged is in the history of a retained Note: the *)
(* guard of a projection refuses a window that misses an admitted event.     *)
THEOREM NoUpdateIsLost == Spec => []DoneUpdateIsApplied
<1>1. Inv => DoneUpdateIsApplied
  BY DEF Inv, Done, Applied, DoneUpdateIsApplied
<1>2. QED BY <1>1, Invariant, PTL

-----------------------------------------------------------------------------
(* What foldAdmittedNoteUpdates computes.  Induction on the window is by the *)
(* least window on which a statement fails.                                *)

LEMMA LeastNumber ==
  ASSUME NEW T \in SUBSET Nat, T # {}
  PROVE  \E x \in T : \A y \in T : ~(y < x)
<1>1. IsWellFoundedOn(OpToRel(<, Nat), Nat)
  BY NatLessThanWellFounded
<1>2. PICK x \in T : \A y \in T : ~(<<y, x>> \in OpToRel(<, Nat))
  BY <1>1, WFMin
<1> QED
  BY <1>2 DEF OpToRel

\* One more event: consumed, and appended unless it is refused.
Consume(edits, u) == IF u \in Refused THEN edits ELSE Append(edits, u)

\* The equation of the recursive function in Fold.
Unfolds(f, log, from, to) ==
  f = [i \in from..to |-> IF i = from THEN <<>> ELSE Consume(f[i - 1], log[i])]

LEMMA FoldIsChosen ==
  ASSUME NEW log, NEW from, NEW to
  PROVE  Fold(log, from, to) = (CHOOSE f : Unfolds(f, log, from, to))[to]
BY DEF Fold, Unfolds, Consume

LEMMA UnfoldingExists ==
  ASSUME NEW log, NEW from \in Nat, NEW to \in Nat, from <= to
  PROVE  \E f : Unfolds(f, log, from, to)
<1> DEFINE T == {t \in Nat : from <= t /\ ~\E f : Unfolds(f, log, from, t)}
<1>1. SUFFICES ASSUME T # {} PROVE FALSE
  OBVIOUS
<1>2. PICK t \in T : \A s \in T : ~(s < t)
  BY <1>1, LeastNumber
<1>3. CASE t = from
  <2> DEFINE f == [i \in from..t |-> <<>>]
  <2>1. Unfolds(f, log, from, t)
    BY <1>3 DEF Unfolds
  <2> QED
    BY <2>1
<1>4. CASE t # from
  <2>1. t - 1 \in Nat /\ from <= t - 1 /\ t - 1 < t
    BY <1>4
  <2>2. PICK g : Unfolds(g, log, from, t - 1)
    BY <1>2, <2>1
  <2> DEFINE f == [i \in from..t |-> IF i = t THEN Consume(g[t - 1], log[t]) ELSE g[i]]
  <2>3. \A i \in from..(t - 1) : g[i] = IF i = from THEN <<>> ELSE Consume(g[i - 1], log[i])
    BY <2>2 DEF Unfolds
  <2>4. ASSUME NEW i \in from..t
        PROVE  f[i] = IF i = from THEN <<>> ELSE Consume(f[i - 1], log[i])
    <3>1. CASE i = t
      BY <1>4, <2>1, <3>1
    <3>2. CASE i # t
      <4>1. i \in from..(t - 1) /\ f[i] = g[i]
        BY <3>2
      <4>2. i # from => f[i - 1] = g[i - 1]
        BY <3>2
      <4> HIDE DEF f
      <4> QED
        BY <2>3, <4>1, <4>2
    <3> QED
      BY <3>1, <3>2
  <2>5. Unfolds(f, log, from, t)
    BY <2>4 DEF Unfolds
  <2> QED
    BY <2>5
<1> QED
  BY <1>3, <1>4

Agree(log, other, from, to) == \A i \in (from + 1)..to : log[i] = other[i]

\* Logs that agree on the window fold alike, also up to different ends.
LEMMA UnfoldingsAgree ==
  ASSUME NEW log, NEW other, NEW from \in Nat, NEW m \in Nat, NEW n \in Nat,
         NEW f, Unfolds(f, log, from, m), NEW g, Unfolds(g, other, from, n),
         NEW to \in from..m, to \in from..n, Agree(log, other, from, to)
  PROVE  f[to] = g[to]
<1> DEFINE T == {t \in Nat : from <= t /\ t <= to /\ f[t] # g[t]}
<1>1. SUFFICES ASSUME T # {} PROVE FALSE
  OBVIOUS
<1>2. PICK t \in T : \A s \in T : ~(s < t)
  BY <1>1, LeastNumber
<1>3. /\ f[t] = IF t = from THEN <<>> ELSE Consume(f[t - 1], log[t])
      /\ g[t] = IF t = from THEN <<>> ELSE Consume(g[t - 1], other[t])
  <2>1. t \in from..m /\ t \in from..n
    OBVIOUS
  <2> QED
    BY <2>1 DEF Unfolds
<1>4. t # from => t - 1 \in Nat /\ from <= t - 1 /\ t - 1 < t /\ t \in (from + 1)..to
  OBVIOUS
<1> QED
  BY <1>2, <1>3, <1>4 DEF Agree

LEMMA FoldUnfolds ==
  ASSUME NEW log, NEW from \in Nat, NEW to \in Nat, from <= to
  PROVE  \E f : Unfolds(f, log, from, to) /\ Fold(log, from, to) = f[to]
<1>1. Unfolds(CHOOSE f : Unfolds(f, log, from, to), log, from, to)
  BY UnfoldingExists
<1> QED
  BY <1>1, FoldIsChosen

LEMMA FoldEmpty ==
  ASSUME NEW log, NEW from \in Nat
  PROVE  Fold(log, from, from) = <<>>
<1>1. PICK f : Unfolds(f, log, from, from) /\ Fold(log, from, from) = f[from]
  BY FoldUnfolds
<1> QED
  BY <1>1 DEF Unfolds

LEMMA FoldNext ==
  ASSUME NEW log, NEW from \in Nat, NEW to \in Nat, from <= to
  PROVE  Fold(log, from, to + 1) = Consume(Fold(log, from, to), log[to + 1])
<1>1. PICK f : Unfolds(f, log, from, to) /\ Fold(log, from, to) = f[to]
  BY FoldUnfolds
<1>2. PICK g : Unfolds(g, log, from, to + 1) /\ Fold(log, from, to + 1) = g[to + 1]
  BY FoldUnfolds
<1>3. g[to] = f[to]
  <2>1. to + 1 \in Nat /\ to \in from..to /\ to \in from..(to + 1)
    OBVIOUS
  <2>2. Agree(log, log, from, to)
    BY DEF Agree
  <2> QED
    BY <1>1, <1>2, <2>1, <2>2, UnfoldingsAgree
<1>4. g[to + 1] = Consume(g[to], log[to + 1])
  <2>1. to + 1 \in from..(to + 1) /\ to + 1 # from /\ (to + 1) - 1 = to
    OBVIOUS
  <2> QED
    BY <1>2, <2>1 DEF Unfolds
<1> QED
  BY <1>1, <1>2, <1>3, <1>4

\* Admitting an event leaves the windows before it as they were.
LEMMA FoldKept ==
  ASSUME NEW log, NEW other, NEW from \in Nat, NEW to \in Nat, from <= to,
         \A i \in (from + 1)..to : log[i] = other[i]
  PROVE  Fold(other, from, to) = Fold(log, from, to)
<1>1. PICK f : Unfolds(f, log, from, to) /\ Fold(log, from, to) = f[to]
  BY FoldUnfolds
<1>2. PICK g : Unfolds(g, other, from, to) /\ Fold(other, from, to) = g[to]
  BY FoldUnfolds
<1>3. f[to] = g[to]
  <2>1. to \in from..to /\ Agree(log, other, from, to)
    BY DEF Agree
  <2> QED
    BY <1>1, <1>2, <2>1, UnfoldingsAgree
<1> QED
  BY <1>1, <1>2, <1>3

LEMMA FoldType ==
  ASSUME NEW log \in Seq(Updates), NEW from \in Nat, NEW to \in Nat,
         from <= to, to <= Len(log)
  PROVE  Fold(log, from, to) \in Seq(Updates)
<1> DEFINE T == {t \in Nat : from <= t /\ t <= to /\ Fold(log, from, t) \notin Seq(Updates)}
<1>1. SUFFICES ASSUME T # {} PROVE FALSE
  OBVIOUS
<1>2. PICK t \in T : \A s \in T : ~(s < t)
  BY <1>1, LeastNumber
<1>3. t # from
  <2>1. Fold(log, from, from) = <<>> /\ <<>> \in Seq(Updates)
    BY FoldEmpty
  <2> QED
    BY <2>1
<1>4. t - 1 \in Nat /\ from <= t - 1 /\ t - 1 < t /\ (t - 1) + 1 = t /\ t \in 1..Len(log)
  BY <1>3
<1>5. Fold(log, from, t - 1) \in Seq(Updates)
  BY <1>2, <1>4
<1>6. Fold(log, from, t) = Consume(Fold(log, from, t - 1), log[t])
  BY <1>4, FoldNext
<1> QED
  BY <1>4, <1>5, <1>6 DEF Consume

LEMMA AppendAfter ==
  \A s, t \in Seq(Updates) : \A u \in Updates : s \o Append(t, u) = Append(s \o t, u)
OBVIOUS

\* Folding a window and then the next one folds both.
LEMMA FoldJoins ==
  ASSUME NEW log \in Seq(Updates), NEW from \in Nat, NEW mid \in Nat, NEW to \in Nat,
         from <= mid, mid <= to, to <= Len(log)
  PROVE  Fold(log, from, mid) \o Fold(log, mid, to) = Fold(log, from, to)
<1> DEFINE T == {t \in Nat : /\ mid <= t /\ t <= to
                            /\ Fold(log, from, mid) \o Fold(log, mid, t) # Fold(log, from, t)}
<1>1. SUFFICES ASSUME T # {} PROVE FALSE
  OBVIOUS
<1>2. PICK t \in T : \A s \in T : ~(s < t)
  BY <1>1, LeastNumber
<1>3. t # mid
  <2>1. Fold(log, mid, mid) = <<>> /\ Fold(log, from, mid) \in Seq(Updates)
    BY FoldEmpty, FoldType
  <2> QED
    BY <2>1
<1>4. t - 1 \in Nat /\ mid <= t - 1 /\ t - 1 < t /\ (t - 1) + 1 = t /\ t \in 1..Len(log)
  BY <1>3
<1> DEFINE a == Fold(log, from, mid)
           b == Fold(log, mid, t - 1)
           c == Fold(log, from, t - 1)
<1>5. a \in Seq(Updates) /\ b \in Seq(Updates) /\ log[t] \in Updates
  <2>1. t - 1 <= Len(log) /\ mid <= Len(log)
    BY <1>4
  <2> HIDE DEF T
  <2> QED
    BY <1>4, <2>1, FoldType
<1>55. c = a \o b
  <2>1. t - 1 \notin T /\ t - 1 <= to
    BY <1>2, <1>4
  <2> QED
    BY <1>4, <2>1
<1>6. Fold(log, mid, t) = Consume(b, log[t]) /\ Fold(log, from, t) = Consume(c, log[t])
  <2>1. from <= t - 1
    BY <1>4
  <2> HIDE DEF T
  <2> QED
    BY <1>4, <2>1, FoldNext
<1>7. a \o Fold(log, mid, t) # Fold(log, from, t)
  OBVIOUS
<1> HIDE DEF a, b, c
<1>8. a \o Consume(b, log[t]) = Consume(c, log[t])
  <2>1. a \o Append(b, log[t]) = Append(a \o b, log[t])
    BY ONLY <1>5, AppendAfter
  <2> QED
    BY <1>55, <2>1 DEF Consume
<1> QED
  BY <1>6, <1>7, <1>8

-----------------------------------------------------------------------------
(* Type correctness.                                                       *)

NoteRow == [base : {"none", "created", "fetched"}, edits : Seq(Updates)]

LEMMA SnapType ==
  ASSUME NEW pc \in Handling \cup {"owed", "claim", "clear", "release", "acked"},
         NEW m \in Nat, NEW n \in Nat, NEW c \in {"none", "create"}, NEW l \in BOOLEAN,
         NEW b \in NoteRow
  PROVE  Snap(pc, m, n, c, l, b) \in Run
BY DEF Snap, Run, NoteRow

LEMMA RowType == NoNote \in NoteRow /\ NoNote.edits = <<>> /\ NoNote.base = "none"
BY DEF NoNote, NoteRow

LEMMA FreshType ==
  ASSUME NEW pc \in Handling \cup {"owed", "claim", "clear", "release", "acked"}
  PROVE  Fresh(pc) \in Run
BY SnapType, RowType DEF Fresh

LEMMA RunType ==
  ASSUME run \in [Deliveries -> Run], NEW d \in Deliveries
  PROVE  /\ \A r \in Run : Becomes(d, r) => run' \in [Deliveries -> Run]
         /\ \A pc \in Handling \cup {"owed", "claim", "clear", "release", "acked"} :
              Go(d, pc) => run' \in [Deliveries -> Run]
BY FreshType DEF Becomes, Go

\* A claim is held by a delivery of its own activity.
ClaimOK ==
  /\ claim \in [Activities ->
       [stored : BOOLEAN, owner : Deliveries \cup {Nobody}, live : BOOLEAN]]
  /\ \A a \in Activities : claim[a].owner # Nobody => Act(claim[a].owner) = a

LEMMA ClaimRows ==
  /\ Unclaimed.owner = Nobody /\ NoClaim.owner = Nobody
  /\ {Unclaimed, NoClaim} \subseteq
       [stored : BOOLEAN, owner : Deliveries \cup {Nobody}, live : BOOLEAN]
<1> DEFINE Claims == [stored : BOOLEAN, owner : Deliveries \cup {Nobody}, live : BOOLEAN]
<1>1. Unclaimed \in Claims /\ Unclaimed.owner = Nobody
  BY DEF Unclaimed
<1>2. \A c \in Claims : LET other == [c EXCEPT !.stored = FALSE] IN
        other \in Claims /\ other.owner = c.owner
  OBVIOUS
<1> HIDE DEF Claims
<1>3. NoClaim \in Claims /\ NoClaim.owner = Nobody
  BY <1>1, <1>2 DEF NoClaim
<1> QED
  BY <1>1, <1>3 DEF Claims

LEMMA ClaimWrites ==
  ASSUME ClaimOK, NEW d \in Deliveries
  PROVE  /\ claim' = Freed(d) => ClaimOK'
         /\ \A a \in Activities : claim' = [claim EXCEPT ![a] = Unclaimed] => ClaimOK'
         /\ claim' = [claim EXCEPT ![Act(d)] = [stored |-> TRUE, owner |-> d, live |-> TRUE]]
              => ClaimOK'
         /\ \A kept : claim' = ClaimsAfterCascade(kept) => ClaimOK'
<1>0. /\ Act(d) \in Activities /\ Unclaimed.owner = Nobody /\ NoClaim.owner = Nobody
      /\ {Unclaimed, NoClaim} \subseteq
           [stored : BOOLEAN, owner : Deliveries \cup {Nobody}, live : BOOLEAN]
  BY ActType, ClaimRows
<1>1. ASSUME NEW a \in Activities, claim' = [claim EXCEPT ![a] = Unclaimed] PROVE ClaimOK'
  BY <1>0, <1>1 DEF ClaimOK, Act
<1>2. claim' = Freed(d) => ClaimOK'
  BY <1>0, <1>1 DEF Freed, ClaimOK, Act
<1>3. ASSUME claim' = [claim EXCEPT ![Act(d)] = [stored |-> TRUE, owner |-> d, live |-> TRUE]]
      PROVE  ClaimOK'
  BY <1>0, <1>3 DEF ClaimOK, Act
<1>4. ASSUME NEW kept, claim' = ClaimsAfterCascade(kept) PROVE ClaimOK'
  BY <1>0, <1>4 DEF ClaimOK, ClaimsAfterCascade, Act
<1> QED
  BY <1>1, <1>2, <1>3, <1>4

\* The events, the watermark and the sequence the Note was inserted after.
QueueOK ==
  /\ events \in Seq(Updates)
  /\ head \in [applied : 0..Len(events), creation : {"none", "create"}]
  /\ Pending <= MaxPending
  /\ since \in 0..head.applied

TypeInv ==
  /\ note \in NoteRow /\ QueueOK /\ ClaimOK
  /\ {receipt, inbox, edge} \subseteq BOOLEAN
  /\ processed \in [Activities -> {0, 1}]
  /\ run \in [Deliveries -> Run]
  /\ purge \in {"no", "blocked", "row", "objects", "done"}
  /\ crashes \in 0..MaxCrashes /\ faults \in 0..MaxFaults

LEMMA TypeInvStep ==
  ASSUME TypeInv, Inv, Next
  PROVE  TypeInv'
<1> USE InboundAssumption DEF At
<1>0. /\ run \in [Deliveries -> Run] /\ ClaimOK /\ QueueOK /\ note \in NoteRow
      /\ head.applied \in Nat /\ Len(events) \in Nat /\ head.creation \in {"none", "create"}
      /\ since \in Nat /\ crashes \in Nat /\ faults \in Nat
      /\ \A d \in Deliveries : /\ run[d] \in Run /\ run[d].applied \in Nat
                               /\ run[d].latest \in Nat /\ run[d].before \in NoteRow
                               /\ run[d].creation \in {"none", "create"}
                               /\ run[d].lost \in BOOLEAN
  BY DEF TypeInv, QueueOK, Run, NoteRow
<1>h. /\ {"admit", "head", "events", "note", "commit", "conflict", "notify",
          "receipt", "object", "cascade", "row", "known", "target", "edge", "finish"}
             = Handling
  BY DEF Handling
<1>f. ASSUME NEW d \in Deliveries,
             NEW pc \in Handling \cup {"owed", "claim", "clear", "release", "acked"},
             Go(d, pc)
      PROVE run' \in [Deliveries -> Run]
  BY <1>0, <1>f, RunType
<1>b. ASSUME NEW d \in Deliveries, NEW r \in Run, Becomes(d, r)
      PROVE run' \in [Deliveries -> Run]
  BY <1>0, <1>b, RunType
<1>k. ASSUME UNCHANGED <<note, events, head, receipt, inbox, edge, since>>
      PROVE note' \in NoteRow /\ QueueOK' /\ {receipt', inbox', edge'} \subseteq BOOLEAN
  BY <1>k DEF TypeInv, QueueOK, Pending
<1>1. ASSUME NEW d \in Deliveries, Receive(d) PROVE TypeInv'
  <2>1. \E pc \in {"acked", "claim"} : Go(d, pc)
    BY <1>1 DEF Receive
  <2>2. claim' = claim \/ claim' = [claim EXCEPT ![Act(d)] = Unclaimed]
    BY <1>1 DEF Receive
  <2>3. ClaimOK'
    BY <1>0, <2>2, ClaimWrites, ActType DEF ClaimOK, Act
  <2> QED
    BY <1>1, <1>f, <1>k, <2>1, <2>3 DEF Receive, TypeInv, noteVars
<1>2. ASSUME NEW d \in Deliveries, Claim(d) PROVE TypeInv'
  <2>1. \E pc \in Handling \cup {"acked"} : Go(d, pc)
    BY <1>2, <1>h DEF Claim, Handler
  <2>2. ClaimOK'
    BY <1>0, <1>2, ClaimWrites DEF Claim, ClaimOK, Act
  <2> QED
    BY <1>2, <1>f, <1>k, <2>1, <2>2 DEF Claim, TypeInv, noteVars
<1>3. ASSUME NEW d \in Deliveries, CommitDispatch(d) PROVE TypeInv'
  <2>1. \E pc \in {"clear", "release"} : Go(d, pc)
    BY <1>3 DEF CommitDispatch
  <2>2. processed' \in [Activities -> {0, 1}]
    BY <1>3 DEF CommitDispatch, TypeInv
  <2>3. ClaimOK'
    BY <1>0, <1>3 DEF CommitDispatch, ClaimOK, Act
  <2> QED
    BY <1>3, <1>f, <1>k, <2>1, <2>2, <2>3 DEF CommitDispatch, TypeInv, noteVars
<1>4. ASSUME NEW d \in Deliveries, ClearClaim(d) \/ Release(d) PROVE TypeInv'
  <2>1. \E pc \in {"acked", "owed"} : Go(d, pc)
    BY <1>4 DEF ClearClaim, Release, Idle, Go
  <2>2. ClaimOK'
    BY <1>0, <1>4, ClaimWrites DEF ClearClaim, Release
  <2> QED
    BY <1>4, <1>f, <1>k, <2>1, <2>2 DEF ClearClaim, Release, TypeInv, noteVars
<1>5. ASSUME NEW d \in Deliveries, AdmitUpdate(d) PROVE TypeInv'
  <2>1. \E pc \in Handling \cup {"release"} : Go(d, pc)
    BY <1>5, <1>h DEF AdmitUpdate
  <2>2. Act(d) \in Updates
    BY <1>5 DEF AdmitUpdate, Inv, UpdateRun
  <2>3. QueueOK'
    <3>1. CASE events' = events
      BY <1>0, <1>5, <3>1 DEF AdmitUpdate, QueueOK, Pending
    <3>2. CASE events' = Append(events, Act(d)) /\ Pending < MaxPending
      <4>1. events' \in Seq(Updates) /\ Len(events') = Len(events) + 1
        BY <1>0, <2>2, <3>2 DEF QueueOK
      <4> QED
        BY <1>0, <1>5, <3>2, <4>1 DEF AdmitUpdate, QueueOK, Pending
    <3> QED
      BY <1>5, <3>1, <3>2 DEF AdmitUpdate, HasRoom
  <2>4. ClaimOK'
    BY <1>0, <1>5 DEF AdmitUpdate, ClaimOK, Act
  <2> QED
    BY <1>5, <1>f, <2>1, <2>3, <2>4 DEF AdmitUpdate, TypeInv
<1>6. ASSUME NEW d \in Deliveries,
             \/ LoadHead(d) \/ LoadEvents(d) \/ ReadNote(d) \/ Conflict(d) \/ ReadObject(d)
             \/ LookUp(d) \/ ReadTarget(d) \/ HandlerFails(d) \/ Crash(d)
      PROVE TypeInv'
  <2>1. UNCHANGED <<noteVars, processed, claim, purge>>
    BY <1>6 DEF LoadHead, LoadEvents, ReadNote, Conflict, ReadObject, LookUp, ReadTarget,
       HandlerFails, Crash
  <2>2. crashes' \in 0..MaxCrashes /\ faults' \in 0..MaxFaults
    <3>1. \/ UNCHANGED <<crashes, faults>>
          \/ faults < MaxFaults /\ faults' = faults + 1 /\ crashes' = crashes
          \/ crashes < MaxCrashes /\ crashes' = crashes + 1 /\ faults' = faults
      BY <1>6 DEF LoadHead, LoadEvents, ReadNote, Conflict, ReadObject, LookUp, ReadTarget,
         HandlerFails, Crash
    <3> QED
      BY <3>1 DEF TypeInv
  <2>3. CASE \E pc \in Handling \cup {"release", "owed"} : Go(d, pc)
    BY <1>f, <1>k, <2>1, <2>2, <2>3 DEF TypeInv, noteVars, ClaimOK, Act
  <2>4. CASE \E r \in Run : Becomes(d, r)
    BY <1>b, <1>k, <2>1, <2>2, <2>4 DEF TypeInv, noteVars, ClaimOK, Act
  <2>5. (\E pc \in Handling \cup {"release", "owed"} : Go(d, pc)) \/ (\E r \in Run : Becomes(d, r))
    <3>1. CASE LoadHead(d)
      BY <1>0, <1>h, <3>1, SnapType, RowType DEF LoadHead
    <3>2. CASE LoadEvents(d)
      <4>1. AfterEvents(d) \in Handling \cup {"release"}
        BY <1>h DEF AfterEvents
      <4>2. Snap("note", run[d].applied, Len(events), run[d].creation,
                 head.applied > run[d].applied, NoNote) \in Run
        <5>1. (head.applied > run[d].applied) \in BOOLEAN
          OBVIOUS
        <5> QED
          BY <1>0, <1>h, <5>1, SnapType, RowType
      <4> QED
        BY <3>2, <4>1, <4>2 DEF LoadEvents
    <3>3. CASE ReadNote(d)
      BY <1>0, <1>h, <3>3, SnapType DEF ReadNote
    <3>4. CASE Conflict(d)
      BY <1>h, <3>4 DEF Conflict, AfterConflict
    <3>5. CASE ReadObject(d)
      BY <1>0, <1>h, <3>5, SnapType DEF ReadObject
    <3>6. CASE LookUp(d) \/ ReadTarget(d)
      BY <1>h, <3>6 DEF LookUp, ReadTarget
    <3>7. CASE HandlerFails(d) \/ Crash(d)
      BY <3>7 DEF HandlerFails, Crash, Idle, Go
    <3> QED
      BY <1>6, <3>1, <3>2, <3>3, <3>4, <3>5, <3>6, <3>7
  <2> QED
    BY <2>3, <2>4, <2>5
<1>7. ASSUME NEW d \in Deliveries, CommitProjection(d) PROVE TypeInv'
  <2> DEFINE r == run[d]
             next == Snap("notify", r.latest, r.latest, Creator(d, r), FALSE, Projected(d, r))
  <2>0. ClaimOK'
    BY <1>0, <1>7 DEF CommitProjection, ClaimOK, Act
  <2>1. CASE ~r.lost /\ WindowHolds(r)
    <3>1. /\ note' = Projected(d, r) /\ head' = [applied |-> r.latest, creation |-> Creator(d, r)]
          /\ since' = IF r.before = NoNote THEN r.applied ELSE since
          /\ IF AfterCommit(d) # "notify" THEN Go(d, AfterCommit(d)) ELSE Becomes(d, next)
      BY <1>7, <2>1 DEF CommitProjection
    <3>2. /\ r.applied = head.applied /\ r.latest = Len(events) /\ head.applied <= Len(events)
          /\ since <= head.applied /\ events \in Seq(Updates)
      BY <1>0, <2>1 DEF WindowHolds, QueueOK
    <3>3. Folded(r.applied, r.latest) \in Seq(Updates)
      BY <1>0, <3>2, FoldType DEF Folded
    <3>4. Projected(d, r) \in NoteRow
      <4>1. r.before.edits \o Folded(r.applied, r.latest) \in Seq(Updates)
        BY <1>0, <3>3 DEF NoteRow
      <4>2. r.before.base \in {"none", "created", "fetched"}
        BY <1>0 DEF NoteRow
      <4> QED
        BY <4>1, <4>2 DEF Projected, NoteRow
    <3>5. Creator(d, r) \in {"none", "create"}
      BY <1>0 DEF Creator
    <3>6. run' \in [Deliveries -> Run]
      <4>1. AfterCommit(d) \in Handling
        BY <1>h DEF AfterCommit
      <4>2. next \in Run
        BY <1>0, <1>h, <3>4, <3>5, SnapType
      <4> HIDE DEF next
      <4> QED
        BY <1>b, <1>f, <3>1, <4>1, <4>2
    <3>7. QueueOK'
      <4>1. events' = events
        BY <1>7 DEF CommitProjection
      <4>2. /\ head' \in [applied : 0..Len(events'), creation : {"none", "create"}]
            /\ head'.applied = Len(events)
        BY <1>0, <3>1, <3>2, <3>5, <4>1
      <4> QED
        BY <1>0, <3>1, <3>2, <4>1, <4>2 DEF QueueOK, Pending
    <3> HIDE DEF next
    <3> QED
      BY <1>7, <2>0, <3>1, <3>4, <3>6, <3>7 DEF CommitProjection, TypeInv
  <2>2. CASE r.lost \/ ~WindowHolds(r)
    <3>1. /\ UNCHANGED <<note, events, head, receipt, inbox, edge, since>>
          /\ \E pc \in {"release", "conflict"} : Go(d, pc)
      BY <1>7, <2>2 DEF CommitProjection
    <3> QED
      BY <1>7, <1>f, <1>h, <1>k, <2>0, <3>1 DEF CommitProjection, TypeInv
  <2> QED
    BY <2>1, <2>2
<1>8. ASSUME NEW d \in Deliveries, Notify(d) \/ WriteReceipt(d) \/ WriteEdge(d) PROVE TypeInv'
  <2>1. /\ UNCHANGED <<note, events, head, since, processed, claim, purge, crashes, faults>>
        /\ \E pc \in Handling : Go(d, pc)
    BY <1>8, <1>h DEF Notify, WriteReceipt, WriteEdge
  <2>2. {receipt', inbox', edge'} \subseteq BOOLEAN
    BY <1>8 DEF Notify, WriteReceipt, WriteEdge, TypeInv, WindowHolds
  <2> QED
    BY <1>f, <2>1, <2>2 DEF TypeInv, QueueOK, Pending, ClaimOK, Act
<1>9. ASSUME NEW d \in Deliveries, Cascade(d) \/ DeleteRow(d) PROVE TypeInv'
  <2>1. /\ UNCHANGED <<events, head, receipt, since, processed, purge, crashes, faults>>
        /\ {inbox', edge'} \subseteq BOOLEAN /\ note' \in {note, NoNote}
        /\ claim' = claim \/ claim' = ClaimsAfterCascade({Act(d)})
    BY <1>9 DEF Cascade, DeleteRow, TypeInv
  <2>2. run' \in [Deliveries -> Run]
    <3>1. Snap("row", 0, 0, "none", FALSE, note) \in Run
      BY <1>0, <1>h, SnapType
    <3> QED
      BY <1>9, <1>b, <1>f, <1>h, <3>1 DEF Cascade, DeleteRow
  <2>3. ClaimOK'
    BY <1>0, <2>1, ClaimWrites DEF ClaimOK, Act
  <2> QED
    BY <2>1, <2>2, <2>3, RowType DEF TypeInv, QueueOK, Pending
<1>10. ASSUME NEW a \in Activities, LeaseExpires(a) PROVE TypeInv'
  <2>1. /\ UNCHANGED <<noteVars, processed, run, purge, crashes>>
        /\ faults' \in 0..MaxFaults
    BY <1>0, <1>10 DEF LeaseExpires, TypeInv
  <2>2. ClaimOK'
    BY <1>0, <1>10 DEF LeaseExpires, ClaimOK, Act
  <2> QED
    BY <1>k, <2>1, <2>2 DEF TypeInv, noteVars
<1>11. ASSUME Block \/ Purging PROVE TypeInv'
  <2>1. /\ UNCHANGED <<events, head, receipt, since, run, crashes>>
        /\ {inbox', edge'} \subseteq BOOLEAN /\ note' \in {note, NoNote}
        /\ purge' \in {"no", "blocked", "row", "objects", "done"}
        /\ claim' = claim \/ \E kept : claim' = ClaimsAfterCascade(kept)
    BY <1>11 DEF Block, Purging, PurgeCascade, PurgeRow, PurgeActivities, TypeInv, noteVars
  <2>4. faults' \in 0..MaxFaults
    <3>1. faults' = faults \/ (faults < MaxFaults /\ faults' = faults + 1)
      BY <1>11 DEF Block, Purging, PurgeCascade, PurgeRow, PurgeActivities
    <3> QED
      BY <3>1 DEF TypeInv
  <2>2. processed' \in [Activities -> {0, 1}]
    BY <1>11 DEF Block, Purging, PurgeCascade, PurgeRow, PurgeActivities, TypeInv, noteVars
  <2>3. ClaimOK'
    <3>1. CASE claim' = claim
      BY <1>0, <3>1 DEF ClaimOK, Act
    <3>2. ASSUME NEW kept, claim' = ClaimsAfterCascade(kept) PROVE ClaimOK'
      BY <1>0, <3>2, ClaimRows DEF ClaimOK, ClaimsAfterCascade, Act
    <3> QED
      BY <2>1, <3>1, <3>2
  <2> QED
    BY <2>1, <2>2, <2>3, <2>4, RowType DEF TypeInv, QueueOK, Pending
<1> QED
  BY <1>1, <1>2, <1>3, <1>4, <1>5, <1>6, <1>7, <1>8, <1>9, <1>10, <1>11 DEF Next, Step

LEMMA TypeInvInit == Init => TypeInv
<1> SUFFICES ASSUME Init PROVE TypeInv
  OBVIOUS
<1> USE InboundAssumption
<1>1. Idle \in Run
  BY FreshType DEF Idle
<1>2. ClaimOK
  BY DEF Init, ClaimOK, NoClaim, Unclaimed
<1>3. QueueOK
  <2>1. events = <<>> /\ head = [applied |-> 0, creation |-> "none"] /\ since = 0
    BY DEF Init
  <2>2. events \in Seq(Updates) /\ Len(events) = 0
    BY <2>1
  <2> QED
    BY <2>1, <2>2 DEF QueueOK, Pending
<1>4. run \in [Deliveries -> Run] /\ processed \in [Activities -> {0, 1}]
  BY <1>1 DEF Init
<1>5. note \in NoteRow /\ {receipt, inbox, edge} \subseteq BOOLEAN
  BY RowType DEF Init
<1> QED
  BY <1>2, <1>3, <1>4, <1>5 DEF Init, TypeInv

(* Every row, claim and snapshot keeps its type; the watermark stays within  *)
(* the admitted sequence, whose pending part is never longer than the queue. *)
THEOREM TypeCorrect == Spec => []TypeOK
<1>1. TypeInv <=> TypeOK
  BY DEF TypeInv, TypeOK, NoteRow, QueueOK, ClaimOK
<1>2. TypeInv /\ UNCHANGED vars => TypeInv'
  BY DEF vars, noteVars, TypeInv, QueueOK, Pending, ClaimOK, Act
<1> QED
  BY <1>1, <1>2, TypeInvInit, TypeInvStep, Invariant, PTL DEF Spec

-----------------------------------------------------------------------------
(* The edits of a retained Note.                                           *)

LEMMA EditsStep ==
  ASSUME TypeInv, EditsFollowAdmission, Next
  PROVE  EditsFollowAdmission'
<1> USE DEF EditsFollowAdmission
<1>0. /\ events \in Seq(Updates) /\ Len(events) \in Nat
      /\ head.applied \in Nat /\ head.applied <= Len(events)
      /\ since \in Nat /\ since <= head.applied
  BY DEF TypeInv, QueueOK
<1>1. CASE /\ note' \in {note, NoNote} /\ UNCHANGED <<head, since>>
           /\ \A i \in 1..Len(events) : events'[i] = events[i]
  <2>1. \A i \in (since + 1)..head.applied : events[i] = events'[i]
    BY <1>0, <1>1
  <2>2. Fold(events', since, head.applied) = Fold(events, since, head.applied)
    BY <1>0, <2>1, FoldKept
  <2> QED
    BY <1>1, <2>2 DEF Folded
<1>2. ASSUME NEW d \in Deliveries, CommitProjection(d) PROVE EditsFollowAdmission'
  <2> DEFINE r == run[d]
  <2>1. CASE r.lost \/ ~WindowHolds(r)
    BY <1>1, <1>2, <2>1 DEF CommitProjection
  <2>2. CASE ~r.lost /\ WindowHolds(r)
    <3>1. /\ note' = Projected(d, r) /\ head' = [applied |-> r.latest, creation |-> Creator(d, r)]
          /\ since' = IF r.before = NoNote THEN r.applied ELSE since
          /\ events' = events
      BY <1>2, <2>2 DEF CommitProjection
    <3>2. r.applied = head.applied /\ r.latest = Len(events) /\ r.before = note
      BY <2>2 DEF WindowHolds
    <3>3. /\ note'.edits = note.edits \o Fold(events, head.applied, Len(events))
          /\ head'.applied = Len(events)
      BY <3>1, <3>2 DEF Projected, Folded
    <3>4. /\ Fold(events, head.applied, Len(events)) \in Seq(Updates)
          /\ Fold(events, since, head.applied) \o Fold(events, head.applied, Len(events))
               = Fold(events, since, Len(events))
      <4>1. Len(events) <= Len(events)
        BY <1>0
      <4>2. Fold(events, head.applied, Len(events)) \in Seq(Updates)
        BY <1>0, <4>1, FoldType
      <4>3. Fold(events, since, head.applied) \o Fold(events, head.applied, Len(events))
              = Fold(events, since, Len(events))
        BY <1>0, <4>1, FoldJoins
      <4> QED
        BY <4>2, <4>3
    <3>5. CASE note = NoNote
      <4>1. note.edits = <<>> /\ since' = head.applied
        BY <3>1, <3>2, <3>5, RowType
      <4> QED
        BY <3>1, <3>3, <3>4, <4>1 DEF Folded
    <3>6. CASE note # NoNote
      BY <3>1, <3>2, <3>3, <3>4, <3>6 DEF Folded
    <3> QED
      BY <3>5, <3>6
  <2> QED
    BY <2>1, <2>2
<1>3. ASSUME NEW d \in Deliveries, AdmitUpdate(d) PROVE EditsFollowAdmission'
  <2>1. \A i \in 1..Len(events) : events'[i] = events[i]
    BY <1>0, <1>3 DEF AdmitUpdate
  <2> QED
    BY <1>1, <1>3, <2>1 DEF AdmitUpdate
<1>4. ASSUME NEW d \in Deliveries,
             \/ Receive(d) \/ Claim(d) \/ CommitDispatch(d) \/ ClearClaim(d) \/ Release(d)
             \/ LoadHead(d) \/ LoadEvents(d) \/ ReadNote(d) \/ Notify(d) \/ Conflict(d)
             \/ WriteReceipt(d) \/ ReadObject(d) \/ Cascade(d) \/ DeleteRow(d) \/ LookUp(d)
             \/ ReadTarget(d) \/ WriteEdge(d) \/ HandlerFails(d) \/ Crash(d)
      PROVE  EditsFollowAdmission'
  <2>1. note' \in {note, NoNote} /\ UNCHANGED <<events, head, since>>
    BY <1>4 DEF Receive, Claim, CommitDispatch, ClearClaim, Release, LoadHead, LoadEvents,
       ReadNote, Notify, Conflict, WriteReceipt, ReadObject, Cascade, DeleteRow, LookUp,
       ReadTarget, WriteEdge, HandlerFails, Crash, noteVars
  <2> QED
    BY <1>1, <2>1
<1>5. ASSUME (\E a \in Activities : LeaseExpires(a)) \/ Block \/ Purging
      PROVE  EditsFollowAdmission'
  <2>1. note' \in {note, NoNote} /\ UNCHANGED <<events, head, since>>
    BY <1>5 DEF LeaseExpires, Block, Purging, PurgeCascade, PurgeRow, PurgeActivities, noteVars
  <2> QED
    BY <1>1, <2>1
<1> QED
  BY <1>2, <1>3, <1>4, <1>5 DEF Next, Step

(* The content of a retained Note is the fold of the accepted Updates that   *)
(* were admitted after it was inserted, up to the watermark: a projection    *)
(* that is guarded by its window neither skips, repeats nor reorders one.    *)
THEOREM EditsInOrder == Spec => []EditsFollowAdmission
<1>1. Init => EditsFollowAdmission
  BY DEF Init, EditsFollowAdmission
<1>2. TypeInv <=> TypeOK
  BY DEF TypeInv, TypeOK, NoteRow, QueueOK, ClaimOK
<1>3. EditsFollowAdmission /\ UNCHANGED vars => EditsFollowAdmission'
  BY DEF vars, noteVars, EditsFollowAdmission, Folded
<1> QED
  BY <1>1, <1>2, <1>3, EditsStep, TypeCorrect, PTL DEF Spec

-----------------------------------------------------------------------------
(* The notification of the Create.                                         *)

\* A retained Note made by the Create has notified the mentioned actor; a Note
\* that is deleted or purged needs not.
Told == \/ receipt \/ purge # "no"
        \/ note # NoNote /\ (head.creation = "create" => inbox)

\* A snapshot that saw the Create recorded saw the truth; a dispatch of the
\* Create that is about to finish has told, or had nothing to tell.
CreateRun(d) ==
  /\ run[d].creation = "create" => receipt \/ purge # "no" \/ head.creation = "create"
  /\ Act(d) = "create" => run[d].pc \in Early \cup
       {"head", "events", "note", "commit", "conflict", "notify", "finish"}
  /\ Act(d) = "create" /\ run[d].pc = "finish" => Told

\* Without a Delete or a purge the Note that the Create made stays.
CreateInv ==
  /\ head.creation = "create" => receipt \/ purge # "no" \/ note # NoNote
  /\ \A d \in Deliveries : CreateRun(d)
  /\ processed["create"] = 1 => Told

\* What no step undoes while the Note is neither deleted nor purged.
NoteStays ==
  /\ receipt => receipt'
  /\ purge # "no" => purge' # "no"
  /\ \/ receipt' \/ purge' # "no"
     \/ /\ note # NoNote => note' # NoNote /\ head'.creation = head.creation
        /\ inbox => inbox'
        /\ head' = head \/ note' # NoNote

LEMMA NoteStaysStep ==
  ASSUME TypeInv, Inv, Next
  PROVE  NoteStays
<1>1. ASSUME NEW d \in Deliveries, CommitProjection(d) PROVE NoteStays
  <2> DEFINE r == run[d]
  <2>1. CASE r.lost \/ ~WindowHolds(r)
    BY <1>1, <2>1 DEF CommitProjection, NoteStays
  <2>2. CASE ~r.lost /\ WindowHolds(r)
    <3>1. /\ note' = Projected(d, r) /\ head' = [applied |-> r.latest, creation |-> Creator(d, r)]
          /\ UNCHANGED <<receipt, inbox, purge>>
      BY <1>1, <2>2 DEF CommitProjection
    <3>2. note' # NoNote
      BY <3>1, ProjectedIsNote DEF Inv, Snapshot
    <3>3. note # NoNote => head'.creation = head.creation
      BY <2>2, <3>1 DEF WindowHolds, Creator
    <3> QED
      BY <3>1, <3>2, <3>3 DEF NoteStays
  <2> QED
    BY <2>1, <2>2
<1>2. ASSUME NEW d \in Deliveries, Cascade(d) \/ DeleteRow(d) PROVE NoteStays
  <2>1. receipt /\ receipt' = receipt /\ purge' = purge
    <3>1. run[d].pc \in {"cascade", "row"} /\ UNCHANGED <<receipt, purge>>
      BY <1>2 DEF Cascade, DeleteRow, At
    <3>2. DeleteRun(d)
      BY DEF Inv
    <3> QED
      BY <3>1, <3>2 DEF DeleteRun
  <2> QED
    BY <2>1 DEF NoteStays
<1>3. ASSUME NEW d \in Deliveries,
             \/ Receive(d) \/ Claim(d) \/ CommitDispatch(d) \/ ClearClaim(d) \/ Release(d)
             \/ LoadHead(d) \/ LoadEvents(d) \/ ReadNote(d) \/ Notify(d) \/ Conflict(d)
             \/ WriteReceipt(d) \/ ReadObject(d) \/ LookUp(d) \/ AdmitUpdate(d)
             \/ ReadTarget(d) \/ WriteEdge(d) \/ HandlerFails(d) \/ Crash(d)
      PROVE  NoteStays
  <2>1. /\ UNCHANGED <<note, head, purge>>
        /\ receipt' = receipt \/ receipt' = TRUE
        /\ inbox' = inbox \/ inbox' = (inbox \/ WindowHolds(run[d]))
    BY <1>3, Zenon DEF Receive, Claim, CommitDispatch, ClearClaim, Release, LoadHead,
       LoadEvents, ReadNote, Notify, Conflict, WriteReceipt, ReadObject, LookUp, AdmitUpdate,
       ReadTarget, WriteEdge, HandlerFails, Crash, noteVars
  <2>2. receipt => receipt'
    BY <2>1
  <2>3. inbox => inbox'
    BY <2>1
  <2> QED
    BY <2>1, <2>2, <2>3 DEF NoteStays
<1>4. ASSUME (\E a \in Activities : LeaseExpires(a)) \/ Block \/ Purging PROVE NoteStays
  <2>1. /\ UNCHANGED <<head, receipt>>
        /\ purge' = "no" => UNCHANGED <<note, inbox, purge>>
    BY <1>4 DEF LeaseExpires, Block, Purging, PurgeCascade, PurgeRow, PurgeActivities, noteVars
  <2> QED
    BY <2>1 DEF NoteStays
<1> QED
  BY <1>1, <1>2, <1>3, <1>4 DEF Next, Step

LEMMA ToldStays ==
  ASSUME NoteStays, head.creation = "create" => receipt \/ purge # "no" \/ note # NoNote
  PROVE  /\ Told => Told'
         /\ receipt \/ purge # "no" \/ head.creation = "create"
              => receipt' \/ purge' # "no" \/ head'.creation = "create"
         /\ head'.creation = "create" => receipt' \/ purge' # "no" \/ note' # NoNote
BY DEF NoteStays, Told

\* A step of a delivery changes what that delivery is doing and nobody else's.
LEMMA OneMoves ==
  ASSUME Inv, NEW d \in Deliveries, Step(d) \/ HandlerFails(d) \/ Crash(d)
  PROVE  \A e \in Deliveries : e # d => run'[e] = run[e]
<1>1. \E r : run' = [run EXCEPT ![d] = r]
  BY DEF Step, Receive, Claim, CommitDispatch, ClearClaim, Release, AdmitUpdate, LoadHead,
     LoadEvents, ReadNote, CommitProjection, Notify, Conflict, WriteReceipt, ReadObject,
     Cascade, DeleteRow, LookUp, ReadTarget, WriteEdge, HandlerFails, Crash, Go, Becomes
<1> QED
  BY <1>1 DEF Inv, Shape

LEMMA FreshCreation == \A pc : Fresh(pc).creation = "none"
BY DEF Fresh, Snap

LEMMA GoRun ==
  ASSUME NEW d \in Deliveries, NEW pc, DOMAIN run = Deliveries, Go(d, pc)
  PROVE  run'[d].pc = pc /\ run'[d].creation = "none"
BY FreshCreation, FreshFields DEF Go, Becomes

LEMMA CreateRunStep ==
  ASSUME TypeInv, Inv, CreateInv, NoteStays, NEW d \in Deliveries,
         Step(d) \/ HandlerFails(d) \/ Crash(d)
  PROVE  CreateRun(d)'
<1> USE DEF At
<1>0. /\ DOMAIN run = Deliveries /\ CreateRun(d)
      /\ Told => Told'
      /\ receipt \/ purge # "no" \/ head.creation = "create"
           => receipt' \/ purge' # "no" \/ head'.creation = "create"
  BY ToldStays DEF Inv, Shape, CreateInv
<1>a. ASSUME NEW pc, Go(d, pc),
             Act(d) = "create" => pc \in Early \cup
               {"head", "events", "note", "commit", "conflict", "notify"}
      PROVE  CreateRun(d)'
  BY <1>0, <1>a, GoRun DEF CreateRun, Act, Early
<1>b. ASSUME Go(d, "finish"), Act(d) = "create" => Told' PROVE CreateRun(d)'
  BY <1>0, <1>b, GoRun DEF CreateRun, Act, Early
<1>c. ASSUME NEW r, Becomes(d, r), r.pc # "finish",
             Act(d) = "create" => r.pc \in {"events", "note", "commit", "notify"},
             r.creation = "create" => receipt' \/ purge' # "no" \/ head'.creation = "create"
      PROVE  CreateRun(d)'
  BY <1>0, <1>c, BecomesRun DEF CreateRun, Act
<1>1. CASE Receive(d) \/ ClearClaim(d) \/ Release(d) \/ HandlerFails(d) \/ Crash(d)
  <2>1. \E pc \in Early : Go(d, pc)
    BY <1>1 DEF Receive, ClearClaim, Release, HandlerFails, Crash, Idle, Go, Early
  <2> QED
    BY <1>a, <2>1
<1>2. CASE Claim(d)
  <2>1. Handler("create") = "head"
    BY InboundAssumption DEF Handler
  <2>2. Go(d, "acked") \/ Go(d, Handler(Act(d)))
    BY <1>2 DEF Claim
  <2> QED
    BY <1>a, <2>1, <2>2 DEF Early
<1>3. CASE CommitDispatch(d)
  BY <1>3, <1>a DEF CommitDispatch, Early
<1>4. CASE \/ AdmitUpdate(d) \/ WriteReceipt(d) \/ ReadObject(d) \/ Cascade(d)
           \/ DeleteRow(d) \/ LookUp(d) \/ ReadTarget(d) \/ WriteEdge(d)
  <2>1. Act(d) # "create"
    BY <1>0, <1>4 DEF CreateRun, Early, AdmitUpdate, WriteReceipt, ReadObject, Cascade,
       DeleteRow, LookUp, ReadTarget, WriteEdge
  <2>2. (\E pc : Go(d, pc)) \/ \E pc \in {"cascade", "row"} :
          Becomes(d, Snap(pc, 0, 0, "none", FALSE, note))
    BY <1>4 DEF AdmitUpdate, WriteReceipt, ReadObject, Cascade, DeleteRow, LookUp, ReadTarget,
       WriteEdge
  <2>3. run'[d].creation = "none"
    <3>1. CASE \E pc : Go(d, pc)
      BY <1>0, <3>1, GoRun
    <3>2. ASSUME NEW pc, Becomes(d, Snap(pc, 0, 0, "none", FALSE, note))
          PROVE run'[d].creation = "none"
      <4>1. Snap(pc, 0, 0, "none", FALSE, note).creation = "none"
        BY DEF Snap
      <4> QED
        BY <1>0, <3>2, <4>1, BecomesRun
    <3> QED
      BY <2>2, <3>1, <3>2
  <2> QED
    BY <2>1, <2>3 DEF CreateRun, Act
<1>5. CASE LoadHead(d)
  <2> DEFINE r == Snap("events", head.applied, 0, head.creation, FALSE, NoNote)
  <2>1. Becomes(d, r)
    BY <1>5 DEF LoadHead
  <2>2. r.pc = "events" /\ r.creation = head.creation
    BY DEF Snap
  <2> HIDE DEF r
  <2> QED
    BY <1>0, <1>c, <2>1, <2>2
<1>6. CASE LoadEvents(d)
  <2> DEFINE r == Snap("note", run[d].applied, Len(events), run[d].creation,
                       head.applied > run[d].applied, NoNote)
  <2>1. \/ AfterEvents(d) # "note" /\ Go(d, AfterEvents(d))
        \/ Becomes(d, r)
    BY <1>6 DEF LoadEvents
  <2>2. r.pc = "note" /\ r.creation = run[d].creation
    BY DEF Snap
  <2>3. AfterEvents(d) \in {"note", "conflict", "release"}
    BY DEF AfterEvents
  <2>4. r.creation = "create" => receipt' \/ purge' # "no" \/ head'.creation = "create"
    BY <1>0, <2>2 DEF CreateRun
  <2> HIDE DEF r
  <2> QED
    BY <1>a, <1>c, <2>1, <2>2, <2>3, <2>4 DEF Early
<1>7. CASE ReadNote(d)
  <2> DEFINE r == Snap("commit", run[d].applied, run[d].latest, run[d].creation,
                       run[d].lost, note)
  <2>1. \/ ReadEnds(d) /\ Go(d, "finish")
        \/ Becomes(d, r)
    BY <1>7 DEF ReadNote
  <2>2. r.pc = "commit" /\ r.creation = run[d].creation
    BY DEF Snap
  <2>3. r.creation = "create" => receipt' \/ purge' # "no" \/ head'.creation = "create"
    BY <1>0, <2>2 DEF CreateRun
  <2>4. ReadEnds(d) /\ Act(d) = "create" => Told'
    <3>1. ReadEnds(d) /\ Act(d) = "create" => note = NoNote /\ run[d].creation = "create"
      BY InboundAssumption DEF ReadEnds
    <3> QED
      BY <1>0, <3>1 DEF CreateRun, CreateInv, Told
  <2> HIDE DEF r
  <2> QED
    BY <1>b, <1>c, <2>1, <2>2, <2>3, <2>4
<1>8. CASE CommitProjection(d)
  <2> DEFINE r == run[d]
             next == Snap("notify", r.latest, r.latest, Creator(d, r), FALSE, Projected(d, r))
  <2>1. CASE r.lost \/ ~WindowHolds(r)
    BY <1>8, <1>a, <2>1 DEF CommitProjection, Early
  <2>2. CASE ~r.lost /\ WindowHolds(r)
    <3>1. /\ note' = Projected(d, r) /\ head' = [applied |-> r.latest, creation |-> Creator(d, r)]
          /\ \/ AfterCommit(d) # "notify" /\ Go(d, AfterCommit(d))
             \/ Becomes(d, next)
      BY <1>8, <2>2 DEF CommitProjection
    <3>2. note' # NoNote
      BY <3>1, ProjectedIsNote DEF Inv, Snapshot
    <3>3. next.pc = "notify" /\ next.creation = Creator(d, r)
      BY DEF Snap
    <3>4. AfterCommit(d) # "notify" /\ Act(d) = "create" =>
            AfterCommit(d) = "finish" /\ head'.creation # "create"
      BY <3>1 DEF AfterCommit, MayNotify, Creator
    <3>5. head'.creation = Creator(d, r)
      BY <3>1
    <3>6. AfterCommit(d) \in {"target", "notify", "finish"}
      BY DEF AfterCommit
    <3> HIDE DEF next
    <3>7. CASE AfterCommit(d) # "notify" /\ Go(d, AfterCommit(d))
      BY <1>a, <1>b, <3>2, <3>4, <3>6, <3>7 DEF Told
    <3>8. CASE Becomes(d, next)
      BY <1>c, <3>3, <3>5, <3>8
    <3> QED
      BY <3>1, <3>7, <3>8
  <2> QED
    BY <2>1, <2>2
<1>9. CASE Notify(d)
  <2>1. CASE WindowHolds(run[d])
    <3>1. Go(d, "finish") /\ inbox' = TRUE /\ note' = note
      BY <1>9, <2>1 DEF Notify
    <3>2. note # NoNote
      BY <1>9, <2>1 DEF Notify, WindowHolds, Inv, Snapshot
    <3> QED
      BY <1>b, <3>1, <3>2 DEF Told
  <2>2. CASE ~WindowHolds(run[d])
    BY <1>9, <1>a, <2>2 DEF Notify
  <2> QED
    BY <2>1, <2>2
<1>10. CASE Conflict(d)
  <2>1. AfterConflict(d) \in {"release", "target", "finish"}
    BY DEF AfterConflict
  <2>2. Act(d) = "create" => AfterConflict(d) = "release" \/ (AfterConflict(d) = "finish" /\ Told)
    BY DEF AfterConflict, Superseded, CreateInv, Told
  <2>3. Go(d, AfterConflict(d))
    BY <1>10 DEF Conflict
  <2> QED
    BY <1>0, <1>a, <1>b, <2>1, <2>2, <2>3 DEF Early
<1> QED
  BY <1>1, <1>2, <1>3, <1>4, <1>5, <1>6, <1>7, <1>8, <1>9, <1>10 DEF Step

LEMMA CreateInvStep ==
  ASSUME TypeInv, Inv, CreateInv, Next
  PROVE  CreateInv'
<1>1. NoteStays
  BY NoteStaysStep
<1>2. /\ Told => Told'
      /\ receipt \/ purge # "no" \/ head.creation = "create"
           => receipt' \/ purge' # "no" \/ head'.creation = "create"
      /\ head'.creation = "create" => receipt' \/ purge' # "no" \/ note' # NoNote
  BY <1>1, ToldStays DEF CreateInv
<1>3. ASSUME NEW e \in Deliveries, run'[e] = run[e] PROVE CreateRun(e)'
  <2>1. CreateRun(e)
    BY DEF CreateInv
  <2> QED
    BY <1>2, <1>3, <2>1 DEF CreateRun, Act
<1>4. CASE \E d \in Deliveries : Step(d) \/ HandlerFails(d) \/ Crash(d)
  <2>1. PICK d \in Deliveries : Step(d) \/ HandlerFails(d) \/ Crash(d)
    BY <1>4
  <2>2. \A e \in Deliveries : CreateRun(e)'
    BY <1>1, <1>3, <2>1, CreateRunStep, OneMoves
  <2>3. processed'["create"] = 1 => Told'
    <3>1. CASE processed' = processed
      BY <1>2, <3>1 DEF CreateInv
    <3>2. CASE CommitDispatch(d)
      <4>1. processed'["create"] = 1 => processed["create"] = 1 \/ Act(d) = "create"
        BY <3>2 DEF CommitDispatch, TypeInv, Activities, Author
      <4>2. Act(d) = "create" => Told
        BY <3>2 DEF CommitDispatch, At, CreateInv, CreateRun
      <4> QED
        BY <1>2, <4>1, <4>2 DEF CreateInv
    <3>3. processed' = processed \/ CommitDispatch(d)
      BY <2>1 DEF Step, Receive, Claim, ClearClaim, Release, AdmitUpdate, LoadHead,
         LoadEvents, ReadNote, CommitProjection, Notify, Conflict, WriteReceipt, ReadObject,
         Cascade, DeleteRow, LookUp, ReadTarget, WriteEdge, HandlerFails, Crash
    <3> QED
      BY <3>1, <3>2, <3>3
  <2> QED
    BY <1>2, <2>2, <2>3 DEF CreateInv
<1>5. CASE (\E a \in Activities : LeaseExpires(a)) \/ Block \/ Purging
  <2>1. run' = run
    BY <1>5 DEF LeaseExpires, Block, Purging, PurgeCascade, PurgeRow, PurgeActivities
  <2>2. processed'["create"] = 1 => processed["create"] = 1
    BY <1>5 DEF LeaseExpires, Block, Purging, PurgeCascade, PurgeRow, PurgeActivities,
       Activities, Author
  <2> QED
    BY <1>2, <1>3, <2>1, <2>2 DEF CreateInv
<1> QED
  BY <1>4, <1>5 DEF Next

(* A Create that is done and whose Note is retained has notified the         *)
(* mentioned actor, however its notification raced an Update, a fetch of the *)
(* same Note by an Announce or another dispatch of the same Create.          *)
THEOREM CreateNotifies == Spec => []CreateHasNotified
<1>1. Init => CreateInv
  <2> SUFFICES ASSUME Init PROVE CreateInv
    OBVIOUS
  <2>1. \A d \in Deliveries : run[d].pc = "owed" /\ run[d].creation = "none"
    BY FreshFields, FreshCreation DEF Init, Idle
  <2>2. processed["create"] = 0 /\ head.creation = "none"
    BY DEF Init, Activities, Author
  <2> QED
    BY <2>1, <2>2 DEF CreateInv, CreateRun, Early
<1>2. CreateInv => CreateHasNotified
  BY DEF CreateInv, Told, CreateHasNotified
<1>3. TypeInv <=> TypeOK
  BY DEF TypeInv, TypeOK, NoteRow, QueueOK, ClaimOK
<1>4. CreateInv /\ UNCHANGED vars => CreateInv'
  BY DEF vars, noteVars, CreateInv, CreateRun, Told, Act
<1> QED
  BY <1>1, <1>2, <1>3, <1>4, CreateInvStep, Invariant, TypeCorrect, PTL DEF Spec

-----------------------------------------------------------------------------
(* The dispatch claim.                                                     *)

Running == Handling \cup {"clear", "release"}

\* While no request has died the owner of a claim is at work; a delivery that is
\* about to claim finds the row of its claim, unless it was erased with the Note;
\* and a dispatch clears its claim after it is recorded.
DispatchInv ==
  /\ crashes = 0 => \A a \in Activities :
       claim[a].owner # Nobody => run[claim[a].owner].pc \in Running
  /\ \A d \in Deliveries :
       /\ run[d].pc = "claim" => claim[Act(d)].stored \/ receipt \/ purge # "no"
       /\ run[d].pc = "clear" => processed[Act(d)] = 1 \/ purge # "no"

\* What a step may do to the claims it does not take or free.
ClaimsKept ==
  \A a \in Activities :
    /\ claim'[a].owner = claim[a].owner \/ claim'[a].owner = Nobody
    /\ claim[a].stored => claim'[a].stored \/ receipt' \/ purge' # "no"

ProcessedKept ==
  \A a \in Activities : processed[a] = 1 => processed'[a] = 1 \/ purge' # "no"

\* Inside a handler a delivery moves from one step to the next or gives up.
LEMMA HandlerMoves ==
  ASSUME TypeInv, Inv, NEW d \in Deliveries,
         \/ AdmitUpdate(d) \/ LoadHead(d) \/ LoadEvents(d) \/ ReadNote(d)
         \/ CommitProjection(d) \/ Notify(d) \/ Conflict(d)
         \/ WriteReceipt(d) \/ ReadObject(d) \/ Cascade(d) \/ DeleteRow(d)
         \/ LookUp(d) \/ ReadTarget(d) \/ WriteEdge(d) \/ HandlerFails(d)
  PROVE  /\ run[d].pc \in Handling /\ run'[d].pc \in Handling \cup {"release"}
         /\ UNCHANGED <<processed, purge, crashes>>
         /\ claim' = claim \/ (receipt /\ claim' = ClaimsAfterCascade({Act(d)}))
<1> USE DEF At
<1>0. DOMAIN run = Deliveries /\ DeleteRun(d)
  BY DEF Inv, Shape
<1>h. {"admit", "head", "events", "note", "commit", "conflict", "notify",
       "receipt", "object", "cascade", "row", "known", "target", "edge", "finish"} = Handling
  BY DEF Handling
<1>1. run[d].pc \in Handling
  BY <1>h DEF AdmitUpdate, LoadHead, LoadEvents, ReadNote, CommitProjection, Notify, Conflict,
     WriteReceipt, ReadObject, Cascade, DeleteRow, LookUp, ReadTarget, WriteEdge, HandlerFails
<1>2. UNCHANGED <<processed, purge, crashes>>
  BY DEF AdmitUpdate, LoadHead, LoadEvents, ReadNote, CommitProjection, Notify, Conflict,
     WriteReceipt, ReadObject, Cascade, DeleteRow, LookUp, ReadTarget, WriteEdge, HandlerFails
<1>3. claim' = claim \/ (run[d].pc = "cascade" /\ claim' = ClaimsAfterCascade({Act(d)}))
  BY DEF AdmitUpdate, LoadHead, LoadEvents, ReadNote, CommitProjection, Notify, Conflict,
     WriteReceipt, ReadObject, Cascade, DeleteRow, LookUp, ReadTarget, WriteEdge, HandlerFails
<1>g. ASSUME NEW pc \in Handling \cup {"release"}, Go(d, pc)
      PROVE  run'[d].pc \in Handling \cup {"release"}
  BY <1>0, <1>g, GoTo
<1>s. ASSUME NEW pc \in Handling, NEW m, NEW n, NEW c, NEW l, NEW b, 
             Becomes(d, Snap(pc, m, n, c, l, b))
      PROVE  run'[d].pc \in Handling
  BY <1>0, <1>s, BecomesRun, SnapFields
<1>4. run'[d].pc \in Handling \cup {"release"}
  <2>1. CASE \/ AdmitUpdate(d) \/ Notify(d) \/ WriteReceipt(d) \/ DeleteRow(d)
             \/ LookUp(d) \/ ReadTarget(d) \/ WriteEdge(d) \/ HandlerFails(d)
    <3>1. \E pc \in Handling \cup {"release"} : Go(d, pc)
      BY <1>h, <2>1 DEF AdmitUpdate, Notify, WriteReceipt, DeleteRow, LookUp, ReadTarget,
         WriteEdge, HandlerFails
    <3> QED
      BY <1>g, <3>1
  <2>2. CASE LoadHead(d)
    BY <1>h, <1>s, <2>2 DEF LoadHead
  <2>3. CASE LoadEvents(d)
    <3>1. AfterEvents(d) \in Handling \cup {"release"}
      BY <1>h DEF AfterEvents
    <3> QED
      BY <1>g, <1>h, <1>s, <2>3, <3>1 DEF LoadEvents
  <2>4. CASE ReadNote(d) \/ ReadObject(d) \/ Cascade(d)
    BY <1>g, <1>h, <1>s, <2>4 DEF ReadNote, ReadObject, Cascade
  <2>5. CASE CommitProjection(d)
    <3>1. AfterCommit(d) \in Handling
      BY <1>h DEF AfterCommit
    <3> QED
      BY <1>g, <1>h, <1>s, <2>5, <3>1 DEF CommitProjection
  <2>6. CASE Conflict(d)
    <3>1. AfterConflict(d) \in Handling \cup {"release"}
      BY <1>h DEF AfterConflict
    <3> QED
      BY <1>g, <2>6, <3>1 DEF Conflict
  <2> QED
    BY <2>1, <2>2, <2>3, <2>4, <2>5, <2>6
<1> QED
  BY <1>0, <1>1, <1>2, <1>3, <1>4 DEF DeleteRun

\* Rows erased with the Note are free.
LEMMA CascadeKeeps ==
  ASSUME NEW kept, claim' = ClaimsAfterCascade(kept), receipt' \/ purge' # "no"
  PROVE  ClaimsKept
BY ClaimRows DEF ClaimsKept, ClaimsAfterCascade

LEMMA DispatchFrame ==
  ASSUME TypeInv, DispatchInv, NoteStays, ClaimsKept, ProcessedKept,
         NEW e \in Deliveries, run'[e] = run[e]
  PROVE  /\ run'[e].pc = "claim" => claim'[Act(e)].stored \/ receipt' \/ purge' # "no"
         /\ run'[e].pc = "clear" => processed'[Act(e)] = 1 \/ purge' # "no"
BY ActType DEF DispatchInv, ClaimsKept, ProcessedKept, NoteStays

\* A claim is taken from nobody, or from a delivery that is not at work.
LEMMA DispatchInvStep ==
  ASSUME TypeInv, Inv, DispatchInv, NoteStays, Next
  PROVE  DispatchInv' /\ ProcessedKept
<1> USE DEF At
<1>0. /\ DOMAIN run = Deliveries /\ ClaimOK /\ crashes \in Nat
      /\ processed \in [Activities -> {0, 1}]
      /\ claim \in [Activities ->
           [stored : BOOLEAN, owner : Deliveries \cup {Nobody}, live : BOOLEAN]]
      /\ Unclaimed.owner = Nobody /\ Unclaimed.stored = TRUE
  BY ClaimRows, InboundAssumption DEF Inv, Shape, TypeInv, ClaimOK, Unclaimed
<1>p. "owed" \notin Running /\ "claim" \notin Running /\ "acked" \notin Running
      /\ {"clear", "release"} \subseteq Running /\ Handling \subseteq Running
  BY DEF Running, Handling
<1>h. "clear" \notin Handling /\ "claim" \notin Handling
  BY DEF Handling
\* A step of d that leaves every claim with its owner or with nobody.
<1>a. ASSUME NEW d \in Deliveries, Step(d) \/ HandlerFails(d) \/ Crash(d),
             ClaimsKept, ProcessedKept, crashes' = crashes \/ crashes' # 0,
             \/ crashes' # 0 \/ run'[d].pc \in Running
             \/ \A a \in Activities : claim'[a].owner # d,
             run'[d].pc = "claim" => claim'[Act(d)].stored,
             run'[d].pc = "clear" => processed'[Act(d)] = 1
      PROVE  DispatchInv'
  <2>1. \A e \in Deliveries : e # d => run'[e] = run[e]
    BY <1>a, OneMoves
  <2>2. ASSUME crashes' = 0, NEW a \in Activities, claim'[a].owner # Nobody
        PROVE  run'[claim'[a].owner].pc \in Running
    <3>1. claim'[a].owner = claim[a].owner /\ claim[a].owner \in Deliveries
      BY <1>0, <1>a, <2>2 DEF ClaimsKept
    <3>2. run[claim[a].owner].pc \in Running
      BY <1>a, <2>2, <3>1 DEF DispatchInv
    <3> QED
      BY <1>a, <2>1, <2>2, <3>1, <3>2
  <2>3. ASSUME NEW e \in Deliveries
        PROVE  /\ run'[e].pc = "claim" => claim'[Act(e)].stored \/ receipt' \/ purge' # "no"
               /\ run'[e].pc = "clear" => processed'[Act(e)] = 1 \/ purge' # "no"
    <3>1. CASE e = d
      BY <1>a, <3>1
    <3>2. CASE e # d
      BY <1>a, <2>1, <3>2, DispatchFrame
    <3> QED
      BY <3>1, <3>2
  <2> QED
    BY <2>2, <2>3 DEF DispatchInv, Act
\* While no request has died, a delivery that is not at work owns nothing.
<1>b. ASSUME NEW d \in Deliveries, run[d].pc \notin Running, crashes = 0
      PROVE  \A a \in Activities : claim[a].owner # d
  BY <1>b, InboundAssumption DEF DispatchInv
<1>1. ASSUME NEW d \in Deliveries, Receive(d) PROVE DispatchInv' /\ ProcessedKept
  <2>1. /\ run[d].pc = "owed" /\ UNCHANGED <<processed, crashes, purge>>
        /\ \/ Go(d, "acked") /\ claim' = claim
           \/ /\ Go(d, IF processed[Act(d)] = 0 THEN "claim" ELSE "acked")
              /\ claim' = IF claim[Act(d)].stored THEN claim
                          ELSE [claim EXCEPT ![Act(d)] = Unclaimed]
    BY <1>1 DEF Receive
  <2>2. run'[d].pc \in {"claim", "acked"} /\ (run'[d].pc = "claim" => claim'[Act(d)].stored)
    BY <1>0, <2>1, GoTo, ActType
  <2>3. ClaimsKept /\ ProcessedKept
    BY <1>0, <2>1, ActType DEF ClaimsKept, ProcessedKept
  <2>4. crashes' # 0 \/ \A a \in Activities : claim'[a].owner # d
    BY <1>0, <1>b, <1>p, <2>1, ActType, InboundAssumption
  <2>5. Step(d)
    BY <1>1 DEF Step
  <2> QED
    BY <1>a, <2>1, <2>2, <2>3, <2>4, <2>5
<1>2. ASSUME NEW d \in Deliveries, Claim(d) PROVE DispatchInv' /\ ProcessedKept
  <2>1. run[d].pc = "claim" /\ UNCHANGED <<processed, crashes, purge>>
    BY <1>2 DEF Claim
  <2>2. Step(d) /\ ProcessedKept
    BY <1>2, <2>1 DEF Step, ProcessedKept
  <2>3. CASE Go(d, "acked") /\ claim' = claim
    <3>1. run'[d].pc = "acked" /\ ClaimsKept
      BY <1>0, <2>3, GoTo DEF ClaimsKept
    <3>2. crashes' # 0 \/ \A a \in Activities : claim'[a].owner # d
      BY <1>b, <1>p, <2>1, <2>3
    <3> QED
      BY <1>a, <2>1, <2>2, <3>1, <3>2
  <2>4. CASE /\ Go(d, Handler(Act(d)))
             /\ claim' = [claim EXCEPT ![Act(d)] = [stored |-> TRUE, owner |-> d, live |-> TRUE]]
    <3>1. run'[d].pc \in Handling
      <4>1. Handler(Act(d)) \in Handling
        BY DEF Handler, Handling
      <4> QED
        BY <1>0, <2>4, <4>1, GoTo
    <3>2. \A e \in Deliveries : e # d => run'[e] = run[e]
      BY <2>2, OneMoves
    <3>3. ASSUME crashes' = 0, NEW a \in Activities, claim'[a].owner # Nobody
          PROVE  run'[claim'[a].owner].pc \in Running
      <4>1. CASE a = Act(d)
        BY <1>0, <1>p, <2>4, <3>1, <4>1
      <4>2. CASE a # Act(d)
        <5>1. claim'[a] = claim[a]
          BY <1>0, <2>4, <4>2
        <5>2. claim[a].owner \in Deliveries /\ run[claim[a].owner].pc \in Running
          BY <1>0, <2>1, <3>3, <5>1 DEF DispatchInv
        <5> QED
          BY <1>p, <2>1, <3>2, <5>1, <5>2
      <4> QED
        BY <4>1, <4>2
    <3>4. \A a \in Activities : claim[a].stored => claim'[a].stored
      BY <1>0, <2>4
    <3>5. ASSUME NEW e \in Deliveries
          PROVE  /\ run'[e].pc = "claim" => claim'[Act(e)].stored \/ receipt' \/ purge' # "no"
                 /\ run'[e].pc = "clear" => processed'[Act(e)] = 1 \/ purge' # "no"
      <4>1. CASE e = d
        BY <1>h, <3>1, <4>1
      <4>2. CASE e # d
        BY <2>1, <3>2, <3>4, <4>2, ActType DEF DispatchInv, NoteStays
      <4> QED
        BY <4>1, <4>2
    <3> QED
      BY <2>2, <3>3, <3>5 DEF DispatchInv, Act
  <2> QED
    BY <1>2, <2>3, <2>4 DEF Claim
<1>3. ASSUME NEW d \in Deliveries, CommitDispatch(d) PROVE DispatchInv' /\ ProcessedKept
  <2>1. /\ UNCHANGED <<claim, crashes, purge>>
        /\ \/ Go(d, "clear") /\ processed' = [processed EXCEPT ![Act(d)] = 1]
           \/ Go(d, "release") /\ processed' = processed
    BY <1>3 DEF CommitDispatch
  <2>2. run'[d].pc \in {"clear", "release"} /\ (run'[d].pc = "clear" => processed'[Act(d)] = 1)
    BY <1>0, <2>1, GoTo, ActType
  <2>3. ClaimsKept /\ ProcessedKept
    BY <1>0, <2>1, ActType DEF ClaimsKept, ProcessedKept
  <2>4. Step(d)
    BY <1>3 DEF Step
  <2> QED
    BY <1>a, <1>p, <2>1, <2>2, <2>3, <2>4
<1>4. ASSUME NEW d \in Deliveries, ClearClaim(d) \/ Release(d) PROVE DispatchInv' /\ ProcessedKept
  <2>1. /\ UNCHANGED <<processed, crashes, purge>> /\ claim' = Freed(d)
        /\ Go(d, "acked") \/ Go(d, "owed")
    BY <1>4 DEF ClearClaim, Release, Idle, Go
  <2>2. run'[d].pc \in {"acked", "owed"}
    BY <1>0, <2>1, GoTo
  <2>3. ClaimsKept /\ ProcessedKept
    BY <1>0, <2>1, ActType DEF ClaimsKept, ProcessedKept, Freed
  <2>4. \A a \in Activities : claim'[a].owner # d
    BY <1>0, <2>1, ActType, InboundAssumption DEF Freed, Owns, ClaimOK
  <2>5. Step(d)
    BY <1>4 DEF Step
  <2> QED
    BY <1>a, <2>1, <2>2, <2>3, <2>4, <2>5
<1>5. ASSUME NEW d \in Deliveries,
             \/ AdmitUpdate(d) \/ LoadHead(d) \/ LoadEvents(d) \/ ReadNote(d)
             \/ CommitProjection(d) \/ Notify(d) \/ Conflict(d)
             \/ WriteReceipt(d) \/ ReadObject(d) \/ Cascade(d) \/ DeleteRow(d)
             \/ LookUp(d) \/ ReadTarget(d) \/ WriteEdge(d) \/ HandlerFails(d)
      PROVE  DispatchInv' /\ ProcessedKept
  <2>1. /\ run'[d].pc \in Handling \cup {"release"}
        /\ UNCHANGED <<processed, purge, crashes>>
        /\ claim' = claim \/ (receipt /\ claim' = ClaimsAfterCascade({Act(d)}))
    BY <1>5, HandlerMoves
  <2>2. ProcessedKept
    BY <2>1 DEF ProcessedKept
  <2>3. ClaimsKept
    <3>1. CASE claim' = claim
      BY <3>1 DEF ClaimsKept
    <3>2. CASE receipt /\ claim' = ClaimsAfterCascade({Act(d)})
      BY <3>2, CascadeKeeps DEF NoteStays
    <3> QED
      BY <2>1, <3>1, <3>2
  <2>4. Step(d) \/ HandlerFails(d)
    BY <1>5 DEF Step
  <2>5. run'[d].pc \in Running /\ run'[d].pc # "claim" /\ run'[d].pc # "clear"
    BY <1>h, <1>p, <2>1
  <2> QED
    BY <1>a, <2>1, <2>2, <2>3, <2>4, <2>5
<1>6. ASSUME NEW d \in Deliveries, Crash(d) PROVE DispatchInv' /\ ProcessedKept
  <2>1. /\ Go(d, "owed") /\ crashes' = crashes + 1 /\ UNCHANGED <<processed, claim, purge>>
    BY <1>6 DEF Crash, Idle, Go
  <2>2. run'[d].pc = "owed" /\ ClaimsKept /\ ProcessedKept /\ crashes' # 0
    BY <1>0, <2>1, GoTo DEF ClaimsKept, ProcessedKept
  <2> QED
    BY <1>6, <1>a, <2>2
<1>7. ASSUME (\E a \in Activities : LeaseExpires(a)) \/ Block \/ Purging
      PROVE  DispatchInv' /\ ProcessedKept
  <2>1. UNCHANGED <<run, crashes>>
    BY <1>7 DEF LeaseExpires, Block, Purging, PurgeCascade, PurgeRow, PurgeActivities
  <2>2. ProcessedKept
    BY <1>7 DEF ProcessedKept, LeaseExpires, Block, Purging, PurgeCascade, PurgeRow,
       PurgeActivities
  <2>3. ClaimsKept
    <3>1. CASE \E a \in Activities : LeaseExpires(a)
      BY <1>0, <3>1 DEF LeaseExpires, ClaimsKept
    <3>2. CASE \E kept : claim' = ClaimsAfterCascade(kept) /\ purge' # "no"
      BY <3>2, CascadeKeeps
    <3>3. CASE claim' = claim
      BY <3>3 DEF ClaimsKept
    <3>4. claim' = claim \/ (\E kept : claim' = ClaimsAfterCascade(kept) /\ purge' # "no")
          \/ \E a \in Activities : LeaseExpires(a)
      BY <1>7 DEF Block, Purging, PurgeCascade, PurgeRow, PurgeActivities
    <3> QED
      BY <3>1, <3>2, <3>3, <3>4
  <2>4. ASSUME crashes' = 0, NEW a \in Activities, claim'[a].owner # Nobody
        PROVE  run'[claim'[a].owner].pc \in Running
    BY <2>1, <2>3, <2>4 DEF ClaimsKept, DispatchInv
  <2>5. \A e \in Deliveries :
          /\ run'[e].pc = "claim" => claim'[Act(e)].stored \/ receipt' \/ purge' # "no"
          /\ run'[e].pc = "clear" => processed'[Act(e)] = 1 \/ purge' # "no"
    BY <2>1, <2>2, <2>3, DispatchFrame
  <2> QED
    BY <2>2, <2>4, <2>5 DEF DispatchInv, Act
<1> QED
  BY <1>1, <1>2, <1>3, <1>4, <1>5, <1>6, <1>7 DEF Next, Step

\* The delivery that is answered last was dispatched, or its activity was, or the
\* one that holds the claim is still to be answered.
LEMMA AckedStep ==
  ASSUME TypeInv, Inv, DispatchInv, NoteStays, ProcessedKept, AckedIsDispatched, Next
  PROVE  AckedIsDispatched'
<1> USE DEF At
<1> SUFFICES ASSUME crashes' = 0, purge' = "no", NEW a \in Sent, AllAcked(a)'
             PROVE  processed'[a] = 1 \/ receipt'
  BY DEF AckedIsDispatched
<1>0. /\ crashes \in Nat /\ crashes' \in {crashes, crashes + 1} /\ purge = "no"
      /\ a \in Activities /\ DOMAIN run = Deliveries
      /\ processed \in [Activities -> {0, 1}] /\ ClaimOK
      /\ claim \in [Activities ->
           [stored : BOOLEAN, owner : Deliveries \cup {Nobody}, live : BOOLEAN]]
  <2>1. crashes' \in {crashes, crashes + 1}
    BY DEF Next, Step, Receive, Claim, CommitDispatch, ClearClaim, Release, AdmitUpdate,
       LoadHead, LoadEvents, ReadNote, CommitProjection, Notify, Conflict, WriteReceipt,
       ReadObject, Cascade, DeleteRow, LookUp, ReadTarget, WriteEdge, HandlerFails, Crash,
       LeaseExpires, Block, Purging, PurgeCascade, PurgeRow, PurgeActivities
  <2>2. crashes \in Nat
    BY InboundAssumption DEF TypeInv
  <2>3. DOMAIN run = Deliveries
    BY DEF Inv, Shape
  <2> QED
    BY <2>1, <2>2, <2>3, InboundAssumption DEF TypeInv, ClaimOK, NoteStays
<1>1. crashes = 0
  BY <1>0
<1>2. CASE AllAcked(a)
  <2>1. processed[a] = 1 \/ receipt
    BY <1>0, <1>1, <1>2 DEF AckedIsDispatched
  <2> QED
    BY <1>0, <2>1 DEF ProcessedKept, NoteStays
<1>3. CASE ~AllAcked(a)
  <2>1. PICK d \in Deliveries : Act(d) = a /\ run[d].pc # "acked" /\ run'[d].pc = "acked"
    BY <1>3 DEF AllAcked
  <2>2. PICK e \in Deliveries : Step(e) \/ HandlerFails(e) \/ Crash(e)
    <3>1. run' # run
      BY <2>1
    <3> QED
      BY <3>1 DEF Next, LeaseExpires, Block, Purging, PurgeCascade, PurgeRow, PurgeActivities
  <2>3. Step(d) \/ HandlerFails(d) \/ Crash(d)
    BY <2>1, <2>2, OneMoves
  <2>4. "acked" \notin Handling /\ "acked" \notin Running
    BY DEF Handling, Running
  <2>5. Receive(d) \/ Claim(d) \/ ClearClaim(d)
    <3>1. ~(CommitDispatch(d) \/ Release(d) \/ Crash(d))
      <4>1. CommitDispatch(d) \/ Release(d) \/ Crash(d) =>
              \E pc \in {"clear", "release", "owed"} : Go(d, pc)
        BY DEF CommitDispatch, Release, Crash, Idle, Go
      <4> QED
        BY <1>0, <2>1, <4>1, GoTo
    <3> QED
      BY <2>1, <2>3, <2>4, <3>1, HandlerMoves DEF Step
  <2>6. CASE Receive(d)
    <3>1. ~Blocked(a)
      BY <1>0 DEF Blocked
    <3>2. Go(d, IF processed[a] = 0 THEN "claim" ELSE "acked") /\ processed' = processed
      BY <2>1, <2>6, <3>1 DEF Receive
    <3>3. processed[a] # 0
      BY <1>0, <2>1, <3>2, GoTo
    <3> QED
      BY <1>0, <3>2, <3>3
  <2>7. CASE Claim(d)
    <3>1. ~Claimable(a)
      <4>1. Claimable(a) => Go(d, Handler(a))
        BY <2>1, <2>7 DEF Claim
      <4>2. Handler(a) \in Handling
        BY DEF Handler, Handling
      <4> QED
        BY <1>0, <2>1, <2>4, <4>1, <4>2, GoTo
    <3>2. CASE ~claim[a].stored
      BY <1>0, <2>1, <2>7, <3>2 DEF Claim, DispatchInv, NoteStays
    <3>3. CASE claim[a].owner # Nobody
      <4> DEFINE o == claim[a].owner
      <4>1. o \in Deliveries /\ Act(o) = a /\ run[o].pc \in Running
        BY <1>0, <1>1, <3>3 DEF ClaimOK, DispatchInv
      <4>2. o # d
        BY <2>7, <4>1 DEF Claim, Running, Handling
      <4>3. run'[o] = run[o]
        BY <2>3, <4>1, <4>2, OneMoves
      <4> QED
        BY <2>4, <4>1, <4>3 DEF AllAcked
    <3> QED
      BY <3>1, <3>2, <3>3 DEF Claimable
  <2>8. CASE ClearClaim(d)
    BY <1>0, <2>1, <2>8 DEF ClearClaim, DispatchInv
  <2> QED
    BY <2>5, <2>6, <2>7, <2>8
<1> QED
  BY <1>2, <1>3

(* Unless a request died, an activity whose every delivery was answered 2xx  *)
(* has been dispatched or its Note is deleted, whichever of the racing       *)
(* deliveries won the claim, lost its lease or failed.                       *)
THEOREM AcksAreSafe == Spec => []AckedIsDispatched
<1>1. Init => DispatchInv
  <2> SUFFICES ASSUME Init PROVE DispatchInv
    OBVIOUS
  <2>1. \A d \in Deliveries : run[d].pc = "owed"
    BY FreshFields DEF Init, Idle
  <2>2. \A a \in Activities : claim[a].owner = Nobody
    BY ClaimRows DEF Init
  <2> QED
    BY <2>1, <2>2 DEF DispatchInv
<1>2. Init => AckedIsDispatched
  <2> SUFFICES ASSUME Init, NEW a \in Sent PROVE ~AllAcked(a)
    BY DEF AckedIsDispatched
  <2>1. <<a, 1>> \in Deliveries /\ Act(<<a, 1>>) = a
    BY DEF Deliveries, Act
  <2>2. run[<<a, 1>>].pc = "owed"
    BY <2>1, FreshFields DEF Init, Idle
  <2> QED
    BY <2>1, <2>2 DEF AllAcked, At
<1>3. TypeInv <=> TypeOK
  BY DEF TypeInv, TypeOK, NoteRow, QueueOK, ClaimOK
<1>4. DispatchInv /\ AckedIsDispatched /\ UNCHANGED vars => DispatchInv' /\ AckedIsDispatched'
  BY DEF vars, noteVars, DispatchInv, AckedIsDispatched, AllAcked, At, Act
<1>5. TypeInv /\ Inv /\ DispatchInv /\ AckedIsDispatched /\ Next
        => DispatchInv' /\ AckedIsDispatched'
  BY NoteStaysStep, DispatchInvStep, AckedStep
<1> QED
  BY <1>1, <1>2, <1>3, <1>4, <1>5, Invariant, TypeCorrect, PTL DEF Spec

=============================================================================
